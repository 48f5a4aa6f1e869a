# Loop Guard: formal models, model checking and proofs

TLA+ models of Loop Guard: its runtime and the durable store beneath it, the
evidence ledger, detection and planning, the coordinator's sessions and the
transport that carries them. TLC configurations check them on small instances;
every safety property of the runtime and its callers, the ledger, the detector, the
planner, the store, the transport and the sessions is proved for every instance. Paths below are relative to the
root of the repository.

## 1. The system

Loop Guard detects forwarding loops in a declared topology from bounded,
leased observations, publishes what it proved as *findings*, plans which
resources to contain, and tracks requests for containment until independent
effects verify them. Every decision binds a *fence vector* of six components
(boot, coordinator epoch, fabric epoch, topology, forwarding and policy
generation) and is worth nothing once any of them moves.

| Component | State | Operations | What makes it correct |
| --- | --- | --- | --- |
| Fence vector (`src/core.cpp`) | six generations | compare, `fence_cause` | the cause names a component that really moved |
| Runtime (`src/runtime.cpp`) | fence, definitions, ledger, registry, plans, applications, lineage, store; one mutex | move a fence component, install a definition, submit, detect, publish, plan, authorize, acknowledge, verify, withdraw, open, close | no authority outlives its fence; nothing acts without a lineage record; a verified finding was observed |
| Finding registry (`src/finding.cpp`) | bounded, sorted findings | register and evict, update state, fence | terminal is final; live findings are never evicted |
| Grants, applications (`src/authority.cpp`) | per grant, per intent | authorize; verified and unverified targets | a request stays in the scope of its grant and plan |
| Durable store (`src/persistence.cpp`) | file, memory copy, numbering | open or create, six mutations, compact, close | the file is one document, changed atomically, readable after any crash |
| Evidence ledger (`src/evidence.cpp`) | observations per edge and producer | submit, evict, resolve a hop | stale or contradicting evidence proves nothing |
| Detector, witness validator (`src/detect.cpp`, `src/witness.cpp`) | none between calls | assess, revalidate | a confirmed loop is a loop; "no loop" is exhaustive |
| Planner, validator, shadow (`src/containment.cpp`) | none between calls | plan, validate, shadow | an optimal plan cuts every witness at least cost |
| Topology (`src/topology.cpp`) | a builder, one definition with its indices | add, build, look up, encode, decode, text | the definition is that of the set of records, and survives a transfer and a restart |
| Sessions (`tools/lg_coordinator.cpp`) | sessions by identity, last assessment of each | accept, handshake, dispatch of the messages, close, exit at a commit, start on a store | a session keeps its connection; requests bind the fence in force; every request is answered |
| Peers (`tools/lgctl.cpp`, `tools/lg_worker.cpp`) | the fence believed in force, what is awaited | ask and wait; observe; acknowledge and report effects | an answer is that of the request; no belief runs ahead of the coordinator |
| Wire, transport (`src/wire.cpp`, `src/net.cpp`) | decoder buffer, frames of an earlier read | encode, decode, send with a deadline, receive | whole frames, in order, whatever the reads; a failed decoder stays failed |

**How they interact.** Sessions call the runtime; a runtime call takes the one
mutex and runs to its end, calling the ledger, detector, planner, registry and
store directly. The store is written while the mutex is held and calls nothing
back. The observer callback runs in the caller's thread after the mutex is
released, on a copy, and may call the runtime again. The
coordinator is one thread: it takes at most one frame of each session in turn,
handles it to the end, and then accepts at most one connection, for whose first
frame it waits up to a second. Peers are processes of their own that keep a
copy of the fence between requests.

**What is hard.** The interleaving of callers between their own calls (a fence
move between detect and publish, between authorize and a late effect) and of
the steps within them (a move takes several, with file writes between); entry
points that make several durable writes with a crash or a failure between
them; restarts, which must turn everything that was live into history;
capacity limits with two eviction rules that differ (registry and store);
torn, repeated and compacted journals; searches cut short by any of several
bounds, whose answers must not say more than was searched; frames cut at any
byte, sends given up half way, intents pushed between requests and answers.
Timeouts of the runtime appear as ticks that callers supply. `PROJECT.json` lists the hazards at their lines.

## 2. Modules

| Module | Role |
| --- | --- |
| `FenceVector` | the vector, its order of precedence, `FenceCause` |
| `FencedAuthority` | abstract: what the runtime promises about authority |
| `Runtime` | the runtime with registry, grants, applications, lineage, and the durable document as one variable |
| `Runtime_proofs` | theorems about `Runtime`, and that it implements `FencedAuthority` |
| `MCRuntime` | instances of `Runtime` for TLC |
| `Facade` | the threads that share one runtime: mutex, steps under it, observer |
| `Facade_proofs` | theorems about `Facade`: moves, calls, observers |
| `MCFacade` | an instance of `Facade` for TLC |
| `Evidence` | the evidence ledger and the resolution of a hop |
| `Evidence_proofs` | theorems about `Evidence` |
| `MCEvidence` | instances of `Evidence` for TLC |
| `Document` | the content of the durable document and the effect of one record on it |
| `DurableDocument` | abstract: one document, changed one request at a time |
| `Journal` | the store that implements it with a file of frames |
| `Journal_proofs` | theorems about `Journal`, and that it implements `DurableDocument` |
| `MCJournal` | instances of `Journal` for TLC |
| `Definition` | a topology from its builder to the store and back, and the policy beside it |
| `Definition_proofs` | theorems about `Definition` |
| `MCDefinition` | an instance of `Definition` for TLC |
| `Topology` | a canonical definition as constants, with what canonicalisation ensures |
| `Detector` | one call of the detector, step by step |
| `Planner` | one call of the planner: search, plan, validation, shadow |
| `Analysis` | a caller that detects and then plans, from `Detector` and `Planner` |
| `Analysis_proofs` | theorems about the answers and the plans |
| `MCAnalysis` | an instance of `Analysis` for TLC |
| `Transport` | one direction of a framed connection |
| `Transport_proofs` | theorems about `Transport` |
| `MCTransport` | an instance of `Transport` for TLC |
| `Session` | the coordinator's loop, its operators, workers and stray peers |
| `Session_proofs` | theorems about the safety of `Session` |
| `MCSession` | an instance of `Session` for TLC |

`Runtime` and `Facade` implement `FencedAuthority` and `Journal` implements
`DurableDocument`, each by `INSTANCE ... WITH` and a PROPERTY of a run.
`Facade` is why `Runtime` may take a whole call for one step: both keep the
same contract, one with the steps of several threads, the other with the detail
of what each call does.
`Runtime` relies on the store exactly as far as `DurableDocument` describes it:
a durable write commits whole or not at all. Its `disk` is that document with
the findings in full. `Analysis` composes `Detector` and `Planner`, which share
`Topology`. `Runtime` leaves open what `Detect` returns and what a plan covers,
`Session` leaves open what the evidence proves, and both what `Transport` does:
each choice allows what the module below it does, and more.

### Runtime

One action per entry point of `Runtime`, because each takes the mutex once.
Where an entry point makes several durable writes, the state in which a crash
can leave the document is an alternative of the action: definition without
fence (`SetTopology`, `SetPolicy`), finding without registration
(`PublishFinding`). A crash after the last write is `Stop`. `Halt` forgets all
memory; `Open` mints the next boot and epoch and restores what is durable as
fenced history. With `StoreMayFail` a durable write may be refused while the
process goes on.

Abstractions:

- *Evidence and detection.* `proven` is the set of loops whose every hop the
  ledger proves open now. `SubmitObservation` may change it to anything (new
  evidence proves, contradicts, supersedes, evicts), and so may `Tick` (leases
  end, that of a contradiction included) and a fence move (an observation may
  bind a generation before it is in force), except that no observation binds
  a policy. A restart empties it. `Detect` returns any part of it: the search
  bounds may drop witnesses. Which evidence proves a hop is `Evidence`.
- *Planning.* `Cover` is the function from witness sets to target sets; `{}`
  stands for a plan that authorizes nothing.
- *Identity.* A digest is its content. A finding's identity is a hash, so
  `minted` assigns contents to identities in no particular order. That matters:
  `publish_finding` derives a generation from the finding that is last in hash
  order, and registry ties and the plan attachment go by identity.
- *Grants.* Cardinality and cost budgets only cut down the target sets a grant
  covers, as its scope does, and are part of it.
- *Lineage.* `audit` is the lineage since the last fence move or start, in order
  and cut to `MaxLineage` records as `append_lineage` cuts it (`Retained`): the
  oldest goes first, whatever it is about. Records of before the move concern
  authority that is gone and go before any other, so they are left out. The
  store cuts its own list by the same bound; nothing reads that list back.
- *A withdrawal the store refuses.* `DurableStore::withdraw_finding` appends its
  record before it looks for the finding. For one it does not hold the document
  keeps what it had, and the refusal of such a file by replay is `Journal`'s.

### Evidence

`observations` is the ledger's map; its two indexes are projections of it
(`ByEdge`, the identities). `Submit` is `submit` for an accepted observation:
the three refusals that depend on state are its guard, the structural ones
leave no observation to enumerate, and eviction (`Evicted`) and the producer's
high sequence are part of it. `Resolve` is `resolve_hop_from_observations`; the
fence and the tick are arguments, as in the code, so the properties hold for
every fence and tick a caller may bring. `incarnation` stands for boot and
epoch, `binding` for fabric epoch, topology and forwarding generation: they are
compared for equality only. Of the selectors only matters whether a Present
statement names one the edge admits. `claims` and `lossy` are history: what
each author said last about each hop, and where eviction lost something.

### Journal

`file` is the sequence of frames on disk: one snapshot, then journal records,
possibly a torn frame last. `mem` is `state_`, and `gen`, `next`, `records`
are the members that number the next append; they are variables of their own
because failures make them disagree with the file. `AppendPayload` is
`append_payload` as a whole: compaction first if the bound asks for it
(`Target`), then the frame, then, only if it is durable, the change in memory.
Its alternatives are its outcomes: committed; the process ends with none,
part or all of the frame on disk; with `AppendMayFail`, the same with the
process going on; with `ReplaceMayFail`, the compaction fails. `Open` is
`open_or_create`: replay, the refusals (`WellFormed`, and the record bound),
truncation of the torn tail, and a new boot record before anything is
returned. A caller, `held`, is the runtime: it withdraws only what it holds.

A snapshot replaces the file by rename, so it is there whole or not at all.
Bytes after a torn frame make the file undecodable; in the code it depends on
the lengths whether they are refused or dropped as part of the tail, and
either way they are lost.

### Detector, Planner, Analysis

`LoopDetector::assess` is pure; it is modelled as steps because its bounds cut
it at different places. `Begin` chooses the resolution of every hop, the
limits and the scope: any evidence. `Probe` asks the existence proof for one
selector (`HasCycle`, Kahn's algorithm); `Start`, `Extends`, `Descend`,
`CloseCycle`, `DeadEnd` and `Backtrack` are the loop of the enumeration with
its explicit stack; `OutOfSteps`, `ReachLength` and the cycle counters are its
bounds; `Validate` gives the listed cycles to the witness validator and `Answer`
combines what was found. `reached` is history: the bounds that stopped
something. `Planner` is the hitting set search one node at a time (`Enter`,
`Leaf`, `Branch`, `Try`, `Return`, `Exhaust`), `MakePlan` with the greedy
recommendation and the plan validator (`Accepted`), and the shadow definition
(`Shadow`). `Analysis` gives a planner the witnesses of an answer.

Abstractions: edge identities are taken to be unique, although
`topology.cpp:374` compares neighbours only; requests that are answered before
the search starts (another generation, a malformed scope) and the memory ceiling
of the masks are left out; `validation` is the budget of the validator in
hops; a witness has the identity nobody assigns (`witness.hpp:33`), so every
lookup by identity finds the first witness, as in the code.

### Transport

A frame is a sequence of units, the first `HeaderUnits` of them its header. The
kernel takes and returns any number of units (`Send`, `Receive`), so that a read
may end anywhere. `SendExpires` is the deadline of `send_all`: what was sent
stays in the stream, and the caller may go on, as the coordinator does. A header
mixed from two frames declares any length, above the ceiling included, and a
digest never matches units it was not computed over: these are the two facts
the model takes from the bytes. `CloseSender` may lose the end of what is in
flight. `handed`, `abandoned` and `delivered` are history.

### Session

The state is the coordinator's (`sessions`, `greeting`, `backlog`), that of the
connections (`link`, `inbox`, `outbox`) and what each peer knows (`peer`). One
action per handler: `Handle` is `handle_frame` on the next frame of a session,
with a disjunct per message type; `Accept`, `Greet` and `GreetExpires` are the
second half of the main loop. While a first frame is awaited no session is
served, as in the code. `Exit` is the exit at a commit that
`--exit-before-commit` and `--exit-after-commit` ask for; `Killed` ends the
process at any other time. `Restart` is the start of `main` on the same store:
the fence comes back from it (`Reopened`), `--ring` raises topology and policy by
one each, and no session, connection or finding in force survives. A peer learns
that its connection closed and ends; those that come after the restart are
other processes, as none of the tools connects twice. `lgctl` asks, waits,
and takes the fence it asked for as the fence in force when an answer of the
right type comes. Started with `--as-worker` (`AsWorker`) it is registered as a
worker and is sent intents, which it takes for answers of a wrong type. A step
without its answer ends the script, except `observe`: there it ends only the
loop over edges, by a frame of another type or by the deadline (`GiveUp`), and
the next step goes on with the answer perhaps still to come (`NoAnswer`, which
`late` remembers). `lg_worker` takes any frame for an answer; a stray peer claims
another's session, repeats a sequence, or says nothing.

Abstractions: the runtime is the fence, one finding and the intents; each
request has the outcomes the runtime may give, a refusal of any authorization
included. `FindingQuery` stands for the three requests that only read; the
answers of the `digest` and `restart-report` steps are awaited as that of
`findings` is. Components that sessions do not move, and the
branches of `FenceAdvance` for fabric and coordinator epoch, are left out, and a
topology is installed. Payloads decode and durable writes succeed; the
outcomes of other payloads are those of `Refuse`. A worker reports one effect
for each intent. That it acknowledged the intent first is what `lg_worker` does
and not what the coordinator asks for: `ContainReport` takes an effect from any
session, as `lg_coordinator.cpp:376` and `runtime.cpp:780` do, and no stray peer
of the model sends one. Sequences of what the coordinator sends are left out, because
no peer compares them. What a restart does to findings, plans and documents is
`Runtime`'s; intents of before are kept as history, and no peer can report on
them.

### Facade

Threads call one runtime. Each has a stack of calls: `Call` puts one on top,
`Lock` takes `Impl::mutex`, the actions named for the calls are what is done
under it, in two steps where the code writes a file in between, and `Notify`
calls the observer that was copied under the lock. A callback is a frame like
any other, from which the observer may call again. `authorize_containment`
looks its finding up once more after it has released the mutex (`Reread`), and
what it shows is what it finds then. `describe()` calls `state_digest()` under
the mutex that `state_digest()` takes: `std::mutex` is not recursive, and the
model waits where the usual implementations wait. Calls that come after
`close()` still change memory and fail at the store.

Abstractions: the fence is one number, and a finding has the number of the
fence it was published under, so that there is one for each; of its states,
those terminal are one. Writes succeed while the store is open. The calls that
neither move the fence nor change or return a finding have the shape of
`Detect`. `is_open()` reads a plain flag without the mutex while `close()`
writes it: it returns one of two values to a caller that could have had either
a moment apart, and is left out.

### Definition

`builder`, `definition`, `installed` and `policy` are the topology under
construction, the one that was built, and what is in force; `journal` has the
payloads in the store. `Canonicalized` is `canonicalize_topology`: the sorts,
every refusal, and the indices (`Indexed`) with the two passes that fill the
adjacency (`Offsets`, `OutList`). `Encode` and `Decode` are the payload codec,
`ToText` and `FromText` the text form; both readers go through a builder
(`Rebuilt`), as in the code. `Restart` replays the payloads, of which one that
does not decode refuses the document.

Abstractions: a label is its length, how many bytes of a character the cut at
the bound would leave over, where its first quote and its first line break are,
and whether the lines after that break are such as the text reader takes
(`form`). If they are not, it refuses the text; if they are, the label ends at
the break (`ReadBack`), and what those lines declare is left out, since the text
is not that of the definition already. Kinds, states and names of records, which nothing
is decided by, are left out. `Sorted` is `std::sort`: some order in which no element
comes after one it is before, left open where two elements are before neither, as
edges of one identity are in the index. Identities
of value zero stand for invalid ones.

## 3. Runs

The runtime, store, ledger and analysis runs check safety under no fairness: the
modules are passive, act only when called, and nothing in the code obliges a
caller to call again. Three runs check liveness. `transport` assumes that a
started `send_all` goes on while the kernel has room (its loop ends only when
all is sent or the deadline has passed) and that the owner of a connection keeps
calling `receive_frame`, as all three programs do. `session` assumes that the
main loop comes round to every session and to the listener, which it does as
each of its waits is bounded, and that an operator that waits takes what
arrives, as `expect` does; nothing is assumed of workers and stray peers. `facade`
assumes that a thread which is in a call goes on and gets the mutex when it is
free, and that an observer that was called returns; `WF` per thread is enough
because the calls of the model are finitely many, and nothing obliges a thread to
call.

| Run | Instance | Shows |
| --- | --- | --- |
| `runtime` (`MCRuntime.cfg`) | one loop, one resource, two identities, registry of one, two fence moves or restarts | the safety properties of the facade and `ImplementsAuthority` |
| `containment` (`MCContainment.cfg`) | two interchangeable resources, one identity, two intents, two ticks, a lineage of three records | requests with overlapping targets, late and repeated answers, expiry of grants; what a lineage that fills up still says |
| `facade` (`MCFacade.cfg`) | two threads of four calls, an observer that may be set and removed, and that calls back twice deep; two fences, registry of one | the calls of several threads keep the contract; what observers are shown; that calls return |
| `journal` (`MCJournal.cfg`) | two findings, record bound 2, two compactions, three epochs | recovery, compaction and refinement with a crash at every write |
| `definition` (`MCDefinition.cfg`) | four resources of which two share an identity, two selectors, five edges of which two share an identity, labels that are cut to the bound and to more than it, with quotes and with line breaks; two policies | what is built, stored and read back, for every order of the calls |
| `evidence` (`MCEvidence.cfg`) | one hop of two observations, two producers with two incarnations and two sequences, three identities, two leases | what proves a hop, with eviction, supersession, expiry and repeated submission |
| `analysis` (`MCAnalysis.cfg`) | three resources, six edges with the loops 1-2, 2-3, 1-3-2 and, over an uncertain edge, 1-3; two selectors; seven limits; every set of eligible resources; node budgets 1, 3 and 99 | what answers and plans may claim, for every evidence and every bound |
| `transport` (`MCTransport.cfg`) | four frames of 3 to 6 units, a kernel of 5 units | frames arrive whole, in order and in the end |
| `session` (`MCSession.cfg`) | two operators of which one may be registered as a worker, one worker, one stray peer, of which three connect, less one for each restart | identity, fences and answers across sessions and restarts |
| `runtime_store_failure` | as `runtime`, a write may fail | **violated**: live findings survive a fence move whose write fails |
| `journal_bound` | record bound 3 | **violated**: the store can write a file it will not open |
| `definition_identities` | as `definition` | **violated**: a definition with two edges of one identity |

The properties, in the order of what they cost to get wrong:

- `LiveFindingsCurrent`, `ImplementsAuthority`: any fence move, by any entry
  point or a restart, revokes all authority in the same step; the fence never
  goes back.
- `VerifiedIsObserved`, `ContainmentIsForTheProvenLoop`: containment concerns
  the targets planned for the loop that was proven, and a finding reads as
  verified only by observed effects for every target of a request.
- `TerminalIsFinal`, `CauseIsAccurate`: late answers do not revive a fenced
  finding, and what it says about its end is true.
- `LineageCoversAuthority`: nothing acts without its record, and what retention
  takes away is the beginning of a trace: while a recommendation is recorded so
  are the plan and the intent after it, and while an intent is, so is its effect.
- `FenceNamesDefinitions`: a crash between the two writes of a definition leaves
  a fence that names the topology in force, and never a later policy.
- `ReadersSeeWholeMoves`, `NoticesFollowCommits`, `CallsReturn`: threads that
  share the runtime never see a move half done; an observer is shown a state its
  finding has reached; and every call returns, unless somebody called
  `describe()`.
- `CanonicalIsOfTheSet`, `LookupsAreRight`, `TransfersKeepDefinition`,
  `RestartReadsWhatIsInForce`: the definition. Every set of unique and declared
  records is built, and nothing else but some sets that repeat the identity of an
  edge, which `definition_identities` shows. The last two say exactly which
  definitions and policies survive being stored, sent, written as text and read
  back (see 4).
- `ProvenOpenIsClaimed`, `ContradictionIsSeen`: neither eviction nor late
  submissions make a hop proven by a statement its author replaced, and current
  statements that disagree are a conflict as long as nothing was evicted.
- `MemoryIsTheDocument`, `DocumentIsWellFormed`, `ImplementsDurableDocument`,
  `IdentityIsFresh`: the store.
- `NoLoopIsProved`, `AnswerIsGraded`, `ListIsComplete`, `WitnessesAreLoops`: "no
  loop" is a proof for every possibly open hop, whatever bound was reached; an
  answer names the weakest evidence that closes a loop; a list without flags is
  all of them (step and validation bounds excepted, see 4); and every witness is
  a loop. They compare the searches with definitions over all cycles.
- `PlanIsHonest`: a plan called optimal is the best of all sets of eligible
  resources in the order of `objective_better`; one cut short still hits every
  loop; a claim of infeasibility is right; nothing off the loops is cut; and the
  shadow definition has no listed loop whose cycle is in order.
- `DeliveredInOrder`, `FailureHasACause`, `FramesArrive`: the connection.
- `SessionStaysBound`, `OperatorReadsItsAnswer`, `ViewIsNotAhead`,
  `VerifiedUnderItsFence`, `RequestsAreAnswered`: the sessions. No operator takes
  for its answer what answers another request, two observations excepted; and
  one that is not registered as a worker, and never went on without an answer,
  finds nothing before its own.

**Bounds and why they are enough.** One witness is enough for the runtime:
findings for different loops interact only through capacity, eviction and
identity order, and two identities with a registry of one show these; the
witness set of an assessment is only compared. Two fence moves give a finding
that was fenced, one that is live under the next fence, and answers for both.
`runtime` keeps one lineage record, of which only its type invariant speaks; `containment`
keeps three, fewer than a finding with two requests makes, so that records of
what is live are erased in each position.
`MaxHeld` and `MaxIntents` bound what callers keep, not what the runtime does.
A record bound of two makes the journal compact on every third append, so
records, boot entries and torn tails meet a compaction in every position;
three epochs are two restarts. In the ledger two authors are needed to
contradict, two sequences to replace, and a bucket of two with three identities
to evict; hops share only the sequences, so one is enough. The graph of
`analysis` has loops of two lengths that share hops, a hop the definition is
not certain of and hops whose selectors do not meet; each limit stops something
on it (a shorter length than the longest loop, one witness, one cycle, one
candidate, six steps, and a validation budget below what the witnesses need), and
some hops take only some resolutions to keep 442,796 states. In `transport`
the third frame does not fit into the kernel, so that sends are given up inside
header and body, and reads hold parts of two frames. In `facade` two threads are enough,
because a third can only hold the mutex or wait for it; four calls are a detect,
a publication, an authorization and one more, against moves, closes and
replaced observers of the other thread, and the depth lets an observer call.
In `definition` three edges fit, so that two of one identity can be next to each
other or have a third between them; a line break comes with and without a quote
before it; and two policies let a good one replace a
bad one. In `session` the stray
peer claims the identity of the first operator; one operator goes through
detection to authorization while the other moves the fence or withdraws; the
worker takes an intent while it waits and while it serves; and the operator that
may be registered as a worker has a step after its observations, so that their
late answer and a pushed intent both come before the answer it waits for. Deadlock is not
checked: every run's bounds let the system stop, and a passive system may stop
anyway.

Each property has a mutant of the code's definitions (an operator beside the
definition, marked "Mutant") under which TLC finds it violated.

## 4. Disagreements between code and documentation

The violated runs; `PROJECT.json`, "findings", quotes what each contradicts:

- a store failure in the middle of a fence move (`runtime.cpp:258`);
- the record bound (`persistence.cpp:1454` against `:1212`);
- edges that share an identity (`topology.cpp:374`).

Met while modelling, without a run of their own:

- A finding becomes verified when one request for it is fully verified
  (`runtime.cpp:813-827`), although another request for it has targets without an
  effect. `VerifiedIsObserved` says "some intent" for this reason; README.md:59
  says "verified effect for **every** target".
- The remains of a failed append stay in the file and the counters do not move
  (`persistence.cpp:1464`), and a failed compaction leaves the new generation in
  memory (`persistence.cpp:1481`): the next append makes the document unreadable.
  With `AppendMayFail` or `ReplaceMayFail` TRUE, `Journal` violates
  `DocumentIsWellFormed`.
- Replay does not apply the retention that memory applies
  (`persistence.cpp:1271`), so that a compaction after a restart may write more
  findings than a snapshot may hold (`:833`); the boot ledger (`:797`) is never
  trimmed at all. `docs/VALIDATION.md:113-114` says that a compacted document still decodes.
- The shadow looks a target up in a witness's cycle by binary search
  (`containment.cpp:667`), but a cycle is kept in canonical rotation and not in
  order, so that it may leave a loop through a target
  (`containment.hpp:200-202` says all targets are disabled, `:71` that the hops
  of a target are those of its witnesses).
- `describe()` waits for the mutex it holds (`runtime.cpp:961`, `:971`), although
  `runtime.hpp:10-12` and `docs/OWNERSHIP_AUDIT.md:24-30` say no public method
  re-enters another; `runtime.hpp:8-9` says the mutex is never held across a
  filesystem write, and every durable entry point does so.
- An observer that was copied before it was replaced is called after
  (`runtime.cpp:576`), although `OWNERSHIP_AUDIT.md` gives its lifetime as until
  replaced; `plan_containment` copies the observer and never calls it (`:622`).
- The lineage keeps the last `max_retained_lineage` records (4096,
  `limits.hpp:62`) whatever they are about (`runtime.cpp:238-240`): requests for
  plans in number erase the records of findings and intents that are still live.
- A withdrawal of a finding that the store dropped is written and then answered
  with NotFound (`persistence.cpp:1673-1686`); the next open refuses the file that
  has such a record (`persistence.cpp:1293-1297`).
- An operator goes on after an `observe` step that got no answer
  (`lgctl.cpp:178-180`), reports the step as done (`:182`), and may take the late
  answer for that of the next request: a later step then fails, or an observation
  passes for accepted. With `--as-worker` (`:113`) an intent is taken in the same way.
- `topology.hpp:141` says canonicalisation removes duplicate selector
  references, which it refuses.
- A label over 128 bytes is cut to at most 131 (`topology.cpp:266`,
  `core.hpp:140-142`), which the payload codec refuses (`wire.cpp:307`, `:319`):
  a topology that was built can be neither installed durably nor sent.
- The text form writes labels as they are (`topology.cpp:442-452`) and is cut into
  lines before they are read (`:475`): a label with a quote or a line break reads
  back as another one, or the rest of it refuses the text.
- A policy whose lists are out of order, or longer than the limit on selectors, is
  accepted, written and then refused by the decoder (`wire.cpp:476-481`,
  `persistence.cpp:1568`): the store does not open until the record is compacted
  away, which only a running process can do.
- Supersession is decided after epoch, generation and lease
  (`evidence.cpp:175-187`), although `evidence.cpp:202-204` says a superseded
  observation creates no possibly open hop.
- The step bound of the enumeration and the validation budget cut the list of
  witnesses and set no flag (`detect.cpp:573`, `:666`), although README.md:91-92
  names both kinds of budget.
- A send deadline after a partial write leaves a stream no one can decode, and
  replies ignore it; `docs/PROTOCOL.md:107-109` says the connection is left
  usable.
- A worker that waits for an answer takes an intent for it
  (`lg_worker.cpp:114`, `:201`) and neither acknowledges nor reports it, although
  `lg_worker.cpp:3-4` says it acknowledges the intents it received.
- The handshake answer and the first reply both carry sequence 1
  (`lg_coordinator.cpp:559`), and a stream that ends inside a frame is reported
  as closed, not as truncated (`docs/PROTOCOL.md:31`, `:38-39`).

## 5. Proofs

`Runtime_proofs` proves, with no bound on anything:

- `TypeCorrect`: `Spec => []TypeOK`. The invariant is inductive as it stands;
  what takes work is the registry (eviction picks an element: `LargestIsMember`
  gives the maximum of a set of naturals bounded above, by well-founded
  induction on its complement to the bound) and the sequence of durable
  findings.
- `AuthorityIsCurrent`: `~StoreMayFail => (Spec => []LiveFindingsCurrent)`. The
  inductive invariant is `TypeOK /\ LiveFindingsCurrent`. The argument is
  `FenceCauseOfMove`: `FenceCause` answers "none" only for equal vectors, so
  `FenceStale` leaves a finding live only if it binds the new fence; every
  other action keeps the fence and either leaves dead findings dead
  (`UpdateStateKeepsDead`) or adds a finding of the current fence. The
  hypothesis is needed: the run `runtime_store_failure` violates the property
  without it.

It also proves the rest of what the runs `runtime` and `containment` check. It splits the steps into moves of the fence, starts, and
other calls (`KindsOfSteps`), and strengthens in layers, each inductive on top
of those before it:

| Layer | Says | Theorems |
| --- | --- | --- |
| `FenceKnown` | fence, definitions and document agree on boot, topology and policy, or the fence is behind | `DefinitionsAreNamed`; `TerminalStaysTerminal` |
| `Identified`, `Planned` | an identity names one content for good, in memory, on disk and in intents; plans are of their assessment | `ContainmentStaysOnItsLoop`, `VerifiedWasObserved` |
| `Accurate` | a live finding's fence is at most the one in force, and a recorded cause is strictly behind | `CausesStayTrue` |
| `Recorded` | the document has the fence in force, or a larger epoch | `RuntimeKeepsAuthority` |
| `Followed`, `LineageInOrder` | no intent is of a fence still to come; records follow each other as the calls did, and what is missing was erased by a full lineage | `EveryActIsRecorded` |

Why each is needed: the properties compare a finding with things that outlive
it. An intent stays when its finding was evicted, and only `Identified` says
that a finding which later takes the identity is the same; a cause recorded
three moves ago is still true only because components never fall, so inequality
has to be strengthened to `<`; a restart is later than all before it only if
what the document has is not behind (`Recorded`, false when writes fail); and a
move clears the record, which covers the new fence only if nothing was issued
under it already (`Followed`). Retention takes the first record only, so that it
keeps whatever order the records have. `RuntimeKeepsAuthority` and `EveryActIsRecorded`
assume `~StoreMayFail`; the other five hold for refused writes as well.

`Facade_proofs` proves, for any threads, observers and bounds, `MovesAreWhole`
and `CallsKeepAuthority`. The invariant is `IInv`: only the holder of the mutex
has a frame under the lock, and only on top, unless it waits for the lock again
(`OneInside`); what a call checked under the lock holds until it is done
(`Checked`); a live finding is behind the fence only during a move (`Whole`);
and nothing was published under a fence to come (`Unborn`). Without `Checked`
a publication could commit after a move that came between, which is what the
mutex prevents.

It proves `NoticesAreTrue` as well, for the same constants: what an
observer is told about a finding was true of it when its call was done. The lock
is free between the commit and the callback, so this has to be carried through
any other call. `NInv` adds to `IInv` that a fenced finding is behind the fence
(`Left`), and that every stack is `Truthful`: a frame that is to notify, or has a
callback above it, has a copy that the finding has reached. Findings only rise
in `Rank`, and one that was seen and is gone was evicted, hence fenced, of a fence
that was left, and is not published again (`Later`): what was reached stays so.

`Evidence_proofs` proves, for any numbers of hops, producers and observations:

- `LedgerKeepsNewest`: the inductive invariant. Whenever any statement of an
  author about a hop is retained, so is the newest (`NewestIsRetained`);
  eviction keeps this because it removes a prefix of the canonical order
  (`EvictionIsDownward`, by the cardinality of the sets above two elements),
  submission because sequences only rise (`SubmittedIsNewest`). The property
  itself is not inductive: it does not say that what is newest among the
  retained is newest of all.
- `ProvenOpenRestsOnClaims` and `ConflictsAreComplete`: `ProvenOpenIsClaimed`
  and `ContradictionIsSeen` follow from it.
- `LedgerIsBounded`: the bounds of `TypeOK`, per hop, producer and ledger. An
  eviction leaves room for the one that comes (`EvictionMakesRoom`): the order is
  total (`BeforeIsTotal`), so that some element has the largest set above it, and
  a set over its bound always has one that goes.

`Session_proofs` proves every safety property of `Session`, for any sets of
operators, workers and stray peers, any claims and scripts: `SessionTyped`,
`SessionsStayBound`, `OperatorsReadTheirAnswers`, `ViewsAreNotAhead` and
`VerificationIsOwned`. None of them is inductive. `IInv` adds to them:

| Part | Says | Needed because |
| --- | --- | --- |
| `Typed` | the types of frames, mailboxes and what peers know | the properties compare their fields |
| `Connected` | a connection is in the backlog, greeted, or one session's, and open; a peer that has not connected has none; a session is of the kind its peer told | otherwise two sessions could share a connection, and intents could reach an operator that is no worker |
| `Phased` | each kind of peer keeps to its own phases; before the handshake is answered it is in no session | an intent is pushed only to workers in a session, and an operator must not be taken for one |
| `Turns` | every frame under way to or from an operator is a request of it, an answer to one with the sequence of that request, or an intent if it is a worker; an operator that never went on without an answer alternates with the coordinator, and the one answer under way is to what it asked last | what is in the mailbox has to be known before it is read |
| `Believed` | handshake answers in flight carry no fence ahead of the one in force | a view is taken from a frame that was sent earlier |
| `Reported` | acknowledgements and reports in flight are of intents that the worker has handled, under its own view | verification rests on a frame that was sent earlier |

So each property about a peer's state is strengthened to the frames that will
bring that state about. A step of the coordinator is described once by its
outcome (`Outcome`: the sessions left, the frames sent and to whom) and each
part is shown to survive that outcome (`HandleTyped` to `HandleVerified`); a
step of a peer once by `PeerStep`; a kill or a start by `SilenceKeeps`, since it
takes mail away and raises nothing but the fence. `Granted` is the fact that makes
`ViewsAreNotAhead` true: a request can be accepted for a fence its sender made
up from what it knew only if the coordinator's fence is then at least that.

`Analysis_proofs` proves of the detector, for any topology, request and bounds:

- `RemainingIsExact`: what Kahn's algorithm leaves is exactly the positions from
  which one can walk forever, and so `NoLoopIsAlwaysProved`: "no loop" is
  answered only where there is none.
- `WitnessesAreAlwaysLoops`: a witness is a loop of proven hops of one class.
- `ListIsAlwaysComplete`: a list that claims to be complete has every proven loop. At
  each step of the enumeration a proven loop that is not listed is ahead of the
  starts, or pending on the stack (`PendingOn`: it runs along the stack and leaves
  it at a hop not yet tried), or was lost to a bound that was recorded.
- `AnswerIsAlwaysGraded`: the verdict says no more than the search did.

The invariant follows the call: `RequestInv`, `ExistenceInv` (Kahn), `StackInv`,
`ListInv`, `CompleteInv`, `AnswerInv`. Recursive functions over the naturals are
in reach without an induction theorem: the set of the numbers for which a
function with the right equations exists (or for which a fact about it holds) has
0 and is closed under successor, so it is `Nat` (`NaturalSet`). Rotation picks a
least element, which exists because the order of witnesses is total.

It proves of the planner `PlanIsAlwaysHonest`: a plan hits the loops it says it
hits, "optimal" is at least cost, "infeasible" means that no set within the limits
hits them all, and the validator agrees. Its invariant says of every set of targets
within the limits that it is still ahead of the search (`Awaits`) or settled: no hit,
or no cheaper than the best so far (`Settled`). Pruning by cost settles a whole branch
because cost grows with the set (`CostGrows`). The greedy plan hits what it counts
(`GreedyHits`). `FoundIsThere` says of the shadow's binary search
only what holds on a list out of order: what is found is there.
`AnalysisIsAlwaysTyped` covers both calls.

`Journal_proofs` has two invariants.

- `FreshInv`, inductive whatever fails: an open store's file knows its identity
  and its epoch is at least that. Hence `IdentityIsAlwaysFresh`: no two openings
  of one store share an identity, even with appends and replacements that fail.
- `StoreInv`: the file replays to the document, with one generation per file
  and `next = Len(file) + 1`; after a crash the file less its torn last frame
  does. Hence `DocumentIsAlwaysWellFormed`, `MemoryIsAlwaysTheDocument` and the
  refinement `JournalIsOneDocument`. Replay is a recursive function
  over frames; `ReplaysPrefix` and `ReplayAppend` reduce it to its last record by
  the same induction over a set of naturals.

The last three assume `Undisturbed`, which the run `journal` satisfies. Each part
of it is needed because of a behaviour of the code that section 4 lists: no
append or replacement fails (the next append makes the document unreadable), the
findings fit the retention limit (replay does not apply it) and the epochs fit the
boot ledger (it is not trimmed).

`Transport_proofs` proves `StreamIsTyped`, `FramesComeInOrder` and
`FailuresHaveCauses`, for any frames, header and kernel buffers. The units not yet
decoded are one stream, through the decoder, the kernel and `send_all` (`Stream`).
`StreamInv` says of it, and of the part that a drain has not reached yet:

- `Orderly`: units rise; a frame starts with its first unit and has no gap; a frame
  that was given up lacks its last unit; nothing comes that was received before, and
  no frame before the last of the stream is missing (`Accounted`). A frame without
  its end is therefore never completed by the units of the next.
- `Begun`: unless a send was given up, what the decoder holds is the start of one
  frame. This is why a failure has a cause.

Taking one unit is described once (`TakesUnit`), and a whole drain by induction over
a set of naturals (`DrainReads`). A send that expires or a close leaves a prefix of
the stream, a drain a suffix (`PrefixKeepsOrder`, `SuffixKeepsOrder`). A frame has
to be longer than its header, and the header within the ceiling
(`SizeAssumption`): otherwise the decoder would wait for ever.

`Definition_proofs` proves `CanonicalSafety`, `LookupSafety`, `TransferSafety` and
`RestartSafety`, for any records, policies and limits. Most of it is about the
functions and not about the steps:

- Sorting is known by what it leaves (`OrderIs`): a permutation, which exists
  because a finite set has an element that is before no other (`LastExists`), in
  order. So comparing neighbours decides what the property says of any two records:
  that no identity is there twice (`DuplicatesAreSeen`), and for edges that those of
  one identity have another between them (`EdgesSorted`).
- The adjacency has a closed form: the offset of a resource is the number of edges
  from resources up to it (`OffsetsAre`), and an edge placed at its source's cursor
  lands on its own number (`OutListIs`), because in canonical order the edges before
  it are those of smaller sources and the earlier ones of its own (`CountPlaced`).
  So the edges listed for a resource are a stretch of all edges (`OutEdgesAre`).
- What is in order is left as it is by the sort (`OrderIsIdentity`), so canonicalizing
  again gives the same definition with the same indices (`CanonicalStays`), by way of a
  payload (`RebuiltIs`) or of a text (`TextIs`).

The invariant `IInv` then has little to say: what was built is what the builder's
records canonicalize to; what is installed was built and has a payload; a topology
in the store is that payload (`JournalIsOfDefinition`); and what a replay would
read is in force (`ReadsWhatIsInForce`), the policy only if the document opens: a
policy out of order is in force though nothing will read it back.

Assumed are only the ASSUMEs about constants in `Runtime` (that `NoPlan` is no
plan among them), `Facade`, `Evidence`, `Topology`, `Detector`, `Planner`, `Journal`,
`Definition` (that a character has no more bytes than a label may), `Transport`
and `Session` (that no peer is of two programs, `lgctl` with `--as-worker` still
being an operator, and that scripts are of requests that
have an answer), which the runs evaluate, and the hypotheses named above.

Only model-checked: liveness (`CallsReturn`, `FramesArrive`, `RequestsAreAnswered`),
which is out of the prover's reach.

## 6. Not modelled

The payload codecs other than those of a topology and a policy, the listener and
connecting, and digests (`PROJECT.json`, "components", says why for each),
counters and text. The runtime without a store path is `Runtime` without `Stop`.
Sessions are not composed with the full `Runtime`: several findings at once, and
writes that fail, are covered by `Runtime` with callers in any order, and not
through the peers' eyes. `Facade` has no failing
writes; `Runtime` has them with one caller at a time, which by `MovesAreWhole`
is what there is.

## 7. Plan

In order of what matters most next:

1. An abstract specification of a request (asked, answered once or cut off) that
   `Session` implements, and the steps of that refinement.
2. What `Detector` assumes of a topology (`TopologyAssumption`) is what `Definition`
   builds: a theorem that connects the two modules' canonical definitions.
