---------------------------- MODULE MCDefinition ----------------------------
(***************************************************************************)
(* Small instance of Definition: resources that share an identity, labels  *)
(* over the bound, with a quote or with a line break, edges that share an  *)
(* identity or leave from a resource in another domain, policies in and    *)
(* out of order.                                                           *)
(***************************************************************************)
EXTENDS Definition

Text(length, split, quote, break, form) ==
    [length |-> length, split |-> split, quote |-> quote, break |-> break, form |-> form]
Plain == Text(4, 0, 0, 0, FALSE)
Quoted == Text(6, 0, 2, 4, TRUE)
Broken == Text(6, 0, 0, 3, FALSE)
Long(split) == Text(200, split, 0, 0, FALSE)

Resource(id, domain, label) ==
    [id |-> id, domain |-> domain, containable |-> TRUE, cost |-> 1, label |-> label]

MCResources ==
    {Resource(1, 1, Plain), Resource(2, 1, Long(3)),
     Resource(2, 2, Quoted), Resource(3, 1, Long(1))}

MCSelectors == {[id |-> 1, label |-> Plain], [id |-> 2, label |-> Broken]}

Link(id, from, to, selectors) ==
    [id |-> id, from |-> from, to |-> to, domain |-> 1, selectors |-> selectors]

MCEdges ==
    {Link(7, 3, 1, <<1>>), Link(7, 1, 2, << >>), Link(8, 1, 3, <<1, 2>>),
     Link(5, 3, 1, << >>),
     Link(9, 1, 2, <<2, 1>>)}

MCPolicies ==
    {[kinds |-> <<1, 2>>, domains |-> <<1, 1>>], [kinds |-> <<2, 1>>, domains |-> <<1>>],
     [kinds |-> <<1, 1, 1>>, domains |-> << >>]}

=============================================================================
