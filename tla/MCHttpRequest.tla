--------------------------- MODULE MCHttpRequest ---------------------------
(* Instances of HttpRequest. *)
EXTENDS HttpRequest

All ==
    [main |-> 1, sub |-> 1, room |-> 1, kinds |-> Kinds, files |-> TRUE, upstreams |-> TRUE]

Long ==
    [main |-> 2, sub |-> 1, room |-> 2, kinds |-> {"plain", "memory"},
     files |-> FALSE, upstreams |-> FALSE]

MCSettings == {All, Long}

=============================================================================
