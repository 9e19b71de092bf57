----------------------------- MODULE MCReception -----------------------------
(* An instance of Reception for TLC. *)
EXTENDS Reception, TLC

CONSTANTS c1, c2, d1, d2, other

Rows == <<d1, d2>>

Req(array, messages, stops, closes) ==
    [array |-> array, messages |-> messages, stops |-> stops, closes |-> closes]

\* Two requests that are whole; and one after or before another that is not.
Both == {c1 :> Req(TRUE, <<d2>>, 4, TRUE) @@ c2 :> Req(TRUE, <<d1, d2>>, 4, TRUE)}

Broken ==
    {Req(TRUE, <<d1, d2>>, n, close) : n \in 0 .. 3, close \in BOOLEAN}
    \cup {Req(FALSE, <<d1>>, n, close) : n \in {1, 4}, close \in BOOLEAN}
    \cup {Req(TRUE, <<>>, 4, FALSE)}

Scripts == Both \cup {c1 :> Req(TRUE, <<other>>, 4, FALSE) @@ c2 :> r : r \in Broken}
=============================================================================
