------------------------------ MODULE Journal ------------------------------
(***************************************************************************)
(* What a commit node promises about the mutations of a shard, whatever    *)
(* files it keeps them in: they are a journal that only grows, by one      *)
(* mutation at the next sequence number and of an operation that is not in *)
(* it yet, and others are told only of what is in it.  A crash may take    *)
(* the whole journal away, for an operator to see to, but never a part.    *)
(***************************************************************************)
EXTENDS Naturals

VARIABLES
    journal,    \* the mutations that are, or will be loaded, in memory
    readable,   \* whether there is a journal
    told        \* the mutations that a client or a relay knows of

vars == << journal, readable, told >>

Init ==
    /\ journal = {} /\ readable = TRUE
    /\ told = {}

Append(m) ==
    /\ readable
    /\ m.seq \in Nat \ {0} /\ {n.seq : n \in journal} = 1 .. (m.seq - 1)
    /\ \A n \in journal : n.op # m.op
    /\ journal' = journal \union {m}
    /\ UNCHANGED << readable, told >>

Tell ==
    /\ readable
    /\ told \subseteq told' /\ told' \subseteq journal
    /\ UNCHANGED << journal, readable >>

Lose ==
    /\ readable' = FALSE /\ journal' = {}
    /\ UNCHANGED told

Next == (\E m \in journal' : Append(m)) \/ Tell \/ Lose

Spec == Init /\ [][Next]_vars
=============================================================================
