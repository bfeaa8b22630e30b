----------------------------- MODULE NameCache ------------------------------
(***************************************************************************)
(* What the cache of names promises: an address goes by the name it was    *)
(* last put with, or by none.  A name may be forgotten at any time.        *)
(***************************************************************************)
CONSTANTS Addresses, Domains, NoName

VARIABLES
    told,       \* the name each address was last put with
    names       \* the name it goes by

NoNames == [a \in Addresses |-> NoName]
Fewer(S) == \A a \in S : names'[a] \in {names[a], NoName}

Learn(a, d) ==
    /\ told' = [told EXCEPT ![a] = d]
    /\ names'[a] = d
    /\ Fewer(Addresses \ {a})

Forget == UNCHANGED told /\ Fewer(Addresses)

NameCacheSpec ==
    /\ told = NoNames /\ names = NoNames
    /\ [][Forget \/ \E a \in Addresses, d \in Domains : Learn(a, d)]_<<told, names>>
=============================================================================
