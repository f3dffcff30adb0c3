---------------------------- MODULE Idempotency ----------------------------
(***************************************************************************)
(* What an Idempotency-Key promises to the clients that send one, without  *)
(* handlers, transactions, locks or times: the first call holds the key    *)
(* and charges once; whoever else asks for the same under the same key is  *)
(* told what the first was told and charges nothing.  A key can be         *)
(* forgotten, with the link from its charge, and then be held again.       *)
(***************************************************************************)
CONSTANTS
    Calls,
    Slots,      \* a user's key for an endpoint
    Payloads,
    Responses,  \* records; the field id is the call that has charged
    None        \* nobody

VARIABLES
    asked,   \* what each call that has come asks for, under which key
    holder,  \* the call that holds each key
    charge,  \* whether a call has charged, and is still linked to its key
    told     \* the response of each call that was shown a charge

vars == <<asked, holder, charge, told>>

Init ==
    /\ asked = [c \in {} |-> None]
    /\ holder = [k \in Slots |-> None]
    /\ charge = [c \in Calls |-> "none"]
    /\ told = [c \in {} |-> None]

With(f, c, v) == [d \in DOMAIN f \cup {c} |-> IF d = c THEN v ELSE f[d]]

ask(c) ==
    /\ c \notin DOMAIN asked
    /\ \E k \in Slots, p \in Payloads :
        asked' = With(asked, c, [slot |-> k, payload |-> p])
    /\ UNCHANGED <<holder, charge, told>>

\* A call that has neither charged nor been shown a charge takes a free key.
reserve(c) ==
    /\ c \in DOMAIN asked \ DOMAIN told
    /\ charge[c] = "none"
    /\ holder[asked[c].slot] = None
    /\ holder' = [holder EXCEPT ![asked[c].slot] = c]
    /\ UNCHANGED <<asked, charge, told>>

Holds(c) == c \in DOMAIN asked /\ holder[asked[c].slot] = c

\* Only who holds the key charges, and once.
charge_once(c) ==
    /\ Holds(c)
    /\ charge[c] = "none"
    /\ charge' = [charge EXCEPT ![c] = "linked"]
    /\ UNCHANGED <<asked, holder, told>>

respond(c) ==
    /\ Holds(c)
    /\ charge[c] = "linked"
    /\ c \notin DOMAIN told
    /\ \E r \in Responses : r.id = c /\ told' = With(told, c, r)
    /\ UNCHANGED <<asked, holder, charge>>

\* A retry of what has been answered, with the same payload.
replay(c, first) ==
    /\ c \in DOMAIN asked \ DOMAIN told
    /\ charge[c] = "none"
    /\ Holds(first)
    /\ first \in DOMAIN told
    /\ asked[c] = asked[first]
    /\ told' = With(told, c, told[first])
    /\ UNCHANGED <<asked, holder, charge>>

\* The keys K are removed, and with them the links to them.
forget(K) ==
    /\ holder' = [k \in Slots |-> IF k \in K THEN None ELSE holder[k]]
    /\ charge' = [c \in Calls |-> IF charge[c] = "linked" /\ asked[c].slot \in K
                                  THEN "unlinked" ELSE charge[c]]
    /\ UNCHANGED <<asked, told>>

Next ==
    \/ \E K \in SUBSET {k \in Slots : holder[k] # None} : forget(K)
    \/ \E c \in Calls :
        \/ ask(c) \/ reserve(c) \/ charge_once(c) \/ respond(c)
        \/ \E first \in Calls : replay(c, first)

Spec == Init /\ [][Next]_vars

\* Whoever is shown a charge had asked for just that, under the same key, and
\* is shown what the call that charged was shown: for ever, also when the key
\* is forgotten or held by another.
SameAnswer ==
    \A c \in DOMAIN told :
        LET first == told[c].id
        IN  /\ first \in DOMAIN told /\ told[first] = told[c]
            /\ asked[first] = asked[c]
            /\ charge[first] # "none"

==============================================================================
