---------------------------- MODULE AtomicVault ----------------------------
(***************************************************************************)
(* What the vault file promises to its callers, without files, keys or     *)
(* steps: one stored pair of a master password and a payload, replaced as  *)
(* a whole by at most one request at a time.                               *)
(*                                                                         *)
(* A request that is answered "ok" has been applied.  A request that is    *)
(* answered "error", or dropped by a crash, was applied entirely or not at *)
(* all.  A request changes the password or the payload, never both.        *)
(***************************************************************************)
CONSTANTS Password,     \* master passwords
          Payload,      \* decrypted payloads
          EmptyPayload  \* the payload of a vault just created

VARIABLES stored,   \* the pair a reader with the right password finds
          request,  \* the pair being written, or Nothing
          reply     \* what the last call returned

avars == <<stored, request, reply>>

Nothing == [kind |-> "nothing"]
Pair(p, c) == [kind |-> "pair", password |-> p, content |-> c]
Pairs == {Pair(p, c) : p \in Password, c \in Payload}

Init ==
    /\ stored = Nothing
    /\ request = Nothing
    /\ reply = "started"

\* The pairs a request may ask for: a first vault, a new payload under the
\* same password, or the same payload under a new password.
Successors(s) ==
    IF s = Nothing
    THEN {Pair(p, EmptyPayload) : p \in Password}
    ELSE {Pair(s.password, c) : c \in Payload}
           \cup {Pair(p, s.content) : p \in Password}

Ask ==
    /\ request = Nothing
    /\ request' \in Successors(stored)
    /\ reply' = "none"
    /\ UNCHANGED stored

Apply ==
    /\ request # Nothing
    /\ stored' = request
    /\ UNCHANGED <<request, reply>>

AnswerOk ==
    /\ request # Nothing
    /\ stored = request
    /\ request' = Nothing
    /\ reply' = "ok"
    /\ UNCHANGED stored

AnswerError ==
    /\ request' = Nothing
    /\ reply' = "error"
    /\ UNCHANGED stored

\* Locking and unlocking touch neither the password nor the payload.
AnswerOther ==
    /\ request = Nothing
    /\ reply' = "ok"
    /\ UNCHANGED <<stored, request>>

\* A restart forgets the request that was running.
Restart ==
    /\ request' = Nothing
    /\ reply' = "started"
    /\ UNCHANGED stored

Next == Ask \/ Apply \/ AnswerOk \/ AnswerError \/ AnswerOther \/ Restart

Spec == Init /\ [][Next]_avars
=============================================================================
