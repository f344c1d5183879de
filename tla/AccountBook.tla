---------------------------- MODULE AccountBook ----------------------------
(***************************************************************************)
(* What the store promises to its callers, without tables: a profile is    *)
(* one value, and an account is one value that contains its second factors *)
(* and its recovery codes.  It appears whole, an edit of its metadata      *)
(* leaves what it contains alone, and it disappears whole, alone or with   *)
(* its profile.  An id that is gone never comes back.                      *)
(***************************************************************************)
EXTENDS Integers

CONSTANTS Profile, Account, Factor, Code,
          Name, Selection, Service, Kind, Note, Counter, Position, Time,
          None

VARIABLES profiles,  \* what a reader of a profile is given, or None
          accounts,  \* what a reader of an account is given, or None
          born       \* ids that were ever in the book

bvars == <<profiles, accounts, born>>

Marks == {[used |-> FALSE, at |-> None]} \cup {[used |-> TRUE, at |-> t] : t \in Time}

ProfileValue == [name : Name, version : Selection, dir : Profile]
FactorValue == [kind : Kind, note : Note, counter : Counter \cup {None}]
CodeValue == [position : Position, mark : Marks]

\* The pieces an account contains, keyed by id.
Pieces(S, Value) == UNION {[ids -> Value] : ids \in SUBSET S}

AccountValue ==
    [profile : Profile, service : Service, password : BOOLEAN,
     factors : Pieces(Factor, FactorValue), codes : Pieces(Code, CodeValue)]

\* Two codes of an account never share a position.
InOrder(codes) ==
    \A c, d \in DOMAIN codes : c # d => codes[c].position # codes[d].position

Listed(a) == accounts[a] # None

\* Account `a` has a new value, and no other account changes.
Becomes(a) ==
    /\ accounts'[a] # None
    /\ accounts' = [accounts EXCEPT ![a] = accounts'[a]]
    /\ accounts'[a] \in AccountValue
    /\ InOrder(accounts'[a].codes)

Init ==
    /\ profiles = [p \in Profile |-> None]
    /\ accounts = [a \in Account |-> None]
    /\ born = {}

Birth(id) ==
    /\ id \notin born
    /\ born' = born \cup {id}

NewProfile(p) ==
    /\ Birth(p)
    /\ profiles'[p] \in ProfileValue
    /\ profiles' = [profiles EXCEPT ![p] = profiles'[p]]
    /\ UNCHANGED accounts

EditProfile(p) ==
    /\ UNCHANGED born
    /\ profiles[p] # None
    /\ profiles'[p] \in ProfileValue
    /\ profiles'[p].dir = profiles[p].dir
    /\ profiles' = [profiles EXCEPT ![p] = profiles'[p]]
    /\ UNCHANGED accounts

DropProfile(p) ==
    /\ UNCHANGED born
    /\ profiles' = [profiles EXCEPT ![p] = None]
    /\ accounts' = [a \in Account |->
                      IF Listed(a) /\ accounts[a].profile = p THEN None ELSE accounts[a]]

\* An account appears with every piece it was given.
NewAccount(a) ==
    LET new == accounts'[a]
        ids == DOMAIN new.factors \cup DOMAIN new.codes
    IN /\ a \notin born
       /\ UNCHANGED profiles
       /\ Becomes(a)
       /\ profiles[new.profile] # None
       /\ ids \cap born = {}
       /\ born' = born \cup {a} \cup ids

\* Its service and whether it has a password may change, and nothing else.
EditAccount(a) ==
    LET new == accounts'[a]
    IN /\ Listed(a)
       /\ UNCHANGED <<born, profiles>>
       /\ Becomes(a)
       /\ new.profile = accounts[a].profile
       /\ new.factors = accounts[a].factors
       /\ new.codes = accounts[a].codes

DropAccount(a) ==
    /\ UNCHANGED <<born, profiles>>
    /\ accounts' = [accounts EXCEPT ![a] = None]

\* The pieces of `old` and `new` differ at most in `id`.
SameElsewhere(old, new, id) ==
    /\ DOMAIN new \ {id} = DOMAIN old \ {id}
    /\ \A x \in DOMAIN old \ {id} : new[x] = old[x]

\* One factor changes: a new one appears, one disappears, its note is
\* edited, or the counter of an HOTP factor is set.
ChangeFactor(a, f) ==
    LET new == accounts'[a]
        fs == accounts[a].factors
    IN /\ Listed(a)
       /\ UNCHANGED profiles
       /\ Becomes(a)
       /\ new = [accounts[a] EXCEPT !.factors = new.factors]
       /\ SameElsewhere(fs, new.factors, f)
       /\ \/ f \in DOMAIN new.factors /\ Birth(f)
          \/ f \in DOMAIN fs \ DOMAIN new.factors /\ UNCHANGED born
          \/ /\ f \in DOMAIN fs \cap DOMAIN new.factors
             /\ UNCHANGED born
             /\ \/ new.factors[f] = [fs[f] EXCEPT !.note = new.factors[f].note]
                \/ /\ fs[f].kind = "hotp"
                   /\ new.factors[f] = [fs[f] EXCEPT !.counter = new.factors[f].counter]

\* One recovery code changes: a new one appears, one disappears, or an
\* unused one is marked, once.
ChangeCode(a, c) ==
    LET new == accounts'[a]
        cs == accounts[a].codes
    IN /\ Listed(a)
       /\ UNCHANGED profiles
       /\ Becomes(a)
       /\ new = [accounts[a] EXCEPT !.codes = new.codes]
       /\ SameElsewhere(cs, new.codes, c)
       /\ \/ c \in DOMAIN new.codes /\ Birth(c)
          \/ c \in DOMAIN cs \ DOMAIN new.codes /\ UNCHANGED born
          \/ /\ c \in DOMAIN cs \cap DOMAIN new.codes
             /\ UNCHANGED born
             /\ ~ cs[c].mark.used
             /\ new.codes[c] = [cs[c] EXCEPT !.mark = new.codes[c].mark]

Next ==
    \/ \E p \in Profile : NewProfile(p) \/ EditProfile(p) \/ DropProfile(p)
    \/ \E a \in Account :
          \/ NewAccount(a) \/ EditAccount(a) \/ DropAccount(a)
          \/ \E f \in Factor : ChangeFactor(a, f)
          \/ \E c \in Code : ChangeCode(a, c)

Spec == Init /\ [][Next]_bvars
=============================================================================
