----------------------------- MODULE PairCutoffs -----------------------------
(***************************************************************************)
(* Particle types and the neighbour-list cutoff registry.                  *)
(*                                                                         *)
(* The particle types are the engine's list of type names, reached through *)
(* pdata_types_proxy (data.py): add() appends a name unless it is already  *)
(* defined, __setitem__ renames a type, and system_data.restore_snapshot   *)
(* replaces the whole system, type list included, with a snapshot's.       *)
(*                                                                         *)
(* Pair potentials and neighbour lists are not part of the given source;   *)
(* they are modelled from the specification: a potential subscribes at     *)
(* construction to one neighbour list (its nlist= argument, else the       *)
(* global list, created on first use); pair_coeff.set records coefficients *)
(* and optionally an r_cut per unordered pair of type NAMES; update_rcut   *)
(* recomputes a list's table, per pair of current types, as the maximum    *)
(* over its subscribers of their cutoff (their default when a pair has no  *)
(* r_cut); run() first checks every potential has coefficients for every   *)
(* pair of current types (update_coeffs), then recomputes every list.      *)
(*                                                                         *)
(* InRunTypeChanges says whether the script also changes the types from a  *)
(* callback during a run, which the documentation of restore_snapshot and  *)
(* of types.add says to do only between run() commands.                    *)
(***************************************************************************)
EXTENDS Integers, Sequences, FiniteSets, FiniteSetsExt, Functions

CONSTANTS
    Names,            \* type names a script uses
    InitTypes,        \* the type list the system is initialised with
    SnapshotTypes,    \* type lists of the snapshots a script may restore
    Pots,             \* pair potential objects the script may create
    NLists,           \* neighbour list objects
    GlobalNList,      \* globals.neighbor_list
    Cutoffs,          \* r_cut values
    Default,          \* Default[p]: the r_cut= given to potential p
    Missing,          \* no pair_coeff.set yet for the pair
    UseDefault,       \* coefficients set without an r_cut for the pair
    None,
    InRunTypeChanges  \* may callbacks change types during a run?

ASSUME /\ GlobalNList \in NLists
       /\ \A p \in Pots : Default[p] \in Cutoffs
       /\ InRunTypeChanges \in BOOLEAN

VARIABLES
    types,    \* the engine's type names, index i-1 is type id i-1
    nlOf,     \* nlOf[p]: the list potential p subscribes to, None if not created
    nlExists, \* neighbour lists constructed so far
    coeff,    \* coeff[p][{a,b}]: Missing, UseDefault or an r_cut
    rcut,     \* rcut[nl]: the table of nl, a function of pairs of names
    dirty,    \* dirty[nl]: a subscriber changed since nl's last update_rcut
    phase,    \* "idle" between runs, "running" during one
    err,      \* exception raised by the last script call, or None
    tIter     \* index of a loop over system.particles.types, or None

vars == <<types, nlOf, nlExists, coeff, rcut, dirty, phase, err, tIter>>

Pair(a, b) == {a, b}
Pairs == {Pair(a, b) : a, b \in Names}

\* len(types) and the pairs of current types
NTypes == Len(types)
TypePairs == {Pair(types[i], types[j]) : i, j \in DOMAIN types}

Created == {p \in Pots : nlOf[p] # None}
Subscribers(nl) == {p \in Created : nlOf[p] = nl}

\* A subscriber's cutoff for a pair: its own r_cut, else its default
CutFor(p, pr) ==
    IF coeff[p][pr] \in {Missing, UseDefault} THEN Default[p] ELSE coeff[p][pr]

\* The cutoff update_rcut must compute: the largest any subscriber asks for
ReconciledMax(nl, pr) == Max({CutFor(p, pr) : p \in Subscribers(nl)})

RcutTable(nl) ==
    IF Subscribers(nl) = {} THEN <<>>
    ELSE [pr \in TypePairs |-> ReconciledMax(nl, pr)]

\* update_coeffs of every created potential succeeds
CoeffsComplete ==
    \A p \in Created, pr \in TypePairs : coeff[p][pr] # Missing

\* Type changes are legal now: between runs, or from a callback when allowed
TypeChangeAllowed == phase = "idle" \/ InRunTypeChanges

-----------------------------------------------------------------------------

Init ==
    /\ types = InitTypes
    /\ nlOf = [p \in Pots |-> None]
    /\ nlExists = {}
    /\ coeff = [p \in Pots |-> [pr \in Pairs |-> Missing]]
    /\ rcut = [nl \in NLists |-> <<>>]
    /\ dirty = [nl \in NLists |-> FALSE]
    /\ phase = "idle"
    /\ err = None
    /\ tIter = None

\* pdata_types_proxy.add: return the index of an existing type of that name,
\* else addType
AddType(name) ==
    /\ TypeChangeAllowed
    /\ types' = IF name \in Range(types) THEN types ELSE Append(types, name)
    /\ err' = None
    /\ UNCHANGED <<nlOf, nlExists, coeff, rcut, dirty, phase>>

\* pdata_types_proxy.__setitem__: bounds check, then setTypeName
SetTypeName(idx, name) ==
    /\ TypeChangeAllowed
    /\ IF idx >= NTypes \/ idx < 0
       THEN /\ err' = "IndexError"
            /\ UNCHANGED types
       ELSE /\ types' = [types EXCEPT ![idx + 1] = name]
            /\ err' = None
    /\ UNCHANGED <<nlOf, nlExists, coeff, rcut, dirty, phase>>

\* pdata_types_proxy.__getitem__: bounds check, then getNameByType
GetTypeName(idx) ==
    /\ err' = IF idx >= NTypes \/ idx < 0 THEN "IndexError" ELSE None
    /\ UNCHANGED <<types, nlOf, nlExists, coeff, rcut, dirty, phase>>

\* system_data.restore_snapshot: initializeFromSnapshot replaces the types
RestoreSnapshot(ts) ==
    /\ TypeChangeAllowed
    /\ types' = ts
    /\ err' = None
    /\ UNCHANGED <<nlOf, nlExists, coeff, rcut, dirty, phase>>

\* nlist.cell(): an explicitly constructed neighbour list
CreateNList(nl) ==
    /\ phase = "idle"
    /\ nl # GlobalNList
    /\ nl \notin nlExists
    /\ nlExists' = nlExists \cup {nl}
    /\ err' = None
    /\ UNCHANGED <<types, nlOf, coeff, rcut, dirty, phase>>

\* Constructing pair potential p with nlist=nl (None: the global list,
\* created when it does not exist yet); the potential subscribes to it
CreatePair(p, nl) ==
    LET target == IF nl = None THEN GlobalNList ELSE nl IN
    /\ phase = "idle"
    /\ nlOf[p] = None
    /\ nl = None \/ nl \in nlExists
    /\ nlOf' = [nlOf EXCEPT ![p] = target]
    /\ nlExists' = nlExists \cup {target}
    /\ dirty' = [dirty EXCEPT ![target] = TRUE]
    /\ err' = None
    /\ UNCHANGED <<types, coeff, rcut, phase>>

\* pair_coeff.set(a, b, ..., r_cut=rc); rc = UseDefault when r_cut is not
\* given, which keeps an r_cut set earlier for the pair
SetCoeff(p, a, b, rc) ==
    /\ nlOf[p] # None
    /\ coeff' = [coeff EXCEPT ![p][Pair(a, b)] =
                    IF rc = UseDefault /\ @ # Missing THEN @ ELSE rc]
    /\ dirty' = [dirty EXCEPT ![nlOf[p]] = TRUE]
    /\ err' = None
    /\ UNCHANGED <<types, nlOf, nlExists, rcut, phase>>

\* nl.update_rcut(): recompute the whole table from current subscribers
UpdateRcut(nl) ==
    /\ nl \in nlExists
    /\ rcut' = [rcut EXCEPT ![nl] = RcutTable(nl)]
    /\ dirty' = [dirty EXCEPT ![nl] = FALSE]
    /\ err' = None
    /\ UNCHANGED <<types, nlOf, nlExists, coeff, phase>>

\* run(): update_coeffs of every potential (RuntimeError when one misses a
\* pair of current types), then update_rcut of every neighbour list
RunStart ==
    /\ phase = "idle"
    /\ IF CoeffsComplete
       THEN /\ rcut' = [nl \in NLists |-> IF nl \in nlExists THEN RcutTable(nl)
                                         ELSE rcut[nl]]
            /\ dirty' = [nl \in NLists |-> IF nl \in nlExists THEN FALSE
                                          ELSE dirty[nl]]
            /\ phase' = "running"
            /\ err' = None
       ELSE /\ err' = "RuntimeError"
            /\ UNCHANGED <<rcut, dirty, phase>>
    /\ UNCHANGED <<types, nlOf, nlExists, coeff>>

RunEnd ==
    /\ phase = "running"
    /\ phase' = "idle"
    /\ err' = None
    /\ UNCHANGED <<types, nlOf, nlExists, coeff, rcut, dirty>>

\* pdata_types_proxy.__iter__: a pdata_types_iterator at index 0
TIterStart ==
    /\ tIter' = 0 /\ err' = None
    /\ UNCHANGED <<types, nlOf, nlExists, coeff, rcut, dirty, phase>>

\* pdata_types_iterator.__next__: StopIteration when the index equals
\* len(types); otherwise self.data[index], whose bounds check raises
\* IndexError once the list shrank behind the loop; the index moves on
TIterNext ==
    /\ tIter # None
    /\ CASE tIter = NTypes -> tIter' = None /\ err' = None
         [] tIter > NTypes -> tIter' = None /\ err' = "IndexError"
         [] OTHER          -> tIter' = tIter + 1 /\ err' = None
    /\ UNCHANGED <<types, nlOf, nlExists, coeff, rcut, dirty, phase>>

\* Script calls that leave a loop over the types where it is
Call ==
    \/ \E n \in Names : AddType(n)
    \/ \E i \in -1..Cardinality(Names), n \in Names : SetTypeName(i, n)
    \/ \E i \in -1..Cardinality(Names) : GetTypeName(i)
    \/ \E ts \in SnapshotTypes : RestoreSnapshot(ts)
    \/ \E nl \in NLists : CreateNList(nl)
    \/ \E p \in Pots, nl \in NLists \cup {None} : CreatePair(p, nl)
    \/ \E p \in Pots, a, b \in Names, rc \in Cutoffs \cup {UseDefault} :
           SetCoeff(p, a, b, rc)
    \/ \E nl \in NLists : UpdateRcut(nl)
    \/ RunStart
    \/ RunEnd

Next ==
    \/ Call /\ UNCHANGED tIter
    \/ TIterStart
    \/ TIterNext

Spec == Init /\ [][Next]_vars

-----------------------------------------------------------------------------
(***************************************************************************)
(* Properties                                                              *)
(***************************************************************************)

\* Every variable holds a value of its intended kind.
TypeOK ==
    /\ types \in Seq(Names)
    /\ nlOf \in [Pots -> NLists \cup {None}]
    /\ nlExists \subseteq NLists
    /\ coeff \in [Pots -> [Pairs -> Cutoffs \cup {Missing, UseDefault}]]
    /\ \A nl \in NLists : DOMAIN rcut[nl] \subseteq Pairs
                          /\ Range(rcut[nl]) \subseteq Cutoffs
    /\ dirty \in [NLists -> BOOLEAN]
    /\ phase \in {"idle", "running"}
    /\ tIter \in Nat \cup {None}

\* No two particle types share a name, so a name given to pair_coeff.set or
\* to a particle's type attribute denotes one type.
TypeNamesDistinct == IsInjective(types)

=============================================================================
