----------------------------- MODULE ParticleData -----------------------------
(***************************************************************************)
(* system.particles (particle_data, data.py) with additions and removals, *)
(* and the force.forces accessor (force_data) of a force compute, which    *)
(* addresses the same particles by tag.                                    *)
(*                                                                         *)
(* The engine's ParticleData hands out and retires tags the way BondData   *)
(* does (data.py documents "del system.particles[0]" leaving the particle  *)
(* of tag 1 at index 0, and makes no promise about index order), so the    *)
(* tag allocation and the orders after a removal are GroupData's,          *)
(* instantiated over particles whose content is their type id.            *)
(***************************************************************************)
EXTENDS Integers, Sequences, FiniteSets

CONSTANTS
    TypeList,   \* the particle type names, type id i at index i+1
    TypeArgs,   \* type names a script passes to particles.add
    N0,         \* particles of the initialised system, tags 0..N0-1
    MaxTag,     \* the largest tag the engine hands out in the model
    None

ASSUME N0 \in 1..(MaxTag + 1)

TypeIds == 0..(Len(TypeList) - 1)

VARIABLES
    ptype,   \* ptype[t]: type id of the live particle of tag t
    order,   \* order[i+1] = getNthTag(i)
    maxTag,  \* getMaximumTag()
    pheld,   \* tag of the particle proxy the script holds, or None
    fheld,   \* tag of the force proxy the script holds, or None
    fiter,   \* index of a loop over force.forces, or None
    err,     \* exception raised by the last call, or None
    fcall    \* the last force.forces[tag] lookup: [tag, ok], or None

vars == <<ptype, order, maxTag, pheld, fheld, fiter, err, fcall>>

\* The engine's tag allocation and removal orders, shared with bonds
Engine == INSTANCE GroupData
    WITH content <- ptype, held <- None, iter <- None, Labels <- TypeIds

Live == DOMAIN ptype

\* particle_data.__len__ and force_data.__len__: getNGlobal()
NGlobal == Len(order)

\* Engine getTypeByName: the first type id of that name, None if none
TypeIdOf(n) ==
    IF \E i \in TypeIds : TypeList[i + 1] = n
    THEN CHOOSE i \in TypeIds :
             TypeList[i + 1] = n /\ \A j \in 0..(i - 1) : TypeList[j + 1] # n
    ELSE None

\* Engine removeParticle on a live tag; proxies keep their tags
RemoveLive(t) ==
    LET i == CHOOSE k \in 1..NGlobal : order[k] = t IN
    /\ order' \in Engine!OrdersAfterRemove(i)
    /\ ptype' = [u \in Live \ {t} |-> ptype[u]]
    /\ UNCHANGED <<maxTag, pheld, fheld, fiter>>

-----------------------------------------------------------------------------

Init ==
    /\ ptype = [t \in 0..(N0 - 1) |-> 0]
    /\ order = [i \in 1..N0 |-> i - 1]
    /\ maxTag = N0 - 1
    /\ pheld = None /\ fheld = None /\ fiter = None
    /\ err = None /\ fcall = None

\* particles.add(type): getTypeByName (which raises for an unknown name),
\* then addParticle returns the new particle's tag
Add(name) ==
    IF TypeIdOf(name) = None
    THEN err' = "RuntimeError" /\ UNCHANGED <<ptype, order, maxTag, pheld, fheld, fiter>>
    ELSE /\ Engine!NewTags # {}
         /\ \E t \in Engine!NewTags :
                /\ ptype' = [u \in Live \cup {t} |->
                                IF u = t THEN TypeIdOf(name) ELSE ptype[u]]
                /\ order' = Append(order, t)
                /\ maxTag' = IF t > maxTag THEN t ELSE maxTag
         /\ err' = None
         /\ UNCHANGED <<pheld, fheld, fiter>>

\* particles.remove(tag): removeParticle, which refuses a tag not live
Remove(t) ==
    IF t \in Live THEN RemoveLive(t) /\ err' = None
    ELSE err' = "EngineError" /\ UNCHANGED <<ptype, order, maxTag, pheld, fheld, fiter>>

\* del particles[id]: bounds check, getNthTag, removeParticle
DelItem(id) ==
    IF id >= NGlobal \/ id < 0
    THEN err' = "IndexError" /\ UNCHANGED <<ptype, order, maxTag, pheld, fheld, fiter>>
    ELSE RemoveLive(order[id + 1]) /\ err' = None

\* particles[id]: bounds check, then a proxy of getNthTag(id)
GetItem(id) ==
    /\ IF id >= NGlobal \/ id < 0
       THEN err' = "IndexError" /\ UNCHANGED pheld
       ELSE pheld' = order[id + 1] /\ err' = None
    /\ UNCHANGED <<ptype, order, maxTag, fheld, fiter>>

\* particles.get(tag): bounds check against getMaximumTag, then a proxy
Get(t) ==
    /\ IF t > maxTag \/ t < 0
       THEN err' = "IndexError" /\ UNCHANGED pheld
       ELSE pheld' = t /\ err' = None
    /\ UNCHANGED <<ptype, order, maxTag, fheld, fiter>>

\* force.forces[tag]: force_data.__getitem__ checks the tag against
\* len(self), the number of particles, then force_data_proxy stores it
ForceGetItem(t) ==
    /\ IF t >= NGlobal \/ t < 0
       THEN err' = "IndexError" /\ UNCHANGED fheld
       ELSE fheld' = t /\ err' = None
    /\ fcall' = [tag |-> t, ok |-> err' = None]
    /\ UNCHANGED <<ptype, order, maxTag, pheld>>

\* force_data.__iter__: a force_data_iterator at index 0
FIterStart ==
    /\ fiter' = 0 /\ err' = None
    /\ UNCHANGED <<ptype, order, maxTag, pheld, fheld>>

\* force_data_iterator.__next__: StopIteration when the index equals
\* len(self.data); else self.data[index], whose IndexError (particles
\* removed behind the loop) ends the loop, and the index moves on
FIterNext ==
    /\ fiter # None
    /\ IF fiter = NGlobal
       THEN /\ fiter' = None /\ err' = None /\ fcall' = None
            /\ UNCHANGED <<ptype, order, maxTag, pheld, fheld>>
       ELSE /\ ForceGetItem(fiter)
            /\ fiter' = IF fiter > NGlobal THEN None ELSE fiter + 1

Next ==
    \/ /\ \/ \E n \in TypeArgs : Add(n)
          \/ \E t \in -1..(MaxTag + 1) : Remove(t) \/ Get(t)
          \/ \E id \in -1..(MaxTag + 1) : DelItem(id) \/ GetItem(id)
          \/ FIterStart
       /\ fcall' = None
    \/ \E t \in -1..(MaxTag + 1) : ForceGetItem(t) /\ UNCHANGED fiter
    \/ FIterNext

Spec == Init /\ [][Next]_vars

-----------------------------------------------------------------------------
(***************************************************************************)
(* Properties                                                              *)
(***************************************************************************)

\* force.forces[tag] gives "the particle with tag tag" (the docstring of
\* force_data.__getitem__ and the Forces example of data.py): a lookup
\* returns a proxy exactly when tag is the tag of a live particle, after
\* any additions and removals.
ForceLookupByTag ==
    fcall # None => (fcall.ok <=> fcall.tag \in Live)

=============================================================================
