------------------------------- MODULE Proxies -------------------------------
(***************************************************************************)
(* particle_data_proxy and body_data_proxy (data.py): a proxy keeps its    *)
(* tag in its __dict__ and translates attribute reads and writes into      *)
(* engine calls on that tag.                                               *)
(*                                                                         *)
(* __getattr__ is only reached when ordinary lookup fails, so a name that  *)
(* __setattr__ does not dispatch ends in the proxy's __dict__ and from     *)
(* then on hides the engine's value; this includes "tag" itself.           *)
(*                                                                         *)
(* The engine stores one abstract value per attribute (tuples of floats    *)
(* are single values from Values), the Scalar that float() or the engine  *)
(* call made of the script's input; a particle's type is a type id, named  *)
(* through TypeList; a body's particle_disp is a sequence of NP values.    *)
(* The model tracks the attribute names PNames and BNames a script uses.   *)
(***************************************************************************)
EXTENDS Integers, Sequences, FiniteSets, Functions, TLC

CONSTANTS
    Particles,  \* particle tags
    Bodies,     \* body tags
    Values,     \* attribute values the engine holds
    Inputs,     \* values a script assigns
    ToScalar,   \* ToScalar[v]: the engine's Scalar for float(v) (the build's precision)
    ToInt,      \* ToInt[v]: int(v), for image and body
    TypeList,   \* the particle type names, type id i at index i+1
    TypeArgs,   \* names a script assigns to p.type
    PNames,     \* particle attribute names a script uses
    BNames,     \* body attribute names a script uses
    FNames,     \* force attribute names a script uses
    NP,         \* particles in each body
    ShadowNs,   \* values a script assigns to b.num_particles
    DomainDecomposition, \* the run is an MPI run with domain decomposition
    V0,         \* the value every attribute of a new particle or body has
    None

\* particle_data_proxy.__getattr__ and __setattr__ dispatch
PGetNames == {"position", "velocity", "acceleration", "image", "charge", "mass",
              "diameter", "typeid", "body", "type", "orientation",
              "angular_momentum", "moment_inertia", "net_force", "net_energy",
              "net_torque"}
PSetNames == {"position", "velocity", "image", "charge", "mass", "diameter",
              "body", "type", "orientation", "angular_momentum",
              "moment_inertia"}
PRaiseNames == {"typeid", "acceleration", "net_force", "net_energy"}

\* body_data_proxy.__getattr__ and __setattr__ dispatch
BGetNames == {"COM", "velocity", "orientation", "angular_momentum",
              "num_particles", "mass", "moment_inertia", "particle_tags",
              "particle_disp", "net_force", "net_torque"}
BSetNames == {"COM", "velocity", "mass", "orientation", "angular_momentum",
              "moment_inertia", "particle_disp"}
BRaiseNames == {"net_force", "net_torque"}

\* force_data_proxy.__getattr__ dispatch; the class has no __setattr__
FGetNames == {"force", "virial", "energy", "torque"}

\* Attributes the class documentation lists, read-only or read-write
PDocNames == PGetNames \cup {"tag"}
BDocNames == {"COM", "velocity", "orientation", "angular_momentum",
              "moment_inertia", "particle_disp", "num_particles", "mass",
              "particle_tags", "net_force", "net_torque"}

\* Engine keys: a particle's type is stored as its type id
PKeys == ((PGetNames \cap PNames) \ {"type"}) \cup {"typeid"}
BKeys == (BGetNames \cap BNames) \ {"num_particles", "particle_tags"}
FKeys == FGetNames \cap FNames
TypeIds == 0..(Len(TypeList) - 1)
Disps == [1..NP -> Values]

ASSUME Particles = 0..(Cardinality(Particles) - 1)
       /\ Bodies = 0..(Cardinality(Bodies) - 1)
ASSUME ShadowNs \subseteq 1..NP /\ V0 \in Values
       /\ ToScalar \in [Inputs -> Values] /\ ToInt \in [Inputs -> Values]
       /\ DomainDecomposition \in BOOLEAN

\* Particle records: a type id and a value for every other key
PRecords == {r @@ ("typeid" :> i) : r \in [PKeys \ {"typeid"} -> Values],
                                   i \in TypeIds}
\* Body records: a displacement sequence and a value for every other key
BRecords == {r @@ ("particle_disp" :> d) :
                 r \in [BKeys \ {"particle_disp"} -> Values], d \in Disps}

VARIABLES
    peng,   \* peng[t][k]: the engine's attribute k of particle t
    beng,   \* beng[b][k]: the engine's attribute k of body b
    pdict,  \* the particle proxy's __dict__ (always holds "tag")
    bdict,  \* the body proxy's __dict__ (always holds "tag")
    pmade,  \* the tag the particle proxy was created with
    bmade,  \* the tag the body proxy was created with
    feng,   \* feng[t][k]: the force compute's value k for particle t
    fdict,  \* the force proxy's __dict__ (always holds "tag")
    fmade,  \* the tag the force proxy was created with
    piter,  \* index of the loop over system.particles, or None
    biter,  \* index of the loop over system.bodies, or None
    fiter,  \* index of the loop over force.forces, or None
    err     \* exception raised by the last call, or None

vars == <<peng, beng, pdict, bdict, pmade, bmade, feng, fdict, fmade, piter,
          biter, fiter, err>>

\* Engine getTypeByName: the first type id of that name, None if none
TypeIdOf(n) ==
    IF \E i \in TypeIds : TypeList[i + 1] = n
    THEN CHOOSE i \in TypeIds :
             TypeList[i + 1] = n /\ \A j \in 0..(i - 1) : TypeList[j + 1] # n
    ELSE None

\* What __getattr__ returns for particle t
PEngineView(t, nm) ==
    IF nm = "type" THEN TypeList[peng[t]["typeid"] + 1] ELSE peng[t][nm]

\* What p.<nm> returns: __dict__ first, else __getattr__ on the stored tag
PView(nm) ==
    IF nm \in DOMAIN pdict THEN pdict[nm] ELSE PEngineView(pdict["tag"], nm)

\* What __getattr__ returns for body b when self.num_particles is k: the
\* particle_disp loop reads range(k)
BEngineViewN(b, nm, k) ==
    CASE nm = "num_particles" -> NP
      [] nm = "particle_disp" -> SubSeq(beng[b][nm], 1, k)
      [] OTHER                -> beng[b][nm]

BEngineView(b, nm) == BEngineViewN(b, nm, NP)

\* What b.<nm> returns: __dict__ first, else __getattr__ on the stored tag,
\* whose particle_disp loop itself reads self.num_particles
BView(nm) ==
    LET k == IF "num_particles" \in DOMAIN bdict THEN bdict["num_particles"]
             ELSE NP
    IN IF nm \in DOMAIN bdict THEN bdict[nm]
       ELSE BEngineViewN(bdict["tag"], nm, k)

\* What f.<nm> returns: __dict__ first, else the force compute
FView(nm) == IF nm \in DOMAIN fdict THEN fdict[nm] ELSE feng[fdict["tag"]][nm]

\* Values a script may assign to a particle attribute
PInputs(nm) ==
    CASE nm = "type" -> TypeArgs
      [] nm = "tag"  -> Particles
      [] OTHER       -> Inputs

BInputs(nm) ==
    CASE nm = "particle_disp" -> UNION {[1..k -> Inputs] : k \in 1..NP + 1}
      [] nm = "num_particles" -> ShadowNs
      [] nm = "tag"           -> Bodies
      [] OTHER                -> Inputs

FInputs(nm) == IF nm = "tag" THEN Particles ELSE Inputs

\* What the engine stores for p.<nm> = v: image and body go through int()
\* (int3, unsigned int), every other setter through float() or the
\* engine call into a Scalar
PStored(nm, v) == IF nm \in {"image", "body"} THEN ToInt[v] ELSE ToScalar[v]

-----------------------------------------------------------------------------

Init ==
    /\ peng = [t \in Particles |-> [k \in PKeys |->
                                       IF k = "typeid" THEN 0 ELSE V0]]
    /\ beng = [b \in Bodies |-> [k \in BKeys |->
                                   IF k = "particle_disp" THEN [i \in 1..NP |-> V0]
                                   ELSE V0]]
    /\ \E t \in Particles : pdict = ("tag" :> t) /\ pmade = t
    /\ \E b \in Bodies : bdict = ("tag" :> b) /\ bmade = b
    /\ feng = [t \in Particles |-> [k \in FKeys |-> V0]]
    /\ \E t \in Particles : fdict = ("tag" :> t) /\ fmade = t
    /\ piter = None /\ biter = None /\ fiter = None
    /\ err = None

\* system.particles.get(t): particle_data_proxy.__init__ stores the tag
NewParticleProxy(t) ==
    /\ pdict' = ("tag" :> t) /\ pmade' = t /\ err' = None
    /\ UNCHANGED <<peng, beng, bdict, bmade, feng, fdict, fmade>>

\* A call that raises before creating a proxy
Refuse(e) ==
    err' = e /\ UNCHANGED <<peng, beng, pdict, bdict, pmade, bmade, feng, fdict, fmade>>

\* particle_data.__len__: getNGlobal()
NParticles == Cardinality(Particles)

\* particle_data.get(tag): IndexError above getMaximumTag() or below 0
ParticleGet(t) ==
    IF t > NParticles - 1 \/ t < 0 THEN Refuse("IndexError")
    ELSE NewParticleProxy(t)

\* particle_data.__getitem__(id): IndexError unless 0 <= id < len, then a
\* proxy of getNthTag(id), which is tag id in a system without removals
ParticleGetItem(id) ==
    IF id >= NParticles \/ id < 0 THEN Refuse("IndexError")
    ELSE NewParticleProxy(id)

\* body_data.__len__: getNumBodies()
NBodies == Cardinality(Bodies)

\* force_data.__len__: the particle data's getNGlobal()
FLen == NParticles

\* particle_data.__setitem__, body_data.__setitem__, force_data.__setitem__:
\* assignment of a whole particle, body or force entry is not implemented
PSetItem == Refuse("RuntimeError")
BSetItem == Refuse("RuntimeError")
FSetItem == Refuse("RuntimeError")

\* body_data.updateRV: setRV(True), the engine sets the positions and
\* velocities of the bodies' member particles from the bodies
UpdateRV ==
    /\ \E t \in Particles, k \in PKeys \cap {"position", "velocity"}, v \in Values :
           peng' = [peng EXCEPT ![t][k] = v]
    /\ err' = None
    /\ UNCHANGED <<beng, pdict, bdict, pmade, bmade, feng, fdict, fmade>>

\* system.bodies[b]: body_data.__getitem__, body_data_proxy.__init__
\* (RuntimeError in a domain-decomposed MPI run)
NewBodyProxy(b) ==
    /\ IF DomainDecomposition
       THEN err' = "RuntimeError" /\ UNCHANGED <<bdict, bmade>>
       ELSE bdict' = ("tag" :> b) /\ bmade' = b /\ err' = None
    /\ UNCHANGED <<peng, beng, pdict, pmade, feng, fdict, fmade>>

PSetAttr(nm, v) ==
    LET t == pdict["tag"] IN
    /\ CASE nm = "type" ->
              IF TypeIdOf(v) = None
              THEN err' = "RuntimeError" /\ UNCHANGED <<peng, pdict>>
              ELSE /\ peng' = [peng EXCEPT ![t]["typeid"] = TypeIdOf(v)]
                   /\ err' = None /\ UNCHANGED pdict
         [] nm \in PSetNames ->
              /\ peng' = [peng EXCEPT ![t][nm] = PStored(nm, v)]
              /\ err' = None /\ UNCHANGED pdict
         [] nm \in PRaiseNames ->
              err' = "AttributeError" /\ UNCHANGED <<peng, pdict>>
         [] OTHER ->
              /\ pdict' = (nm :> v) @@ pdict
              /\ err' = None /\ UNCHANGED peng
    /\ UNCHANGED <<beng, bdict, pmade, bmade, feng, fdict, fmade>>

\* Mutant: particle_disp loops over the value given, not over the body
BSetAttrLoopOverValue(nm, v) ==
    LET b == bdict["tag"] IN
    /\ CASE nm = "particle_disp" ->
              /\ beng' = [beng EXCEPT ![b]["particle_disp"] =
                            [i \in 1..Len(v) |-> ToScalar[v[i]]] @@ @]
              /\ err' = None /\ UNCHANGED bdict
         [] nm \in BSetNames ->
              /\ beng' = [beng EXCEPT ![b][nm] = ToScalar[v]]
              /\ err' = None /\ UNCHANGED bdict
         [] nm \in BRaiseNames ->
              err' = "AttributeError" /\ UNCHANGED <<beng, bdict>>
         [] OTHER ->
              /\ bdict' = (nm :> v) @@ bdict
              /\ err' = None /\ UNCHANGED beng
    /\ UNCHANGED <<peng, pdict, pmade, bmade, feng, fdict, fmade>>

\* b.<nm> = v: body_data_proxy.__setattr__.  particle_disp is written one
\* particle at a time for i in range(self.num_particles), so a value with
\* fewer entries raises IndexError after the first ones are written
BSetAttr(nm, v) ==
    LET b == bdict["tag"]
        n == BView("num_particles")
        w == IF n < Len(v) THEN n ELSE Len(v)
    IN
    /\ CASE nm = "particle_disp" ->
              /\ beng' = [beng EXCEPT ![b]["particle_disp"] =
                            [i \in 1..NP |-> IF i <= w THEN ToScalar[v[i]] ELSE @[i]]]
              /\ err' = IF Len(v) < n THEN "IndexError" ELSE None
              /\ UNCHANGED bdict
         [] nm \in BSetNames ->
              /\ beng' = [beng EXCEPT ![b][nm] = ToScalar[v]]
              /\ err' = None /\ UNCHANGED bdict
         [] nm \in BRaiseNames ->
              err' = "AttributeError" /\ UNCHANGED <<beng, bdict>>
         [] OTHER ->
              /\ bdict' = (nm :> v) @@ bdict
              /\ err' = None /\ UNCHANGED beng
    /\ UNCHANGED <<peng, pdict, pmade, bmade, feng, fdict, fmade>>

\* force.forces[tag]: force_data.__getitem__ checks the tag against the
\* number of particles, then force_data_proxy.__init__ stores it
NewForceProxy(t) ==
    /\ IF t >= FLen \/ t < 0
       THEN err' = "IndexError" /\ UNCHANGED <<fdict, fmade>>
       ELSE fdict' = ("tag" :> t) /\ fmade' = t /\ err' = None
    /\ UNCHANGED <<peng, beng, pdict, bdict, pmade, bmade, feng>>

\* body_data.__getitem__(tag): IndexError unless 0 <= tag < getNumBodies()
BodyGetItem(b) ==
    IF b >= NBodies \/ b < 0 THEN Refuse("IndexError")
    ELSE NewBodyProxy(b)

\* f.<nm> = v: no __setattr__, so the value is stored in __dict__
FSetAttr(nm, v) ==
    /\ fdict' = (nm :> v) @@ fdict
    /\ err' = None
    /\ UNCHANGED <<peng, beng, pdict, bdict, pmade, bmade, feng, fmade>>

\* run(): the engine integrates; positions, velocities and computed
\* quantities of particles and bodies change.  One value changes per step;
\* a run that changes several is a sequence of such steps.
EngineStep ==
    /\ \/ \E t \in Particles, k \in PKeys \ {"typeid"}, v \in Values :
             peng' = [peng EXCEPT ![t][k] = v] /\ UNCHANGED <<beng, feng>>
       \/ \E b \in Bodies, k \in BKeys \ {"particle_disp"}, v \in Values :
             beng' = [beng EXCEPT ![b][k] = v] /\ UNCHANGED <<peng, feng>>
       \/ \E t \in Particles, k \in FKeys, v \in Values :
             feng' = [feng EXCEPT ![t][k] = v] /\ UNCHANGED <<peng, beng>>
    /\ err' = None
    /\ UNCHANGED <<pdict, bdict, pmade, bmade, fdict, fmade>>

\* The loops over system.particles, system.bodies and force.forces share no
\* state, so the model follows one loop at a time: starting a loop ends the
\* one in progress, as a break out of it would.  (The proxies a nested loop
\* creates are the proxies Step creates.)

\* particle_data.__iter__: a particle_data_iterator at index 0
PIterStart ==
    /\ piter' = 0 /\ biter' = None /\ fiter' = None /\ err' = None
    /\ UNCHANGED <<peng, beng, pdict, bdict, pmade, bmade, feng, fdict, fmade>>

\* particle_data_iterator.__next__: StopIteration when the index equals
\* len(self.data), else self.data[index] (the loop variable becomes that
\* proxy) and the index moves on
PIterNext ==
    /\ piter # None
    /\ IF piter = NParticles
       THEN piter' = None /\ err' = None
            /\ UNCHANGED <<peng, beng, pdict, bdict, pmade, bmade, feng, fdict, fmade>>
       ELSE ParticleGetItem(piter) /\ piter' = piter + 1
    /\ UNCHANGED <<biter, fiter>>

\* force_data.__iter__: a force_data_iterator at index 0
FIterStart ==
    /\ fiter' = 0 /\ piter' = None /\ biter' = None /\ err' = None
    /\ UNCHANGED <<peng, beng, pdict, bdict, pmade, bmade, feng, fdict, fmade>>

\* force_data_iterator.__next__: StopIteration at len(self.data), else
\* self.data[index], a force proxy, and the index moves on
FIterNext ==
    /\ fiter # None
    /\ IF fiter = FLen
       THEN fiter' = None /\ err' = None
            /\ UNCHANGED <<peng, beng, pdict, bdict, pmade, bmade, feng, fdict, fmade>>
       ELSE NewForceProxy(fiter) /\ fiter' = fiter + 1
    /\ UNCHANGED <<piter, biter>>

\* body_data.__iter__: a body_data_iterator at index 0
BIterStart ==
    /\ biter' = 0 /\ piter' = None /\ fiter' = None /\ err' = None
    /\ UNCHANGED <<peng, beng, pdict, bdict, pmade, bmade, feng, fdict, fmade>>

\* body_data_iterator.__next__: StopIteration at len(self.data), else
\* self.data[index], a body proxy, and the index moves on
BIterNext ==
    /\ biter # None
    /\ IF biter = NBodies
       THEN biter' = None /\ err' = None
            /\ UNCHANGED <<peng, beng, pdict, bdict, pmade, bmade, feng, fdict, fmade>>
       ELSE BodyGetItem(biter) /\ biter' = biter + 1
    /\ UNCHANGED <<piter, fiter>>

\* Calls that leave the loops where they are
Step ==
    \/ \E t \in -1..NParticles : ParticleGet(t) \/ ParticleGetItem(t)
    \/ \E b \in -1..NBodies : BodyGetItem(b)
    \/ PSetItem \/ BSetItem \/ FSetItem
    \/ UpdateRV
    \/ \E nm \in BNames : \E v \in BInputs(nm) : BSetAttr(nm, v)
    \/ \E t \in -1..NParticles : NewForceProxy(t)
    \/ \E nm \in FNames : \E v \in FInputs(nm) : FSetAttr(nm, v)
    \/ EngineStep

Next ==
    \/ Step /\ UNCHANGED <<piter, biter, fiter>>
    \/ PIterStart \/ PIterNext \/ BIterStart \/ BIterNext
    \/ FIterStart \/ FIterNext
    \/ /\ \E nm \in PNames : \E v \in PInputs(nm) : PSetAttr(nm, v)
       /\ UNCHANGED <<piter, biter, fiter>>

Spec == Init /\ [][Next]_vars

-----------------------------------------------------------------------------
(***************************************************************************)
(* Properties                                                              *)
(***************************************************************************)

\* Every variable holds a value of its intended kind; in particular a
\* body's particle_disp keeps one entry per particle of the body.
TypeOK ==
    /\ peng \in [Particles -> PRecords]
    /\ beng \in [Bodies -> BRecords]
    /\ feng \in [Particles -> [FKeys -> Values]]
    /\ pdict["tag"] \in Particles /\ bdict["tag"] \in Bodies
    /\ fdict["tag"] \in Particles
    /\ piter \in (0..NParticles) \cup {None} /\ fiter \in (0..NParticles) \cup {None}
    /\ biter \in (0..NBodies) \cup {None}
    /\ err \in {None, "RuntimeError", "AttributeError", "IndexError"}

ProxiesReadEngine ==
    /\ \A nm \in (PNames \cap PDocNames) \ {"tag"} :
           PView(nm) = PEngineView(pmade, nm)
    /\ \A nm \in BNames \cap BDocNames :
           BView(nm) = BEngineView(bmade, nm)
    /\ \A nm \in FKeys : FView(nm) = feng[fmade][nm]

=============================================================================
