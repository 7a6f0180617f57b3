------------------------------ MODULE SystemData -----------------------------
(***************************************************************************)
(* system_data and boxdim (data.py): the system's box, read and assigned   *)
(* through the box attribute; boxdim objects the script creates and        *)
(* scales; snapshots taken with take_snapshot or built with make_snapshot; *)
(* restore_snapshot; replicate.                                            *)
(*                                                                         *)
(* A box is its three extents <<Lx, Ly, Lz>> (tilt factors are copied      *)
(* along but never changed by these operations, so they are left out).    *)
(* boxdim objects live in a heap of object ids, so that aliasing between   *)
(* the script's references and system_data.__dict__ is visible.  The       *)
(* system is reduced to its box and its numbers of particles and bonds.    *)
(*                                                                         *)
(* The engine is the collaborator: takeSnapshot copies the selected parts  *)
(* of the system, initializeFromSnapshot replaces the system by the        *)
(* snapshot's contents (no particles or bonds when the snapshot has none), *)
(* and SnapshotSystemData.replicate multiplies the box and the groups.     *)
(***************************************************************************)
EXTENDS Integers, FiniteSets, TLC

CONSTANTS
    Objs,        \* ids of boxdim objects the script may create
    MaxL,        \* largest box extent in the model
    MaxCount,    \* largest number of particles or bonds in the model
    N0, NB0,     \* particles and bonds of the initialised system
    Box0,        \* the initialised system's box
    Dim,         \* sysdef.getNDimensions()
    BoxDims,     \* dimensions arguments a script passes to boxdim
    ReplArgs,    \* arguments a script passes to replicate
    PyInt,       \* PyInt[a]: int(a) for a in ReplArgs
    Scales,      \* scale factors a script passes to boxdim.scale
    DTypes,      \* dtype arguments
    NotABox,     \* a value assigned to system.box that is not a boxdim
    None

Extents == 1..MaxL
Boxes == Extents \X Extents \X Extents

ASSUME /\ Box0 \in Boxes /\ N0 \in 1..MaxCount /\ NB0 \in 0..MaxCount
       /\ Dim \in {2, 3} /\ BoxDims \subseteq {2, 3}

VARIABLES
    ebox,    \* the engine's global box (getGlobalBox)
    n,       \* getNGlobal() of the particle data
    nb,      \* number of bonds
    heap,    \* heap[o]: [L, dims] of boxdim object o, or None if not created
    stored,  \* system_data.__dict__['box'], or None while it is not set
    snap,    \* the last snapshot the script holds, or None
    err,     \* exception raised by the last call, or None
    replicated \* the last call was replicate()

vars == <<ebox, n, nb, heap, stored, snap, err, replicated>>

Volume(b) == b[1] * b[2] * b[3]
Free == {o \in Objs : heap[o] = None}
Made == Objs \ Free

\* the engine's SnapshotSystemData: a copy of the included parts
SnapshotOf(parts) ==
    [box |-> ebox, dims |-> Dim, n |-> IF parts.particles THEN n ELSE 0,
                   nb |-> IF parts.bonds THEN nb ELSE 0]

-----------------------------------------------------------------------------

Init ==
    /\ ebox = Box0
    /\ n = N0
    /\ nb = NB0
    /\ heap = [o \in Objs |-> None]
    /\ stored = None
    /\ snap = None
    /\ err = None
    /\ replicated = FALSE

\* boxdim(Lx, Ly, Lz, dimensions=d, L=l): L overrides the extents, a 2D box
\* has Lz = 1
NewBoxDim(o, lx, ly, lz, d, l) ==
    LET L3 == IF l = None THEN <<lx, ly, lz>> ELSE <<l, l, l>>
    IN /\ o \in Free
       /\ heap' = [heap EXCEPT ![o] =
                     [L |-> IF d = 2 THEN <<L3[1], L3[2], 1>> ELSE L3,
                      dims |-> d]] /\ err' = None
       /\ UNCHANGED <<ebox, n, nb, stored, snap>>

\* boxdim.scale(sx, sy, sz): multiplies the extents in place
Scale(o, sx, sy, sz) ==
    LET L == heap[o].L
        S == <<L[1] * sx, L[2] * sy, L[3] * sz>>
    IN /\ o \in Made
       /\ S \in Boxes
       /\ heap' = [heap EXCEPT ![o].L = S] /\ err' = None
       /\ UNCHANGED <<ebox, n, nb, stored, snap>>

\* b.Lx = l, b.Ly = l or b.Lz = l: boxdim's parameters "may be accessed
\* directly"; a plain attribute assignment, with no check against the
\* box's dimensions
SetExtent(o, axis, l) ==
    /\ o \in Made
    /\ heap' = [heap EXCEPT ![o].L[axis] = l] /\ err' = None
    /\ UNCHANGED <<ebox, n, nb, stored, snap>>

\* boxdim.set_volume(volume): s = (volume / get_volume())**(1/dims), then
\* scale(s, s, s), or scale(s, s, 1.0) in 2D.  Extents being integers, the
\* script passes a volume that is get_volume() * s^dims, given here by s.
\* (boxdim(..., volume=v) is the constructor followed by this call.)
SetVolume(o, s) ==
    /\ o \in Made
    /\ IF heap[o].dims = 3 THEN Scale(o, s, s, s) ELSE Scale(o, s, s, 1)

\* system.box: ordinary attribute lookup finds __dict__['box'] once it is
\* set; only before that does __getattr__ build a new boxdim of the
\* engine's box
GetBox(o) ==
    /\ IF stored = None
       THEN /\ o \in Free
            /\ heap' = [heap EXCEPT ![o] = [L |-> ebox, dims |-> Dim]]
       ELSE UNCHANGED heap
    /\ err' = None
    /\ UNCHANGED <<ebox, n, nb, stored, snap>>

\* system.box = v: TypeError unless v is a boxdim; setGlobalBox with a copy
\* of its extents, then the object itself is stored in __dict__
SetBox(v) ==
    /\ IF v = NotABox
       THEN /\ err' = "TypeError"
            /\ UNCHANGED <<ebox, stored>>
       ELSE /\ v \in Made
            /\ ebox' = heap[v].L
            /\ stored' = v
            /\ err' = None
    /\ UNCHANGED <<n, nb, heap, snap>>

\* Mutant: the all=True shorthand is ignored
SnapshotFlagsAllIgnored(particles, bonds, rigid, integrators, all) ==
    [particles |-> particles, bonds |-> bonds]

\* take_snapshot: all=True selects every part
SnapshotFlags(particles, bonds, rigid, integrators, all) ==
    IF all THEN [particles |-> TRUE, bonds |-> TRUE]
    ELSE [particles |-> particles, bonds |-> bonds]

\* take_snapshot(particles, bonds, rigid_bodies, integrators, all, dtype):
\* the emptiness test evaluates the undefined name `angles` as soon as
\* particles and bonds are both false, which raises NameError; then the
\* dtype check, then takeSnapshot
TakeSnapshotOutcome(particles, bonds, rigid, integrators, all, dtype) ==
    LET f == SnapshotFlags(particles, bonds, rigid, integrators, all) IN
    IF ~(f.particles \/ f.bonds) THEN [err |-> "NameError", snap |-> snap]
    ELSE IF dtype \notin {"float", "double"}
         THEN [err |-> "ValueError", snap |-> snap]
    ELSE [err |-> None, snap |-> SnapshotOf(f)]

TakeSnapshot(particles, bonds, rigid, integrators, all, dtype) ==
    LET r == TakeSnapshotOutcome(particles, bonds, rigid, integrators, all, dtype)
    IN /\ snap' = r.snap
       /\ err' = r.err
       /\ UNCHANGED <<ebox, n, nb, heap, stored>>

\* make_snapshot(N, box, dtype): a snapshot of N particles, no bonds, and a
\* copy of the boxdim's extents
MakeSnapshot(cnt, o, dtype) ==
    /\ o \in Made
    /\ IF dtype \notin {"float", "double"}
       THEN err' = "ValueError" /\ UNCHANGED snap
       ELSE /\ snap' = [box |-> heap[o].L, dims |-> heap[o].dims, n |-> cnt,
                      nb |-> 0]
            /\ err' = None
    /\ UNCHANGED <<ebox, n, nb, heap, stored>>

\* snapshot.box = o (set_snapshot_box): a copy of the extents and of the
\* box's dimensions
SetSnapshotBox(o) ==
    /\ snap # None /\ o \in Made
    /\ snap' = [snap EXCEPT !.box = heap[o].L, !.dims = heap[o].dims]
    /\ err' = None
    /\ UNCHANGED <<ebox, n, nb, heap, stored>>

\* snapshot.box (get_snapshot_box): a new boxdim of the snapshot's box
GetSnapshotBox(o) ==
    /\ snap # None /\ o \in Free
    /\ heap' = [heap EXCEPT ![o] = [L |-> snap.box, dims |-> snap.dims]]
    /\ err' = None
    /\ UNCHANGED <<ebox, n, nb, stored, snap>>

\* restore_snapshot(s): initializeFromSnapshot
RestoreSnapshot ==
    /\ snap # None
    /\ ebox' = snap.box /\ n' = snap.n /\ nb' = snap.nb /\ err' = None
    /\ UNCHANGED <<heap, stored, snap>>

\* the engine's SnapshotSystemData.replicate followed by
\* initializeFromSnapshot: box extents and groups multiplied; the model
\* bounds the result
ReplicateRestore(s, nx, ny, nz) ==
    /\ s.box[1] * nx <= MaxL /\ s.box[2] * ny <= MaxL /\ s.box[3] * nz <= MaxL
    /\ s.n * nx * ny * nz <= MaxCount /\ s.nb * nx * ny * nz <= MaxCount
    /\ ebox' = <<s.box[1] * nx, s.box[2] * ny, s.box[3] * nz>>
    /\ n' = s.n * nx * ny * nz
    /\ nb' = s.nb * nx * ny * nz

\* Mutant: replicate without the check for factors <= 0
ReplicateNoPositiveCheck(ax, ay, az) ==
    LET nx == PyInt[ax]  ny == PyInt[ay]  nz == PyInt[az]
        s == SnapshotOf(SnapshotFlags(TRUE, FALSE, FALSE, FALSE, TRUE))
    IN /\ \/ /\ nx = 1 /\ ny = 1 /\ nz = 1
             /\ err' = None
             /\ UNCHANGED <<ebox, n, nb>>
          \/ /\ ~(nx = 1 /\ ny = 1 /\ nz = 1)
             /\ ReplicateRestore(s, nx, ny, nz)
             /\ err' = None
       /\ UNCHANGED <<heap, stored, snap>>

\* replicate(nx, ny, nz): int() of each factor; all 1 is a no-op, any
\* factor <= 0 a RuntimeError; else take_snapshot(all=True), replicate the
\* snapshot, restore_snapshot from it
Replicate(ax, ay, az) ==
    LET nx == PyInt[ax]  ny == PyInt[ay]  nz == PyInt[az]
        s == SnapshotOf(SnapshotFlags(TRUE, FALSE, FALSE, FALSE, TRUE))
    IN /\ \/ /\ nx = 1 /\ ny = 1 /\ nz = 1
             /\ err' = None
             /\ UNCHANGED <<ebox, n, nb>>
          \/ /\ ~(nx = 1 /\ ny = 1 /\ nz = 1)
             /\ (nx <= 0 \/ ny <= 0 \/ nz <= 0)
             /\ err' = "RuntimeError"
             /\ UNCHANGED <<ebox, n, nb>>
          \/ /\ ~(nx = 1 /\ ny = 1 /\ nz = 1)
             /\ nx > 0 /\ ny > 0 /\ nz > 0
             /\ ReplicateRestore(s, nx, ny, nz)
             /\ err' = None
       /\ UNCHANGED <<heap, stored, snap>>

Next ==
    \/ /\ \/ \E o \in Objs, d \in BoxDims :
                \* boxdim(Lx=.., Ly=.., Lz=..), or boxdim(L=l) with the
                \* default extents of 1.0 that L overrides
                \/ \E lx, ly, lz \in Extents : NewBoxDim(o, lx, ly, lz, d, None)
                \/ \E l \in Extents : NewBoxDim(o, 1, 1, 1, d, l)
          \/ \E o \in Objs, sx, sy, sz \in Scales : Scale(o, sx, sy, sz)
          \/ \E o \in Objs, sc \in Scales : SetVolume(o, sc)
          \/ \E o \in Objs, axis \in 1..3, l \in Extents : SetExtent(o, axis, l)
          \/ \E o \in Objs : GetBox(o)
          \/ \E v \in Objs \cup {NotABox} : SetBox(v)
          \/ \E p, b, a \in BOOLEAN, dt \in DTypes :
                 TakeSnapshot(p, b, FALSE, FALSE, a, dt)
          \/ \E c \in 1..MaxCount, o \in Objs, dt \in DTypes :
                 MakeSnapshot(c, o, dt)
          \/ \E o \in Objs : SetSnapshotBox(o) \/ GetSnapshotBox(o)
          \/ RestoreSnapshot
       /\ replicated' = FALSE
    \/ /\ \E x, y, z \in ReplArgs : Replicate(x, y, z)
       /\ replicated' = TRUE

Spec == Init /\ [][Next]_vars

-----------------------------------------------------------------------------
(***************************************************************************)
(* Properties                                                              *)
(***************************************************************************)

\* Every variable holds a value of its intended kind.
TypeOK ==
    /\ ebox \in Boxes
    /\ n \in 0..MaxCount /\ nb \in 0..MaxCount
    /\ \A o \in Made : heap[o].L \in Boxes /\ heap[o].dims \in {2, 3}
    /\ stored \in Made \cup {None}
    /\ snap = None \/ (snap.box \in Boxes /\ snap.n \in 0..MaxCount)

\* A successful replicate() grows the particles and the bonds in the same
\* proportion as the box volume: take_snapshot(all=True) must carry every
\* part into the snapshot that restore_snapshot then installs.
ReplicateScalesSystem ==
    [][replicated' /\ err' = None =>
         /\ n' * Volume(ebox) = n * Volume(ebox')
         /\ nb' * Volume(ebox) = nb * Volume(ebox')]_vars

\* Once the script has assigned system.box, reading system.box still gives
\* the engine's current box (system_data.__getattr__ translates the
\* attribute into getGlobalBox).
BoxAttributeIsEngineBox ==
    stored # None => heap[stored].L = ebox

\* take_snapshot() with any combination of flags either returns a snapshot,
\* returns None with a warning (nothing selected) or rejects the dtype.
TakeSnapshotNeverNameError ==
    err # "NameError"

=============================================================================
