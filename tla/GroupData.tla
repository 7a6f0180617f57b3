------------------------------ MODULE GroupData ------------------------------
(***************************************************************************)
(* A tagged collection of the system: system.bonds (bond_data, data.py),   *)
(* of which particle_data, angle_data and dihedral_data are copies with    *)
(* another arity, together with one proxy the script holds and one         *)
(* iteration the script runs over the collection.                          *)
(*                                                                         *)
(* The Python layer addresses a group either by index (__getitem__,        *)
(* __delitem__, the iterator) through getNthTag, or by tag (get, remove,   *)
(* the proxy).  The engine side is modelled from the documentation in      *)
(* data.py: tags of removed groups may be recycled by a later add, and the *)
(* order of groups by index may change when one is deleted (the examples   *)
(* show both the last group moved into the hole and the rest shifted down, *)
(* so both are allowed).                                                   *)
(*                                                                         *)
(* A group's contents (its type and member particles) are abstracted to a  *)
(* label from Labels.                                                      *)
(***************************************************************************)
EXTENDS Integers, Sequences, FiniteSets, Functions, TLC

CONSTANTS
    Labels,     \* contents a group may have (type and member tags)
    MaxTag,     \* the largest tag the engine hands out in the model
    None

ASSUME MaxTag \in Nat

Tags == 0..MaxTag

VARIABLES
    content,  \* content[t]: the group of tag t, for every live tag t
    order,    \* order[i+1] = getNthTag(i)
    maxTag,   \* getMaximumTag(): the largest tag handed out so far, or -1
    held,     \* the proxy the script holds: None or [tag, label, alive]
    iter,     \* the script's iterator: None or [index, seen, changed, done]
    err       \* exception raised by the last call, or None

vars == <<content, order, maxTag, held, iter, err>>

Live == DOMAIN content

\* __len__: getNGlobal()
NGlobal == Len(order)

\* Engine: the tag addBondedGroup hands out, a recycled one or a fresh one
NewTags == {t \in Tags : t \notin Live /\ t <= maxTag} \cup
           ({maxTag + 1} \cap Tags)

\* Engine: the index order after removing the group at index i (1-based):
\* the last group moves into the hole, or the later ones shift down
OrdersAfterRemove(i) ==
    { SubSeq([order EXCEPT ![i] = order[NGlobal]], 1, NGlobal - 1),
      SubSeq(order, 1, i - 1) \o SubSeq(order, i + 1, NGlobal) }

\* Engine: removeBondedGroup(tag) on a live tag; a proxy of the group no
\* longer denotes a live group and an iteration in progress sees a change
RemoveLive(t) ==
    LET i == CHOOSE k \in 1..NGlobal : order[k] = t IN
    /\ order' \in OrdersAfterRemove(i)
    /\ content' = [u \in Live \ {t} |-> content[u]]
    /\ held' = IF held # None /\ held.tag = t
               THEN [held EXCEPT !.alive = FALSE] ELSE held
    /\ iter' = IF iter # None THEN [iter EXCEPT !.changed = TRUE] ELSE iter
    /\ UNCHANGED maxTag

-----------------------------------------------------------------------------

Init ==
    /\ content = <<>>
    /\ order = <<>>
    /\ maxTag = -1
    /\ held = None
    /\ iter = None
    /\ err = None

\* bond_data.add(type, a, b): addBondedGroup returns the new group's tag
Add(l) ==
    /\ NewTags # {}
    /\ \E t \in NewTags :
           /\ content' = (t :> l) @@ content
           /\ order' = Append(order, t)
           /\ maxTag' = IF t > maxTag THEN t ELSE maxTag
    /\ iter' = IF iter # None THEN [iter EXCEPT !.changed = TRUE] ELSE iter
    /\ err' = None
    /\ UNCHANGED held

\* bond_data.remove(tag): the engine refuses a tag that is not live
Remove(t) ==
    IF t \in Live
    THEN RemoveLive(t) /\ err' = None
    ELSE err' = "EngineError" /\ UNCHANGED <<content, order, maxTag, held, iter>>

\* bond_data.__delitem__(id): bounds check, getNthTag, removeBondedGroup
DelItem(id) ==
    IF id >= NGlobal \/ id < 0
    THEN err' = "IndexError" /\ UNCHANGED <<content, order, maxTag, held, iter>>
    ELSE RemoveLive(order[id + 1]) /\ err' = None

\* bond_data.__getitem__(id): bounds check, then a proxy of getNthTag(id)
GetItem(id) ==
    /\ UNCHANGED <<content, order, maxTag, iter>>
    /\ IF id >= NGlobal \/ id < 0
       THEN err' = "IndexError" /\ UNCHANGED held
       ELSE /\ held' = [tag |-> order[id + 1], label |-> content[order[id + 1]],
                        alive |-> TRUE]
            /\ err' = None

\* Mutant: get() without the check for a negative tag
GetNoNegativeCheck(t) ==
    /\ UNCHANGED <<content, order, maxTag, iter>>
    /\ IF t > maxTag
       THEN err' = "IndexError" /\ UNCHANGED held
       ELSE /\ held' = [tag |-> t,
                        label |-> IF t \in Live THEN content[t] ELSE None,
                        alive |-> t \in Live]
            /\ err' = None

\* bond_data.get(tag): bounds check against getMaximumTag, then a proxy
Get(t) ==
    /\ UNCHANGED <<content, order, maxTag, iter>>
    /\ IF t > maxTag \/ t < 0
       THEN err' = "IndexError" /\ UNCHANGED held
       ELSE /\ held' = [tag |-> t,
                        label |-> IF t \in Live THEN content[t] ELSE None,
                        alive |-> t \in Live]
            /\ err' = None

\* bond_data_proxy.__getattr__ (a, b, type, typeid): getGroupByTag, which
\* the engine refuses for a tag that is not live
ReadProxy ==
    /\ held # None
    /\ err' = IF held.tag \in Live THEN None ELSE "EngineError"
    /\ UNCHANGED <<content, order, maxTag, held, iter>>

\* bond_data_proxy.__setattr__: a, b, type and typeid raise; any other
\* name goes to the proxy's __dict__, which the group reads never consult
\* ("tag", which would retarget the proxy, is modelled in Proxies)
SetProxyAttr(nm) ==
    /\ held # None
    /\ err' = IF nm \in {"a", "b", "type", "typeid"} THEN "AttributeError"
              ELSE None
    /\ UNCHANGED <<content, order, maxTag, held, iter>>

\* bond_data.__setitem__
SetItem ==
    /\ err' = "RuntimeError"
    /\ UNCHANGED <<content, order, maxTag, held, iter>>

\* Mutant: the iterator starts at index 1
IterStartAtOne ==
    /\ iter' = [index |-> 1, seen |-> <<>>, changed |-> FALSE, done |-> FALSE]
    /\ err' = None
    /\ UNCHANGED <<content, order, maxTag, held>>

\* bond_data.__iter__: a new bond_data_iterator at index 0 (a loop the
\* script left early is abandoned)
IterStart ==
    /\ iter' = [index |-> 0, seen |-> <<>>, changed |-> FALSE, done |-> FALSE]
    /\ err' = None
    /\ UNCHANGED <<content, order, maxTag, held>>

\* bond_data_iterator.__next__: StopIteration when the index equals len;
\* otherwise self.data[index], whose bounds check raises IndexError when
\* groups were deleted behind the iterator, and the index moves on
IterNext ==
    /\ iter # None /\ ~iter.done
    /\ \/ /\ iter.index = NGlobal
          /\ iter' = [iter EXCEPT !.done = TRUE]
          /\ err' = None
       \/ /\ iter.index > NGlobal
          /\ iter' = None
          /\ err' = "IndexError"
       \/ /\ iter.index < NGlobal
          /\ iter' = [iter EXCEPT !.index = @ + 1,
                                  !.seen = Append(@, order[iter.index + 1])]
          /\ err' = None
    /\ UNCHANGED <<content, order, maxTag, held>>

Next ==
    \/ \E l \in Labels : Add(l)
    \/ \E t \in -1..MaxTag + 1 : Remove(t) \/ Get(t)
    \/ \E id \in -1..MaxTag + 1 : DelItem(id) \/ GetItem(id)
    \/ ReadProxy
    \/ \E nm \in {"a", "b", "type", "typeid", "note"} : SetProxyAttr(nm)
    \/ SetItem
    \/ IterStart
    \/ IterNext

Spec == Init /\ [][Next]_vars

-----------------------------------------------------------------------------
(***************************************************************************)
(* Properties                                                              *)
(***************************************************************************)

HeldRecs == [tag : Tags, label : Labels \cup {None}, alive : BOOLEAN]

\* Every variable holds a value of its intended kind.
TypeOK ==
    /\ Live \subseteq Tags /\ Range(content) \subseteq Labels
    /\ order \in Seq(Tags)
    /\ maxTag \in -1..MaxTag
    /\ held \in HeldRecs \cup {None}
    /\ iter = None \/ (iter.index \in Nat /\ iter.seen \in Seq(Tags))

\* An iteration over system.bonds that ran to StopIteration while nothing
\* was added or removed has yielded every group exactly once.
IterationVisitsEach ==
    iter # None /\ iter.done /\ ~iter.changed =>
        /\ Len(iter.seen) = NGlobal
        /\ Range(iter.seen) = Live

=============================================================================
