---------------------------- MODULE ContactViews ----------------------------
(***************************************************************************)
(* The contact views of the PIM Manager: folks reports individuals to the  *)
(* FullView, which sorts them; a FilteredView maps its own indices to      *)
(* those of the FullView; a ViewResource merges the change signals of the  *)
(* FilteredView and sends them to the ViewAgent of a D-Bus client, which   *)
(* mirrors the view as a list.  All signals between these objects are      *)
(* synchronous calls, hence the operators below which turn one value of a  *)
(* view and its resource into the next.  A callback of the main loop is    *)
(* one action, or one per iteration if it has a loop over contacts: then   *)
(* loop says where it is, and nothing else happens until it is done.       *)
(*                                                                         *)
(* A contact is a name with one value.  The value stands for everything    *)
(* that sorting and filtering look at: it is its own sort criteria, and a  *)
(* filter is the set of values it matches.  Indices are 0-based as in the  *)
(* code; the element at index i of a sequence is element i + 1.            *)
(***************************************************************************)
EXTENDS Integers, Sequences, FiniteSets, SequencesExt

CONSTANTS Contacts,    \* IDs of individuals
          Values,      \* integers: content of a contact as far as it matters
          Limits,      \* maximum numbers of results a search may ask for
          MaxStart,    \* bound: individuals there are when the full view is started
          MaxChanged,  \* bound: individuals added or removed by one signal
          MaxStimuli,  \* bound: signals of folks and calls of the client
          Stimuli,     \* which kinds of calls from outside happen
          Unread       \* the agent has no valid data for a position

Unlimited == -1

ASSUME ConstantsAssumption ==
    /\ IsFiniteSet(Contacts)
    /\ Values \subseteq Int /\ Values # {} /\ Unread \notin Values
    /\ Limits \subseteq Nat \cup {Unlimited}
    /\ {MaxStart, MaxChanged, MaxStimuli} \subseteq Nat
    /\ Stimuli \subseteq {"Change", "Modify", "Search", "RefineSearch", "ReplaceSearch", "SetSortOrder"}

VARIABLES
    \* FullView
    entries,        \* m_entries: ID and precomputed sort criteria
    value,          \* current data of each FolksIndividual
    order,          \* m_compare: sort ascending or descending
    modifications,  \* m_pendingModifications
    notify,         \* for each individual: does the view listen to "notify"?
    idle,           \* m_waitForIdle is armed
    quiescent,      \* m_isQuiescent
    \* FilteredView: m_filter, m_local2parent, m_fillViewOnIdle is armed
    view,
    \* ViewResource: m_pendingChange, m_lastChange, and the client
    res,
    \* the callback that is running
    loop,
    undefined,      \* a vector was read out of bounds: anything may follow
    stimuli         \* number of signals and calls from outside so far

vars == <<entries, value, order, modifications, notify, idle, quiescent, view, res, loop, undefined, stimuli>>

Calls == {"modified", "added", "removed"}
NoChange == [call |-> "modified", start |-> 0, ids |-> <<>>]

\* A view that does not exist.  History: replaced says that a ReplaceSearch() made
\* the mapping for another filter than m_filter, which it does not change.
NoView == [open |-> FALSE, filter |-> {}, max |-> Unlimited, local2parent |-> <<>>, fill |-> FALSE,
           replaced |-> FALSE]

(***************************************************************************)
(* pending, last   m_pendingChange, and m_lastChange if that is a          *)
(*                 modification (it is never looked at otherwise)          *)
(* agent           the client's list: ID and data it has read; no longer   *)
(*                 followed once the client was misled                     *)
(* misled          history: the client was sent a change that does not     *)
(*                 describe what happened (see AgentMirrors)               *)
(***************************************************************************)
Resource(pending, last, agent, misled) ==
    [pending |-> pending, last |-> last, agent |-> agent, misled |-> misled]
NoResource == Resource(NoChange, NoChange, <<>>, FALSE)

(***************************************************************************)
(* notify[id]  "on": the signal is connected to individualModified();      *)
(*             "off": it is not; "missed": it is not, and the individual   *)
(*             has changed (history)                                       *)
(***************************************************************************)
Notify == {"off", "missed", "on"}

(***************************************************************************)
(* kind     which loop: over the removed or added individuals of           *)
(*          individualsChanged(), the pending modifications in onIdle(),   *)
(*          candidates in fillViewCb(), the view in replaceFilter(), the   *)
(*          entries in setCompare(); "none" in the main loop               *)
(* next     its index, or the number of iterations so far                  *)
(* flush    fillViewCb(): parentQuiescent() forwards the signal afterwards *)
(* filter   replaceFilter(): the new filter                                *)
(* old      setCompare(): IDs in the old order                             *)
(***************************************************************************)
Loop(kind, next) == [kind |-> kind, next |-> next, flush |-> FALSE, filter |-> {}, old |-> <<>>]
NoLoop == Loop("none", 0)
MainLoop == loop.kind = "none"

IDs(list) == [i \in DOMAIN list |-> list[i].id]
Present == {entries[i].id : i \in DOMAIN entries}

\* Python-like slices, as the agents of the tests use them: out of range is clipped.
Take(q, n) == SubSeq(q, 1, IF n < Len(q) THEN n ELSE Len(q))
Drop(q, n) == SubSeq(q, n + 1, Len(q))

(***************************************************************************)
(* ViewAgent (external): what a client does with a change.                 *)
(***************************************************************************)
Apply(agent, change) ==
    LET n == Len(change.ids)
        new == [i \in 1..n |-> [id |-> change.ids[i], data |-> Unread]]
    IN IF n = 0 THEN agent
       ELSE IF change.call = "added" THEN Take(agent, change.start) \o new \o Drop(agent, change.start)
       ELSE IF change.call = "removed" THEN Take(agent, change.start) \o Drop(agent, change.start + n)
       ELSE Take(agent, change.start) \o new \o Drop(agent, change.start + n)

(***************************************************************************)
(* ViewResource.                                                           *)
(***************************************************************************)
Covers(change, i) == change.start <= i /\ i < change.start + Len(change.ids)

flushChanges(r) ==
    IF r.pending.ids = <<>> THEN r
    ELSE Resource(NoChange,
                  IF r.pending.call = "modified" THEN r.pending ELSE NoChange,
                  IF r.misled THEN <<>> ELSE Apply(r.agent, r.pending),
                  r.misled)

\* Mutant: a contact added in the middle is appended.
ExtendAppends(p, call, start, id) ==
    IF call = "added" /\ p.start <= start /\ start <= p.start + Len(p.ids)
    THEN [p EXCEPT !.ids = Append(@, id)]
    ELSE NoChange

\* The pending change p extended by one more signal of the same kind, or
\* NoChange when the two cannot be sent as one.
Extend(p, call, start, id) ==
    LET end == p.start + Len(p.ids)
        Merged(first, ids) == [call |-> call, start |-> first, ids |-> ids]
    IN IF start + 1 = p.start THEN Merged(start, <<id>> \o p.ids)
       ELSE IF call = "modified" /\ start = end THEN Merged(p.start, Append(p.ids, id))
       ELSE IF call = "modified" /\ Covers(p, start)
            THEN Merged(p.start, [p.ids EXCEPT ![start - p.start + 1] = id])
       ELSE IF call = "added" /\ p.start <= start /\ start <= end
            THEN Merged(p.start, InsertAt(p.ids, start - p.start + 1, id))
       ELSE IF call = "removed" /\ start = p.start THEN Merged(p.start, Append(p.ids, id))
       ELSE NoChange

\* The client did not read anything since it was told that this contact is
\* modified: telling it again is redundant.
Redundant(last, call, start) == call = "modified" /\ Covers(last, start)

\* Merge with the pending change if possible, otherwise flush that first.
handleChange(r, call, start, id) ==
    LET p == r.pending
        new == [call |-> call, start |-> start, ids |-> <<id>>]
        extended == IF p.call = call THEN Extend(p, call, start, id) ELSE NoChange
        readded == p.call = "removed" /\ call = "added" /\ start = p.start /\ p.ids = <<id>>
        sent == flushChanges(r)
    IN IF p.ids = <<>> /\ Redundant(r.last, call, start)
       THEN Resource(p, r.last, r.agent, r.misled \/ r.last.ids[start - r.last.start + 1] # id)
       ELSE IF p.ids = <<>> THEN Resource(new, r.last, r.agent, r.misled)
       ELSE IF extended.ids # <<>>
            THEN Resource(extended, r.last, r.agent, r.misled \/ (call = "added" /\ start < p.start))
       ELSE IF readded
            THEN Resource([call |-> "modified", start |-> start, ids |-> <<id>>], r.last, r.agent, r.misled)
       ELSE Resource(new, sent.last, sent.agent, sent.misled)

(***************************************************************************)
(* FilteredView.  w is a view with its resource, e the entries of the full *)
(* view and val the data of contacts.                                      *)
(***************************************************************************)
Filters == SUBSET Values \ {{}}
Matches(val, filter, data) == val[data.id] \in filter
Included(v, n) == v.max = Unlimited \/ n < v.max
IsFull(v) == ~Included(v, Len(v.local2parent))
lower_bound(l2p, p) == Cardinality({i \in DOMAIN l2p : l2p[i] < p})

\* Shift all indices at or after position at by d.
Shifted(l2p, at, d) == [i \in DOMAIN l2p |-> IF i > at THEN l2p[i] + d ELSE l2p[i]]

With(w, l2p, fill, r) ==
    [view |-> [w.view EXCEPT !.local2parent = l2p, !.fill = fill], res |-> r]

InsertLocal(w, at, p, id) ==
    With(w, InsertAt(w.view.local2parent, at + 1, p), w.view.fill, handleChange(w.res, "added", at, id))
EraseLocal(w, at, id, fill) ==
    With(w, RemoveAt(w.view.local2parent, at + 1), fill, handleChange(w.res, "removed", at, id))

\* Mutant: only entries that go into the view shift the others.
AddToViewUnshifted(e, val, w, p) ==
    LET at == lower_bound(w.view.local2parent, p)
    IN IF Matches(val, w.view.filter, e[p + 1]) /\ Included(w.view, at)
       THEN InsertLocal(With(w, Shifted(w.view.local2parent, at, 1), w.view.fill, w.res), at, p, e[p + 1].id)
       ELSE w

\* FilteredView::addIndividual: the parent has a new entry at index p.
AddToView(e, val, w, p) ==
    LET at == lower_bound(w.view.local2parent, p)
        y == With(w, Shifted(w.view.local2parent, at, 1), w.view.fill, w.res)
        end == Len(w.view.local2parent)
        last == y.view.local2parent[end]
        \* make room for the new entry by removing the last one
        z == IF end > at /\ IsFull(w.view)
             THEN EraseLocal(y, end - 1, e[last + 1].id, w.view.fill)
             ELSE y
    IN IF Matches(val, w.view.filter, e[p + 1]) /\ Included(w.view, at)
       THEN InsertLocal(z, at, p, e[p + 1].id)
       ELSE y

\* FilteredView::removeIndividual: the parent's entry at index p, which had
\* this id, is gone.
RemoveFromView(w, p, id) ==
    LET l2p == w.view.local2parent
        at == lower_bound(l2p, p)
        found == at < Len(l2p) /\ l2p[at + 1] = p
        y == With(w, Shifted(l2p, at, -1), w.view.fill, w.res)
    IN IF found THEN EraseLocal(y, at, id, TRUE) ELSE y

\* FilteredView::modifyIndividual: the parent's entry at index p changed.
ModifyInView(e, val, w, p) ==
    LET l2p == w.view.local2parent
        at == lower_bound(l2p, p)
        shown == at < Len(l2p) /\ l2p[at + 1] = p
        matches == Matches(val, w.view.filter, e[p + 1])
        id == e[p + 1].id
    IN IF shown /\ matches THEN With(w, l2p, w.view.fill, handleChange(w.res, "modified", at, id))
       ELSE IF shown THEN EraseLocal(w, at, id, TRUE)
       ELSE IF matches /\ Included(w.view, at) THEN InsertLocal(w, at, p, id)
       ELSE w

\* Start of fillViewCb(): candidates are those behind the last entry.
Filling(v, flush) ==
    LET l2p == v.local2parent
    IN [Loop("filling", IF l2p = <<>> THEN 0 ELSE l2p[Len(l2p)] + 1) EXCEPT !.flush = flush]

\* FullView::m_quiescenceSignal, emitted if folks is quiescent (q), calls
\* FilteredView::parentQuiescent, which may have to fill the view first, and
\* that ViewResource::quiescent.
Forwarded(q, v, r) == IF q /\ v.open /\ ~v.fill THEN flushChanges(r) ELSE r
Following(q, v) == IF q /\ v.open /\ v.fill THEN Filling(v, TRUE) ELSE NoLoop
m_quiescenceSignal(q, v, r) == view' = v /\ res' = Forwarded(q, v, r) /\ loop' = Following(q, v)

(***************************************************************************)
(* FullView.                                                               *)
(***************************************************************************)
\* IndividualCompare::compare under the given sort order.
Less(o, a, b) == IF o = "up" THEN a < b ELSE a > b

Sorted(o, e) == \A i, j \in DOMAIN e : i < j => ~Less(o, e[j].criteria, e[i].criteria)

Entry(val, id) == [id |-> id, criteria |-> val[id]]
IndexOf(e, id) == (CHOOSE i \in DOMAIN e : e[i].id = id) - 1

\* Position of a new entry.
InsertionPoint(o, e, data) == Cardinality({i \in DOMAIN e : Less(o, e[i].criteria, data.criteria)})

\* The view (if there is one) and its resource after a signal of the full view.
Both == [view |-> view, res |-> res]
Signal(w) == LET x == IF view.open THEN w ELSE Both IN view' = x.view /\ res' = x.res

(***************************************************************************)
(* Callbacks of folks and of the main loop.                                *)
(***************************************************************************)
\* The data of an individual which does not exist is of no interest.
NoData == CHOOSE v \in Values : TRUE

\* FullView::doStart: the individuals that folks already has are sorted.  Other
\* than doAddIndividual(), this does not listen to "notify" of an individual.
Init ==
    /\ quiescent \in BOOLEAN
    /\ value \in [Contacts -> Values]
    /\ \E n \in 0..MaxStart : \E ids \in Injection(1..n, Contacts) :
          /\ \A c \in Contacts \ ToSet(ids) : value[c] = NoData
          /\ entries = [i \in DOMAIN ids |-> Entry(value, ids[i])]
    /\ order = "up"
    /\ Sorted(order, entries)
    /\ modifications = {} /\ notify = [c \in Contacts |-> "off"] /\ idle = FALSE
    /\ view = NoView /\ res = NoResource /\ loop = NoLoop
    /\ undefined = FALSE /\ stimuli = 0

\* Something from outside happens, and is counted.
Happens(kind) ==
    /\ MainLoop
    /\ kind \in Stimuli
    /\ stimuli < MaxStimuli
    /\ stimuli' = stimuli + 1

\* folks announces individuals, in the order in which its sets are walked:
\* first the removed ones, then the added ones.  One that is in both is the
\* same contact, recreated.
individualsChanged ==
    /\ Happens("Change")
    /\ loop' = Loop("removing", 0)
    /\ UNCHANGED <<entries, value, order, modifications, notify, idle, quiescent, view, res, undefined>>

\* Mutant: waitForIdle() is missing.
RemoveWithoutIdle(id) ==
    LET index == IndexOf(entries, id)
    IN /\ loop.kind = "removing" /\ loop.next < MaxChanged
       /\ id \in Present
       /\ entries' = RemoveAt(entries, index + 1)
       /\ value' = [value EXCEPT ![id] = NoData]
       /\ modifications' = modifications \ {id}
       /\ notify' = [notify EXCEPT ![id] = "off"]
       /\ Signal(RemoveFromView(Both, index, id))
       /\ loop' = Loop("removing", loop.next + 1)
       /\ UNCHANGED <<order, idle, quiescent, undefined, stimuli>>

\* A pending modification of a removed individual will not find it anymore.
removeIndividual(id) ==
    LET index == IndexOf(entries, id)
    IN /\ loop.kind = "removing" /\ loop.next < MaxChanged
       /\ id \in Present
       /\ entries' = RemoveAt(entries, index + 1)
       /\ value' = [value EXCEPT ![id] = NoData]
       /\ modifications' = modifications \ {id}
       /\ notify' = [notify EXCEPT ![id] = "off"]
       /\ Signal(RemoveFromView(Both, index, id))
       /\ idle' = TRUE
       /\ loop' = Loop("removing", loop.next + 1)
       /\ UNCHANGED <<order, quiescent, undefined, stimuli>>

addIndividual(id, v) ==
    LET count == IF loop.kind = "adding" THEN loop.next ELSE 0
        data == [id |-> id, criteria |-> v]
        index == InsertionPoint(order, entries, data)
    IN /\ loop.kind \in {"removing", "adding"} /\ count < MaxChanged
       /\ id \in Contacts \ Present
       /\ entries' = InsertAt(entries, index + 1, data)
       /\ value' = [value EXCEPT ![id] = v]
       /\ notify' = [notify EXCEPT ![id] = "on"]
       /\ Signal(AddToView(entries', value', Both, index))
       /\ idle' = TRUE
       /\ loop' = Loop("adding", count + 1)
       /\ UNCHANGED <<order, modifications, quiescent, undefined, stimuli>>

\* The end of individualsChanged().
changesDone ==
    /\ loop.kind \in {"removing", "adding"}
    /\ loop' = NoLoop
    /\ UNCHANGED <<entries, value, order, modifications, notify, idle, quiescent, view, res, undefined, stimuli>>

\* The data of an individual changes; the check what that means is delayed.
individualModified(id, v) ==
    /\ Happens("Modify")
    /\ id \in Present
    /\ notify[id] = "on"
    /\ v # value[id]
    /\ value' = [value EXCEPT ![id] = v]
    /\ modifications' = modifications \cup {id}
    /\ idle' = TRUE
    /\ UNCHANGED <<entries, order, notify, quiescent, view, res, loop, undefined>>

\* An individual changes that doStart() has put into the view: nothing runs.
unseenModification(id, v) ==
    /\ Happens("Modify")
    /\ id \in Present
    /\ notify[id] # "on"
    /\ v # value[id]
    /\ value' = [value EXCEPT ![id] = v]
    /\ notify' = [notify EXCEPT ![id] = "missed"]
    /\ UNCHANGED <<entries, order, modifications, idle, quiescent, view, res, loop, undefined>>

\* onIdle() handles delayed modifications, in the (arbitrary) order of their
\* pointers.  An entry which is no longer between its neighbours is moved; that
\* doAddIndividual() listens once more to such an individual makes no difference.
modifyIndividual(id) ==
    LET index == IndexOf(entries, id)
        data == Entry(value, id)
        misplaced ==
            /\ data.criteria # entries[index + 1].criteria
            /\ \/ index > 0 /\ ~Less(order, entries[index].criteria, data.criteria)
               \/ index + 1 < Len(entries) /\ ~Less(order, data.criteria, entries[index + 2].criteria)
        others == RemoveAt(entries, index + 1)
        new == InsertionPoint(order, others, data)
    IN /\ idle /\ loop.kind \in {"none", "examining"}
       /\ id \in modifications
       /\ modifications' = modifications \ {id}
       /\ \/ /\ misplaced
             /\ entries' = InsertAt(others, new + 1, data)
             /\ Signal(AddToView(entries', value, RemoveFromView(Both, index, id), new))
          \/ /\ ~misplaced
             /\ entries' = [entries EXCEPT ![index + 1] = data]
             /\ Signal(ModifyInView(entries', value, Both, index))
       /\ loop' = Loop("examining", 0)
       /\ UNCHANGED <<value, order, notify, idle, quiescent, undefined, stimuli>>

\* The end of onIdle().
onIdle ==
    /\ idle /\ loop.kind \in {"none", "examining"}
    /\ modifications = {}
    /\ idle' = FALSE
    /\ m_quiescenceSignal(quiescent, view, res)
    /\ UNCHANGED <<entries, value, order, modifications, notify, quiescent, undefined, stimuli>>

\* folks only ever switches from busy to quiescent.
quiescenceChanged ==
    /\ MainLoop
    /\ ~quiescent
    /\ quiescent' = TRUE
    /\ m_quiescenceSignal(TRUE, view, res)
    /\ UNCHANGED <<entries, value, order, modifications, notify, idle, undefined, stimuli>>

\* fillViewCb() called by the main loop.
fillViewOnIdle ==
    /\ MainLoop
    /\ view.fill
    /\ loop' = Filling(view, FALSE)
    /\ UNCHANGED <<entries, value, order, modifications, notify, idle, quiescent, view, res, undefined, stimuli>>

\* fillViewCb(), or doStart() of the view, adds parent entries until the view is full.
fillView ==
    LET w == AddToView(entries, value, Both, loop.next)
    IN /\ loop.kind = "filling"
       /\ ~IsFull(view) /\ loop.next < Len(entries)
       /\ view' = w.view /\ res' = w.res
       /\ loop' = [loop EXCEPT !.next = @ + 1]
       /\ UNCHANGED <<entries, value, order, modifications, notify, idle, quiescent, undefined, stimuli>>

fillViewDone ==
    /\ loop.kind = "filling"
    /\ IsFull(view) \/ loop.next = Len(entries)
    /\ view' = [view EXCEPT !.fill = FALSE]
    /\ res' = IF loop.flush THEN flushChanges(res) ELSE res
    /\ loop' = NoLoop
    /\ UNCHANGED <<entries, value, order, modifications, notify, idle, quiescent, undefined, stimuli>>

(***************************************************************************)
(* Calls of the D-Bus client.                                              *)
(***************************************************************************)
\* Manager::doSearch and ViewResource::init.
Search(filter, max) ==
    /\ Happens("Search")
    /\ ~view.open
    /\ view' = [NoView EXCEPT !.open = TRUE, !.filter = filter, !.max = max]
    /\ res' = NoResource
    /\ loop' = [Loop("filling", 0) EXCEPT !.flush = quiescent]
    /\ UNCHANGED <<entries, value, order, modifications, notify, idle, quiescent, undefined>>

\* Called by the client, or because a call to its agent failed.
Close ==
    /\ MainLoop
    /\ view.open
    /\ view' = NoView
    /\ res' = NoResource
    /\ UNCHANGED <<entries, value, order, modifications, notify, idle, quiescent, loop, undefined, stimuli>>

\* redoSearch(true): the new filter is stricter than what the client asked for
\* before, which is not known here if that was replaced.
RefineSearch(filter) ==
    /\ Happens("RefineSearch")
    /\ view.open
    /\ view.replaced \/ filter \subseteq view.filter
    /\ loop' = [Loop("refining", 0) EXCEPT !.filter = filter]
    /\ UNCHANGED <<entries, value, order, modifications, notify, idle, quiescent, view, res, undefined>>

\* One contact of the view is checked again.
refine ==
    LET data == entries[view.local2parent[loop.next + 1] + 1]
        w == EraseLocal(Both, loop.next, data.id, TRUE)
    IN /\ loop.kind = "refining"
       /\ loop.next < Len(view.local2parent)
       /\ \/ /\ Matches(value, loop.filter, data)
             /\ loop' = [loop EXCEPT !.next = @ + 1]
             /\ UNCHANGED <<view, res>>
          \/ /\ ~Matches(value, loop.filter, data)
             /\ view' = w.view /\ res' = w.res
             /\ UNCHANGED loop
       /\ UNCHANGED <<entries, value, order, modifications, notify, idle, quiescent, undefined, stimuli>>

refineDone ==
    /\ loop.kind = "refining"
    /\ loop.next = Len(view.local2parent)
    /\ m_quiescenceSignal(quiescent, [view EXCEPT !.filter = loop.filter], res)
    /\ UNCHANGED <<entries, value, order, modifications, notify, idle, quiescent, undefined, stimuli>>

\* The element at index i of a vector; reading elsewhere is undefined.
At(q, i) == IF 0 <= i /\ i < Len(q) THEN q[i + 1] ELSE -1

\* The signals for the transition from one mapping to another.  LCS::lcs
\* counts the common elements from 1, and delta stays 0.
Morph(old, new) ==
    LET common == SelectSeq(old, LAMBDA p : p \in ToSet(new))
        Position(q, p) == CHOOSE i \in DOMAIN q : q[i] = p
        Emitted(call, index, p) == [call |-> call, index |-> index, parent |-> p]
        Step(m, p) ==
            LET a == Position(old, p)
                b == Position(new, p)
                change == b - a
                shift == m.shift - change
            IN [oldIndex |-> a + 1, newIndex |-> b + 1, shift |-> shift,
                signals |-> m.signals \o
                    IF change > 0
                    THEN [i \in 1..change |-> Emitted("added", m.oldIndex - m.shift + i - 1,
                                                     At(new, m.newIndex + i - 1))]
                    ELSE [i \in 1..(-change) |-> Emitted("removed", m.oldIndex - shift,
                                                        At(old, m.oldIndex - shift + i - 1))]]
        m == FoldLeft(Step, [oldIndex |-> 0, newIndex |-> 0, shift |-> 0, signals |-> <<>>], common)
    IN m.signals
       \o [i \in 1..Max({0, Len(old) - m.oldIndex}) |->
             Emitted("removed", m.oldIndex - m.shift, At(old, m.oldIndex + i - 1))]
       \o [i \in 1..Max({0, Len(new) - m.newIndex}) |->
             Emitted("added", m.newIndex + i - 1, At(new, m.newIndex + i - 1))]

\* The elements of a set of indices in ascending order.
Ascending(S) ==
    {q \in [1..Cardinality(S) -> S] :
        /\ \A p \in S : \E i \in DOMAIN q : q[i] = p
        /\ \A i, j \in DOMAIN q : i < j => q[i] < q[j]}

\* The view with the mapping for a filter.  Other than refining, this branch of
\* replaceFilter() leaves m_filter as it is.
Remapped(v, new, filter) == [v EXCEPT !.local2parent = new, !.replaced = (filter # v.filter)]

\* redoSearch(false): any filter, new mapping, and signals for the difference.
\* Whether these are right is left to ReplaceIsMirrored.
ReplaceSearch(filter) ==
    /\ Happens("ReplaceSearch")
    /\ view.open
    /\ \E matching \in Ascending({p \in 0..(Len(entries) - 1) : Matches(value, filter, entries[p + 1])}) :
        LET new == IF view.max = Unlimited THEN matching ELSE Take(matching, view.max)
            signals == Morph(view.local2parent, new)
            Emit(r, g) == handleChange(r, g.call, g.index, entries[g.parent + 1].id)
            v == Remapped(view, new, filter)
            r == Forwarded(quiescent, v, FoldLeft(Emit, res, signals))
        IN \/ /\ \E i \in DOMAIN signals : signals[i].parent = -1
              /\ undefined' = TRUE
              /\ UNCHANGED <<view, res, loop>>
           \/ /\ \A i \in DOMAIN signals : signals[i].parent # -1
              /\ view' = v
              /\ res' = Resource(r.pending, r.last, r.agent, TRUE)
              /\ loop' = Following(quiescent, v)
              /\ UNCHANGED undefined
    /\ UNCHANGED <<entries, value, order, modifications, notify, idle, quiescent>>

\* Mutant: m_lastChange is not cleared.
ReadKeepsLast(id) ==
    LET r == flushChanges(res)
        index == CHOOSE i \in -1..(Len(view.local2parent) - 1) :
                    IF \E p \in ToSet(view.local2parent) : entries[p + 1].id = id
                    THEN i >= 0 /\ entries[view.local2parent[i + 1] + 1].id = id
                    ELSE i = -1
    IN /\ MainLoop
       /\ view.open
       /\ res' = Resource(r.pending, r.last,
                          [i \in DOMAIN r.agent |->
                              IF i = index + 1 THEN [r.agent[i] EXCEPT !.data = value[id]] ELSE r.agent[i]],
                          r.misled)
       /\ UNCHANGED <<entries, value, order, modifications, notify, idle, quiescent, view, loop, undefined, stimuli>>

\* The client asks for a contact, which may be in its view or not.  Its answer
\* comes after all changes.
ReadContacts(id) ==
    LET r == flushChanges(res)
        Found(i) == entries[view.local2parent[i] + 1].id = id
    IN /\ MainLoop
       /\ view.open
       /\ res' = Resource(r.pending,
                          IF \E i \in DOMAIN view.local2parent : Found(i) /\ Covers(r.last, i - 1)
                          THEN NoChange ELSE r.last,
                          [i \in DOMAIN r.agent |->
                              IF i \in DOMAIN view.local2parent /\ Found(i)
                              THEN [id |-> r.agent[i].id, data |-> value[id]]
                              ELSE r.agent[i]],
                          r.misled)
       /\ UNCHANGED <<entries, value, order, modifications, notify, idle, quiescent, view, loop, undefined, stimuli>>

\* Manager::setSortOrder and FullView::setCompare.  Entries with the same
\* criteria end up in any order.
SetSortOrder(new, perm) ==
    /\ Happens("SetSortOrder")
    /\ new # order
    /\ order' = new
    /\ entries' = [i \in DOMAIN entries |-> Entry(value, entries[perm[i]].id)]
    /\ Sorted(order', entries')
    /\ loop' = IF view.open THEN [Loop("sorting", 0) EXCEPT !.old = IDs(entries)] ELSE NoLoop
    /\ UNCHANGED <<value, modifications, notify, idle, quiescent, view, res, undefined>>

\* Another contact at an index is a modification of that index.
compareOld ==
    LET w == IF entries[loop.next + 1].id # loop.old[loop.next + 1]
             THEN ModifyInView(entries, value, Both, loop.next)
             ELSE Both
    IN /\ loop.kind = "sorting"
       /\ loop.next < Len(entries)
       /\ view' = w.view /\ res' = w.res
       /\ loop' = [loop EXCEPT !.next = @ + 1]
       /\ UNCHANGED <<entries, value, order, modifications, notify, idle, quiescent, undefined, stimuli>>

\* The end of setCompare().
sortDone ==
    /\ loop.kind = "sorting"
    /\ loop.next = Len(entries)
    /\ m_quiescenceSignal(quiescent, view, res)
    /\ UNCHANGED <<entries, value, order, modifications, notify, idle, quiescent, undefined, stimuli>>

Next ==
    /\ ~undefined
    /\ \/ individualsChanged
       \/ \E id \in Contacts : removeIndividual(id)
       \/ \E id \in Contacts, v \in Values : addIndividual(id, v) \/ individualModified(id, v)
                                           \/ unseenModification(id, v)
       \/ changesDone
       \/ \E id \in Contacts : modifyIndividual(id)
       \/ onIdle
       \/ quiescenceChanged
       \/ fillViewOnIdle
       \/ fillView
       \/ fillViewDone
       \/ \E filter \in Filters, max \in Limits : Search(filter, max)
       \/ Close
       \/ \E filter \in Filters : RefineSearch(filter) \/ ReplaceSearch(filter)
       \/ refine
       \/ refineDone
       \/ \E id \in Contacts : ReadContacts(id)
       \/ \E new \in {"up", "down"}, perm \in Bijection(DOMAIN entries, DOMAIN entries) :
              SetSortOrder(new, perm)
       \/ compareOld
       \/ sortDone

Spec == Init /\ [][Next]_vars

-----------------------------------------------------------------------------
Change == [call : Calls, start : Nat, ids : Seq(Contacts)]

\* Type invariant of the state described above.  What a misled client has is not followed.
TypeOK ==
    /\ entries \in Seq([id : Contacts, criteria : Values])
    /\ value \in [Contacts -> Values]
    /\ order \in {"up", "down"}
    /\ modifications \subseteq Present
    /\ notify \in [Contacts -> Notify]
    /\ {idle, quiescent, undefined} \subseteq BOOLEAN
    /\ view \in [open : BOOLEAN, filter : SUBSET Values, max : Limits \cup {Unlimited},
                 local2parent : Seq(Nat), fill : BOOLEAN, replaced : BOOLEAN]
    /\ res.misled \/ res \in [pending : Change, last : Change, misled : BOOLEAN,
                              agent : Seq([id : Contacts, data : Values \cup {Unread}])]
    /\ loop \in [kind : {"none", "removing", "adding", "examining", "filling", "refining", "sorting"},
                 next : Nat, flush : BOOLEAN, filter : SUBSET Values, old : Seq(Contacts)]
    /\ stimuli \in Nat

\* Contacts whose current data the full view has not looked at: the modification is
\* still to be examined, or nobody listened to it.
Unexamined == modifications \cup {c \in Contacts : notify[c] = "missed"}

\* The contacts of the view, in the order of the view.
Shown == [i \in DOMAIN view.local2parent |-> entries[view.local2parent[i] + 1].id]

\* The view has the contacts that match its filter, all of them if there is no limit.
\* Only contacts may differ whose modification was not examined.
Exactly ==
    \A p \in 0..(Len(entries) - 1) :
        \/ entries[p + 1].id \in Unexamined
        \/ p \in ToSet(view.local2parent) /\ Matches(value, view.filter, entries[p + 1])
        \/ p \notin ToSet(view.local2parent)
             /\ (view.max = Unlimited => ~Matches(value, view.filter, entries[p + 1]))

\* A view without limit holds exactly the matching contacts in the order of
\* the full view, however the changes of contacts, of their order and of the
\* filter are interleaved (view.h, filtered-view.h: "rely on individuals being
\* sorted by their index number in the other view").  The content is not that of
\* the filter after a ReplaceSearch() for another one (see ViewAlwaysExact), and a
\* modification that was missed has no effect (see AgentAlwaysFresh).
ViewExact ==
    /\ Sorted(order, entries)
    /\ \A i, j \in DOMAIN view.local2parent : i < j => view.local2parent[i] < view.local2parent[j]
    /\ MainLoop /\ view.open /\ ~view.replaced => Exactly

\* What the client has once the pending change has reached it.
Mirror == Apply(res.agent, res.pending)

\* The merging of change signals loses nothing: the client's list of IDs plus
\* the pending change is the view.  Three cases are excepted (res.misled), in
\* which the code sends the client something else than what happened: a contact
\* added directly before the pending 'added' ones (see AgentAlwaysMirrors); a
\* ReplaceSearch() without refining (see ReplaceIsMirrored); and a 'modified'
\* signal after SetSortOrder() dropped as redundant although the ID is new.
\* While setCompare() runs, the client has to be told about the new order.
AgentMirrors == ~res.misled /\ loop.kind # "sorting" => IDs(Mirror) = Shown

\* No client keeps outdated data: what it has read is the current content
\* unless it is told otherwise by the pending change or will be once the
\* modification is examined.  Excepted are contacts which were there before the
\* full view and changed since (see AgentAlwaysFresh).  Suppressing 'modified' signals as redundant in
\* handleChange() is only right because readContacts() clears m_lastChange.
AgentFresh ==
    ~res.misled =>
        \A i \in DOMAIN Mirror :
            \/ Mirror[i].data \in {Unread, value[Mirror[i].id]}
            \/ Mirror[i].id \in Unexamined

\* full-view.h on addIndividual(): "Starts monitoring it for changes", and
\* pim-manager-api.txt on ContactsModified(): "Data that the recipient of the call
\* might have cached became invalid".  A client is told about every modification,
\* also if the individual was there before the full view.
AgentAlwaysFresh ==
    ~res.misled =>
        \A i \in DOMAIN Mirror :
            \/ Mirror[i].data \in {Unread, value[Mirror[i].id]}
            \/ Mirror[i].id \in modifications

\* Nothing is left behind: as long as a change is pending or the view may have
\* to be filled while folks is quiescent, onIdle() is going to take care of it.
NothingStuck ==
    MainLoop /\ view.open /\ quiescent /\ ~idle => ~view.fill /\ res.pending.ids = <<>>

\* pim-manager-api.txt on ContactsAdded(): "The contact which previously had
\* index #start now has index #start + count".  The client's list is the view,
\* whatever was merged.
AgentAlwaysMirrors == ~undefined /\ MainLoop => IDs(Mirror) = Shown

\* pim-manager-api.txt on ReplaceSearch(): contacts which did not match the old
\* filter "will be added back to the list of matching contacts".  A client that
\* is up to date before the call still is afterwards.
ReplaceIsMirrored ==
    [][ (\E filter \in Filters : ReplaceSearch(filter)) /\ IDs(Mirror) = Shown
            => ~undefined' /\ IDs(Mirror') = Shown' ]_vars

\* pim-manager-api.txt on ReplaceSearch(): "the new filter can be less restrictive".
\* The filter by which later changes are judged is the one that made the view.
ViewAlwaysExact == ~undefined /\ MainLoop /\ view.open => Exactly

\* pim-manager-api.txt on Quiescent(): "The current content of the view is
\* complete."  A view with a limit has as many contacts as match, up to the
\* limit, once nothing is pending.
LimitedViewComplete ==
    MainLoop /\ view.open /\ quiescent /\ ~idle /\ ~view.fill /\ view.max # Unlimited =>
        LET n == Cardinality({p \in 0..(Len(entries) - 1) : Matches(value, view.filter, entries[p + 1])})
        IN Len(view.local2parent) = IF n < view.max THEN n ELSE view.max

=============================================================================
