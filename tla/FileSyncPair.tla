---------------------------- MODULE FileSyncPair ----------------------------
(***************************************************************************)
(* Why two devices end up with the same note: an inductive invariant that  *)
(* relates what each of them holds to every version still under way to it. *)
(*                                                                         *)
(* Between two devices a version of the note comes down to five values: c  *)
(* its content, t the time of its last change, own and other the edits of  *)
(* the device that has it and of the other one that it counts, and for     *)
(* what a device holds also q: whether it has a change not counted yet.    *)
(* The first part says how a flight F of versions, what its sender x has   *)
(* and what its receiver y has relate, whatever program makes them; the    *)
(* second part reads those values off the devices of FileSync.             *)
(***************************************************************************)
EXTENDS FileSync

IsSide(x) ==
    /\ x.t \in Nat /\ x.own \in Nat /\ x.other \in Nat /\ x.q \in BOOLEAN
    /\ x.q => x.c # {}
    /\ x.t = 0 => x.c = {} /\ x.own = 0 /\ x.other = 0
IsSaid(z) == z.t \in Nat /\ z.t > 0 /\ z.own \in Nat /\ z.other \in Nat

\* What happens to the receiver y of the version z: it takes it when z counts edits y does
\* not know of and either knows of all of y's or beats it: a tie goes to the lower device.
Beats(s, t, low) == s > t \/ (s = t /\ low)
News(z, y) == z.own > y.other
Takes(y, z, low) == News(z, y) /\ (z.other = y.own \/ Beats(z.t, y.t, low))
Outcome(y, z, low) == IF Takes(y, z, low) THEN z.c ELSE y.c

-----------------------------------------------------------------------------
(* A version z under way from x to y; low says that x is the lower device. *)

\* It is not ahead of its sender and not behind what its receiver heard before.
SaidBefore(z, x, y) == z.own <= x.own /\ z.other <= x.other /\ y.other <= z.own
\* With the counts of its sender, or of its receiver, it is the same version.
IsMeant(z, x) == ~x.q /\ z.own = x.own /\ z.other = x.other => z.c = x.c /\ z.t = x.t
IsKnown(z, y) == ~y.q /\ z.own = y.other /\ z.other = y.own => z.c = y.c

\* It is older than the version (c, t) said later, or is that version, or was said before
\* the sender took a version of y's that beats it.
Precedes(z, c, t, x, y, low) ==
    /\ z.t <= t
    /\ z.t = t /\ z.c # c => z.other < x.other /\ ~Beats(t, y.t, low)
Rises(z, x, y, low) == News(z, y) => Precedes(z, x.c, x.t, x, y, low)

\* When x knows all that y did and z tells all that x did, z leaves y with x's content.
Decides(z, x, y, low) ==
    /\ y.other < x.own /\ x.other = y.own /\ ~x.q /\ ~y.q /\ z.own = x.own
    => Outcome(y, z, low) = x.c
\* A version that tells all that x did is what x has, unless x took one of y's since.
IsLatest(z, x, y) ==
    y.other < x.own /\ ~x.q /\ z.own = x.own
    => (z.c = x.c /\ z.t = x.t) \/ x.t < y.t \/ (x.t = y.t /\ x.c = y.c)
Fits(z, x, y, low) ==
    /\ SaidBefore(z, x, y) /\ IsMeant(z, x) /\ IsKnown(z, y)
    /\ Rises(z, x, y, low) /\ Decides(z, x, y, low) /\ IsLatest(z, x, y)

\* Of two versions under way, w is heard before z.
Ordered(w, z) == w.own <= z.own /\ w.other <= z.other
RisesTo(w, z, x, y, low) == News(w, y) => Precedes(w, z.c, z.t, x, y, low)
Agrees(w, z, y, low) ==
    ~y.q /\ w.own = z.own /\ News(w, y) /\ z.other = y.own => Outcome(y, w, low) = z.c
Follows(w, z, x, y, low) == Ordered(w, z) /\ RisesTo(w, z, x, y, low) /\ Agrees(w, z, y, low)

-----------------------------------------------------------------------------
(* The flight F from x to y, the flight G back, and both devices.          *)

\* What y does not know of is on its way to it.
NewsTravels(F, x, y) == y.other < x.own => \E i \in 1 .. Len(F) : F[i].own = x.own

Halfway(F, x, y, low) ==
    /\ Len(F) \in Nat /\ \A i \in 1 .. Len(F) : IsSaid(F[i])
    /\ y.other <= x.own
    /\ NewsTravels(F, x, y)
    /\ \A i \in 1 .. Len(F) : Fits(F[i], x, y, low)
    /\ \A i, j \in 1 .. Len(F) : i <= j => Follows(F[i], F[j], x, y, low)

\* Two devices that know of each other's edits have the same content.
Even(x, y) == x.own = y.other /\ x.other = y.own /\ ~x.q /\ ~y.q => x.c = y.c

Pair(F, G, x, y, low) ==
    /\ low \in BOOLEAN /\ IsSide(x) /\ IsSide(y) /\ Even(x, y)
    /\ Halfway(F, x, y, low) /\ Halfway(G, y, x, ~low)

-----------------------------------------------------------------------------
(* Why no edit is lost between the two: the time of a version tells when   *)
(* it was made, and an edit leaves a device only if the device keeps a     *)
(* copy.                                                                   *)

\* The version u, for which w was given up, does not win against what y has.
Yields(w, u, y) == w.other < u.other /\ u.t <= y.t /\ (u.other < y.own \/ y.q => u.t < y.t)

\* A version said before the last change of its sender is older than that change, and one
\* said since is what the sender has, or the sender took one of y's for it.
IsOlder(z, x, y) == News(z, y) /\ (z.own < x.own \/ x.q) => z.t < x.t
IsStill(z, x, y) ==
    News(z, y) /\ z.own = x.own /\ ~x.q => (z.c = x.c /\ z.t = x.t) \/ Yields(z, x, y)
Drops(w, z, y) == News(w, y) /\ w.own = z.own /\ w.t < z.t => Yields(w, z, y)

Timed(F, x, y) ==
    /\ \A i \in 1 .. Len(F) : IsOlder(F[i], x, y) /\ IsStill(F[i], x, y)
    /\ \A i, j \in 1 .. Len(F) : i <= j => Drops(F[i], F[j], y)

\* One of the first n versions makes y keep a copy of what it has.
Conflicts(w, y, low) == News(w, y) /\ w.other < y.own /\ Beats(w.t, y.t, low)
Warned(F, n, y, low) == \E j \in 1 .. n : Conflicts(F[j], y, low)

\* The edit e, once said, stays with the sender; a version that knows all that y did has
\* the edits y has, or y keeps a copy before it hears that version.
Spared(e, F, x, y, low) ==
    /\ \A i \in 1 .. Len(F) : e \in F[i].c => e \in x.c
    /\ \A i, j \in 1 .. Len(F) : i <= j /\ e \in F[i].c => e \in F[j].c
    /\ \A i \in 1 .. Len(F) :
         ~y.q /\ F[i].other = y.own /\ News(F[i], y) /\ e \in y.c
         => e \in F[i].c \/ Warned(F, i - 1, y, low)
    /\ ~y.q /\ x.other = y.own /\ e \in y.c => e \in x.c \/ Warned(F, Len(F), y, low)

-----------------------------------------------------------------------------
(* The devices of FileSync.  A device that decided to write a version has  *)
(* it already; a task in the queue of d is already under way to p.         *)

Uncounted(d) == pending[d] /\ Exists(d) /\ file[d].content \notin echo[d]
TheDecision(d) == CHOOSE w \in busy[d] : TRUE
Holding(d, p) ==
    IF busy[d] = {}
    THEN [c |-> file[d].content, t |-> LastChange(d), q |-> Uncounted(d),
          own |-> vv[d][d], other |-> vv[d][p]]
    ELSE [c |-> TheDecision(d).msg.content, t |-> TheDecision(d).msg.mtime, q |-> FALSE,
          own |-> TheDecision(d).merged[d], other |-> TheDecision(d).merged[p]]

TheTask(d) == CHOOSE t \in tasks[d] : TRUE
Outgoing(d, p) ==
    IF tasks[d] = {} THEN net[<<d, p>>] ELSE Append(net[<<d, p>>], Built(d, TheTask(d)))
Item(m, d, p) == [c |-> m.content, t |-> m.mtime, own |-> m.vv[d], other |-> m.vv[p]]
Items(s, d, p) == [i \in 1 .. Len(s) |-> Item(s[i], d, p)]
Flight(d, p) == Items(Outgoing(d, p), d, p)

\* One task at a time, never obsolete, and nothing decided while it waits.
Sendable(d, t, p) ==
    /\ t.to \in {Everyone, p}
    /\ \/ /\ t.kind = "update" /\ Exists(d) /\ ~pending[d]
          /\ (t.vector = {} /\ file[d].content \notin echo[d]) \/ \E v \in t.vector : t.vector = {v}
       \/ t.kind = "delete" /\ t.vector = {} /\ ~Exists(d) /\ tomb[d] # 0
Calm(d, p) ==
    /\ waiting[d] = {} /\ net[<<d, d>>] = <<>>
    /\ \A i \in 1 .. Len(net[<<d, p>>]) : net[<<d, p>>][i].from = d
    /\ ~Exists(d) /\ tomb[d] = 0 => vv[d][d] = 0 /\ vv[d][p] = 0
    /\ tasks[d] = {} \/ (busy[d] = {} /\ \E t \in tasks[d] : tasks[d] = {t} /\ Sendable(d, t, p))
    /\ busy[d] = {} \/ \E w \in busy[d] : busy[d] = {w}

\* Nobody will miss the edit e: a copy of it is kept, or its user deleted it.
IsSaved(e) ==
    e \in kept \/ e \in dropped \/ \E d \in Device : \E w \in busy[d] : e \in w.copy

Lower(d, p) == d < p
PairInv(d, p) ==
    /\ Calm(d, p) /\ Calm(p, d)
    /\ Pair(Flight(d, p), Flight(p, d), Holding(d, p), Holding(p, d), Lower(d, p))

(* The versions two devices hold and those under way between them fit      *)
(* together, so that each message that is applied brings the devices       *)
(* nearer to one content (pickVersion, handleFileModification,             *)
(* deletionOutranks, replyWithOurVersion).                                 *)
Paired == \A d, p \in Device : d # p => PairInv(d, p)

\* The perils under which it holds.
Benign == Perils \subseteq {"ties", "saveInWrite"}

(* The versions of an edit on their way carry it as long as nobody kept a  *)
(* copy of it, and what a device decided to write has the edits of its     *)
(* note or leaves them in a copy (resolveConflict, applyFileDelete).       *)
KeepsEdit(e, d, p) ==
    /\ Spared(e, Flight(d, p), Holding(d, p), Holding(p, d), Lower(d, p))
    /\ e \in file[d].content => e \in Holding(d, p).c
Spares ==
    /\ \A d, p \in Device : d # p => Timed(Flight(d, p), Holding(d, p), Holding(p, d))
    /\ \A d, p \in Device : d # p => \A e \in Edit : IsSaved(e) \/ KeepsEdit(e, d, p)
    /\ \A d \in Device : \A w \in busy[d] : w.copy \subseteq file[d].content

\* The perils under which that holds: a save during a write is not in any copy.
Gentle == Perils \subseteq {"ties"}

\* Both invariants at once: what two devices hold and what is under way fit each other, and
\* nothing under way will overwrite an edit without a copy (handleFileModification).
PairIInv == Paired /\ Spares
=============================================================================
