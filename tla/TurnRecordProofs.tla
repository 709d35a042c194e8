--------------------------- MODULE TurnRecordProofs ---------------------------
(***************************************************************************)
(* Safety of what a session leaves behind of its turns, for any facts,     *)
(* keys, size of the file and budgets: the file tells what happened, what  *)
(* is remembered was earned, and a checkpoint is shown at its own prompt.  *)
(***************************************************************************)
EXTENDS TurnRecord, FiniteSetTheorems, SequenceTheorems, WellFoundedInduction, TLAPS

-----------------------------------------------------------------------------
(* The inductive invariant, in parts. What is said of a line takes what it  *)
(* is compared with as parameters.                                          *)

Phases == {"starting", "up", "flushing", "committing", "down"}
Ats == {"idle", "barrier", "streaming", "sealing", "unwinding", "cataloguing"}
States == {"open", "sealed", "settled", "gone", "committing", "done"}
Hows == {"ok", "refusal", "other", None}
OfTurns == {"input", "wake", "event", "end"}
Kinds == OfTurns \cup {"header", "note", "stopped", "torn", "broken"}
Opening == {"input", "wake"}

LineSet == [kind : Kinds, of : Nat, turn : Nat, how : Hows, run : Nat, seq : Nat]
BatchSet == [lines : Seq(LineSet), closes : Nat]
RecSet == [state : {"on", "full", "failed"}, header : BOOLEAN, turns : Nat, seq : Nat, size : Nat,
           tail : BOOLEAN, guard : BOOLEAN]
TurnSet == [at : Ats, of : Nat, n : Nat, captured : BOOLEAN, how : Hows, natural : BOOLEAN]
MemSet == [state : States, turn : Nat, facts : SUBSET Fact, sealed : BOOLEAN, seq : Nat, run : Nat]
EntrySet == [fact : Fact, of : Nat, turn : Nat, seq : Nat, edited : BOOLEAN, evidence : Fact]
StoreSet == [Key -> EntrySet \cup {None}]
CommitSet == [of : Nat, store : StoreSet, suppressed : SUBSET Fact]
StraySet == [lines : Seq(LineSet), guard : BOOLEAN]
CatSet == [of : Nat, turn : Nat]
LeftSet == [opens : SUBSET (BOOLEAN \X BOOLEAN), ends : SUBSET Outcomes,
            sends : Nat, runs : Nat, exits : Nat, crash : Nat, events : Nat,
            notes : Nat, faults : Nat, saves : Nat, commands : Nat, moves : Nat]

\* The shapes of the variables.
Shape ==
    /\ file \in Seq(LineSet) /\ run \in Nat \ {0} /\ phase \in Phases
    /\ rec \in RecSet /\ pending \in Seq(LineSet) /\ chain \in Seq(BatchSet)
    /\ io \in {"idle", "writing", "stopping"} /\ detached \in BOOLEAN /\ waits \in Nat
    /\ stray \subseteq StraySet /\ turn \in TurnSet /\ mem \in Seq(MemSet)
    /\ commits \in Seq(Nat) /\ commit \in CommitSet
    /\ store \in StoreSet /\ suppressed \subseteq Fact /\ sound \subseteq Fact
    /\ forgotten \subseteq Fact /\ catalogue \subseteq CatSet /\ left \in LeftSet
    /\ retired \in BOOLEAN /\ guessed \in BOOLEAN /\ owed \subseteq Nat

\* The controller's book: the turns m that it has accepted wait in c.
Book(m, c) ==
    /\ \A i, j \in 1 .. Len(c) : c[i] = c[j] => i = j
    /\ \A i \in 1 .. Len(c) : c[i] \in 1 .. Len(m) /\ m[c[i]].state = "committing"
    /\ \A k \in 1 .. Len(m) : m[k].state = "committing" => \E i \in 1 .. Len(c) : c[i] = k
\* The entries of a state file are under their keys.
Keyed(st) == \A key \in Key : st[key] # None => KeyOf[st[key].fact] = key
Ledger ==
    /\ Book(mem, commits) /\ Keyed(store) /\ Keyed(commit.store)
    /\ commit # Idle => commits # <<>> /\ commit.of = commits[1]

\* The turns of the processes, in the order of their sends m.
Numbered(m, r, n) ==
    /\ \A k \in 1 .. Len(m) : m[k].run <= r /\ m[k].turn <= Len(m) /\ (m[k].run = r => m[k].turn <= n)
    /\ \A k, l \in 1 .. Len(m) : k < l => m[k].run <= m[l].run
    /\ \A k, l \in 1 .. Len(m) :
          k < l /\ m[k].run = r /\ m[l].run = r /\ m[k].turn # 0 /\ m[l].turn # 0 => m[k].turn < m[l].turn
    /\ n <= Len(m)
Numbers == Numbered(mem, run, rec.turns)

\* A batch of the process r: a note, an opening, an event, or an end with or
\* without an event before it.
Batch(b, r) ==
    /\ Len(b.lines) = 1 \/ Len(b.lines) = 2
    /\ \A x \in 1 .. Len(b.lines) : b.lines[x].run = r /\ b.lines[x].kind \in OfTurns \cup {"note"}
    /\ Len(b.lines) = 2 => /\ b.lines[1].kind = "event" /\ b.lines[2].kind = "end"
                           /\ b.lines[1].of = b.lines[2].of
    /\ b.closes = IF Last(b.lines).kind = "end" THEN Last(b.lines).of ELSE 0
Writing ==
    /\ \A b \in 1 .. Len(chain) : Batch(chain[b], run)
    /\ io # "idle" => chain # <<>> /\ rec.tail /\ rec.state # "full"
    /\ io = "stopping" => ~rec.header /\ ~rec.guard
    /\ ~rec.header => rec.seq # 0 /\ rec.tail
    /\ waits <= Len(chain) /\ (waits # 0 => phase = "flushing")
    /\ detached => rec.state # "on"

\* The send() that runs is the last one, of this process.
Sending ==
    /\ turn.at # "idle" => /\ turn.of = Len(mem) /\ turn.of # 0
                           /\ mem[turn.of].run = run /\ turn.n = mem[turn.of].turn
                           /\ phase \notin {"starting", "down"}
                           /\ (rec.state = "on" \/ turn.at = "barrier" => turn.n # 0)
                           /\ \A c \in catalogue : c.of < turn.of
    /\ turn.at = "cataloguing" => turn.how \in {"ok", "refusal"}
    /\ turn.at \in {"barrier", "streaming", "sealing", "unwinding"} => ~mem[turn.of].sealed
    /\ pending = <<>> \/ /\ turn.at = "streaming" /\ turn.n # 0
                         /\ pending = <<Line("event", turn.of, turn.n, None)>>
    /\ \A c \in catalogue : c.of \in 1 .. Len(mem) /\ c.turn = mem[c.of].turn

\* A process that has gone has left nothing in memory.
Down ==
    phase = "down" =>
        /\ chain = <<>> /\ io = "idle" /\ pending = <<>> /\ turn.at = "idle" /\ waits = 0 /\ ~detached
        /\ commits = <<>> /\ commit = Idle
        /\ \A k \in 1 .. Len(mem) : mem[k].state \in {"gone", "done"}

\* Of any line, in the file, in the chain or given up.
Known(l, m, r) ==
    /\ l.of # 0 => l.of \in 1 .. Len(m) /\ l.turn = m[l.of].turn /\ l.turn # 0 /\ l.run = m[l.of].run
    /\ l.kind \in OfTurns <=> l.of # 0
    /\ l.run <= r /\ l.turn <= Len(m)
EndKnown(l, t, m, cat) ==
    l.kind = "end" =>
        /\ t.at \in {"barrier", "streaming"} => l.of # t.of
        /\ t.at \in {"sealing", "cataloguing"} /\ l.of = t.of => l.how = t.how
        /\ m[l.of].sealed => l.how = "ok"
        /\ \A c \in cat : c.of = l.of => l.how \in {"ok", "refusal"}

\* The complete lines of f, by their places.
Places(f) == {i \in DOMAIN f : Whole(f[i])}
Lines ==
    /\ \A i \in Places(file) : Known(file[i], mem, run)
    /\ \A b \in 1 .. Len(chain) : \A x \in 1 .. Len(chain[b].lines) : Known(chain[b].lines[x], mem, run)
    /\ \A s \in stray : \A x \in 1 .. Len(s.lines) : Known(s.lines[x], mem, run)
Ends ==
    /\ \A i \in Places(file) : EndKnown(file[i], turn, mem, catalogue)
    /\ \A b \in 1 .. Len(chain) : \A x \in 1 .. Len(chain[b].lines) :
          EndKnown(chain[b].lines[x], turn, mem, catalogue)
    /\ \A s \in stray : \A x \in 1 .. Len(s.lines) : EndKnown(s.lines[x], turn, mem, catalogue)

\* What was given up is of one process each, and of this one only once it went.
Given(s) ==
    /\ s.lines # <<>> /\ Last(s.lines).run # 0
    /\ \A x \in 1 .. Len(s.lines) : Whole(s.lines[x]) /\ s.lines[x].run = Last(s.lines).run
Strays ==
    /\ \A s \in stray : Given(s) /\ (Last(s.lines).run = run => phase = "down" /\ owed = {})
    /\ \A s, t \in stray : Last(s.lines).run = run /\ Last(t.lines).run = run => s = t

\* The lines to come follow the lines that are there.
Later(a, b) ==
    a.of # 0 /\ b.of # 0 =>
        \/ a.of < b.of
        \/ a.of = b.of /\ (Rank[a.kind] < Rank[b.kind] \/ (a.kind = "event" /\ b.kind = "event"))
Upcoming == {b \in 1 .. Len(chain) : io = "stopping" => b # 1}
Order ==
    /\ \A i \in Places(file), b \in Upcoming : \A y \in 1 .. Len(chain[b].lines) :
          Later(file[i], chain[b].lines[y])
    /\ \A b, d \in Upcoming : b < d =>
          \A x \in 1 .. Len(chain[b].lines), y \in 1 .. Len(chain[d].lines) :
             Later(chain[b].lines[x], chain[d].lines[y])

\* A torn line swallows a header at the most.
EndsTorn(f) == f # <<>> /\ Last(f).kind = "torn"
Swallow ==
    phase # "down" /\ (rec.state = "on" \/ io # "idle") /\ EndsTorn(file) /\ ~rec.guard => rec.header

\* The opening of a turn is there before anything else of it is written.
Found(f, kinds, k) == \E i \in Places(f) : f[i].of = k /\ f[i].kind \in kinds
Live ==
    {b \in 1 .. Len(chain) : IF rec.state = "on" THEN io = "stopping" => b # 1 ELSE b = 1 /\ io = "writing"}
Opened ==
    /\ turn.at = "streaming" /\ rec.state = "on" => Found(file, Opening, turn.of)
    /\ turn.at = "barrier" /\ rec.state = "on" =>
          \/ Found(file, Opening, turn.of)
          \/ \E b \in Upcoming : \E x \in 1 .. Len(chain[b].lines) :
                chain[b].lines[x].kind \in Opening /\ chain[b].lines[x].of = turn.of
    /\ \A b \in Live : \A x \in 1 .. Len(chain[b].lines) :
          chain[b].lines[x].kind \in {"event", "end"} => Found(file, Opening, chain[b].lines[x].of)

\* The record that ends the turn n of send k, in success.
EndIn(f, k, n, q) ==
    \E i \in Places(f) : f[i].kind = "end" /\ f[i].how = "ok" /\ f[i].of = k /\ f[i].turn = n /\ f[i].seq = q
Rooted(f, st) == \A key \in Key : st[key] # None => EndIn(f, st[key].of, st[key].turn, st[key].seq)
Earned ==
    /\ \A k \in 1 .. Len(mem) :
          mem[k].state \in {"settled", "committing"} => EndIn(file, k, mem[k].turn, mem[k].seq)
    /\ io = "stopping" /\ chain[1].closes # 0 /\ Last(chain[1].lines).how = "ok" =>
          EndIn(file, chain[1].closes, mem[chain[1].closes].turn, rec.seq - 1)
    /\ Rooted(file, store) /\ Rooted(file, commit.store)

\* What the user forgot stays away, while one process at a time has the store.
Forgotten ==
    /\ commit # Idle => commit.store = store /\ commit.suppressed = suppressed
    /\ forgotten \subseteq suppressed
    /\ \A key \in Key : store[key] # None => store[key].fact \notin suppressed

\* A turn whose end is still in the chain is not settled, and there is one end of it.
Awaited ==
    /\ \A k \in 1 .. Len(mem) : mem[k].sealed => mem[k].state \notin {"open", "settled"}
    /\ turn.at \in {"barrier", "streaming"} => mem[turn.of].state \in {"open", "gone"}
    /\ \A b \in 1 .. Len(chain) : LET k == chain[b].closes IN k # 0 =>
          /\ mem[k].state \in {"open", "sealed", "gone"}
          /\ mem[k].sealed /\ (phase \in {"starting", "up"} \/ (phase = "flushing" /\ ~retired)) =>
                mem[k].state = "sealed"
          /\ \A e \in 1 .. Len(chain) : chain[e].closes = k => e = b

\* A sealed turn whose end is on disk, and reported, is committed.
Mine(k) == k \in 1 .. Len(mem) /\ mem[k].sealed /\ mem[k].run = run
Watched(k) == IF phase \in {"starting", "up"} THEN Mine(k) ELSE k \in owed
Settled(k) == Found(file, {"end"}, k) /\ ~(io = "stopping" /\ chain[1].closes = k)
Promised ==
    /\ \A k \in owed : Mine(k)
    /\ retired \/ phase \in {"starting", "up"} => owed = {}
    /\ rec.state # "failed" /\ phase # "down" =>
          \A k \in 1 .. Len(mem) : mem[k].run = run /\ Settled(k) =>
             /\ mem[k].state # "open"
             /\ Watched(k) => \/ mem[k].state \in {"committing", "done"}
                              \/ mem[k].state = "gone" /\ mem[k].facts = {}
    /\ rec.state = "on" /\ phase \in {"flushing", "committing"} =>
          \A b \in 1 .. Len(chain) : chain[b].closes \in owed => b <= waits
    /\ rec.state # "failed" /\ phase = "down" =>
          \A k \in owed : Found(file, {"end"}, k) /\ mem[k].facts # {} => mem[k].state = "done"

\* A file that tells what happened.
Traced(f, i) ==
    /\ f[i].seq # 0 => \E j \in Places(f) : j < i /\ f[j].seq = f[i].seq - 1
    /\ f[i].kind # "header" => \E j \in Places(f) : j < i /\ f[j].run = f[i].run
    /\ f[i].of # 0 => \E j \in Places(f) : j <= i /\ f[j].of = f[i].of /\ f[j].kind \in Opening
Truth(f) ==
    /\ \A i, j \in Places(f) : i < j => InOrder(f[i], f[j])
    /\ \A i \in Places(f) : Traced(f, i)

\* The numbers of this process's turns go on from those before.
Ahead(f, r, n, m) ==
    \A i \in Places(f) : f[i].run < r =>
        /\ f[i].turn <= n
        /\ \A k \in 1 .. Len(m) : m[k].run = r /\ m[k].turn # 0 => f[i].turn < m[k].turn
\* The numbers of its records, and its place in the file f, do too.
Aligned(f, c, r) ==
    /\ \A i \in Places(f) : f[i].seq < c.seq
    /\ c.seq = 0 \/ \E i \in Places(f) : f[i].seq = c.seq - 1
    /\ EndsTorn(f) => c.guard
    /\ c.header => \A i \in Places(f) : f[i].run < r
    /\ ~c.header => \E i \in Places(f) : f[i].run = r
    /\ \A i \in Places(f) : f[i].kind = "stopped" => f[i].run < r
Told ==
    guessed \/
        /\ Truth(file)
        /\ rec.tail => Ahead(file, run, rec.turns, mem)
        /\ ~rec.tail => rec.header /\ rec.seq = 0 /\ \A i \in Places(file) : file[i].run < run
        /\ phase # "down" /\ rec.tail /\ (rec.state = "on" \/ io # "idle") => Aligned(file, rec, run)
        /\ phase = "down" => \A s \in stray : Last(s.lines).run = run =>
              Truth(file \o s.lines) /\ (EndsTorn(file) => s.guard) /\ rec.tail

\* What holds of the model whether or not other processes use /memory.
IInv ==
    /\ Shape /\ Ledger /\ Numbers /\ Writing /\ Sending /\ Down /\ Lines /\ Ends /\ Strays
    /\ Order /\ Swallow /\ Opened /\ Earned /\ Awaited /\ Promised /\ Told

-----------------------------------------------------------------------------
(* Least and greatest numbers *)

LEMMA MinIs ==
    ASSUME NEW S \in SUBSET Nat, S # {}
    PROVE  Min(S) \in S /\ \A y \in S : Min(S) <= y
<1>. DEFINE Less == {ss \in Nat \X Nat : ss[1] < ss[2]}
<1>1. IsWellFoundedOn(Less, Nat)
  BY NatLessThanWellFounded, Zenon DEF OpToRel
<1>2. PICK x \in S : \A y \in S : ~ (<<y, x>> \in Less)
  <2>. HIDE DEF Less
  <2>. QED
    BY <1>1, WFMin
<1>3. ASSUME NEW y \in S PROVE x <= y
  <2>1. <<y, x>> \in Nat \X Nat /\ <<y, x>>[1] = y /\ <<y, x>>[2] = x
    OBVIOUS
  <2>2. ~ (y < x)
    BY <1>2, <2>1
  <2>. QED
    BY <2>2
<1>. QED
  BY <1>3 DEF Min

\* The greatest is as far below a bound as anything can be.
LEMMA MaxIs ==
    ASSUME NEW n \in Nat, NEW S \in SUBSET (0 .. n), S # {}
    PROVE  Max(S) \in S /\ \A y \in S : y <= Max(S)
<1>. DEFINE Gaps == {n - x : x \in S}
<1>1. Gaps \in SUBSET Nat /\ Gaps # {}
  <2>1. \A x \in S : n - x \in Nat
    OBVIOUS
  <2>. QED
    BY <2>1
<1>2. Min(Gaps) \in Gaps /\ \A g \in Gaps : Min(Gaps) <= g
  <2>. HIDE DEF Gaps
  <2>. QED
    BY <1>1, MinIs
<1>3. PICK x \in S : Min(Gaps) = n - x
  BY <1>2
<1>4. ASSUME NEW y \in S PROVE x >= y
  <2>1. n - y \in Gaps
    OBVIOUS
  <2>2. n - x <= n - y
    BY <1>2, <1>3, <2>1
  <2>. QED
    BY <2>2
<1>. QED
  BY <1>4 DEF Max

-----------------------------------------------------------------------------
(* What a write makes of the file *)

\* What a write of the lines ls, or of a part of them, makes of the file f.
Wrote(f, g, ls) ==
    /\ \A i \in Places(f) : i \in Places(g) /\ g[i] = f[i]
    /\ \A i \in Places(g) : i \in Places(f) \/ \E y \in 1 .. Len(ls) : g[i] = ls[y]

\* The file g is as much as has been written of the file h.
StartOf(h, g) ==
    /\ \A i \in Places(g) : i \in Places(h) /\ g[i] = h[i]
    /\ \A i \in Places(g), j \in Places(h) : j < i => j \in Places(g)

JoinedTo(f, ls, guard) ==
    IF ls # <<>> /\ EndsTorn(f) /\ ~guard THEN [f EXCEPT ![Len(f)].kind = "broken"] \o Tail(ls) ELSE f \o ls

\* What may be left of the lines ls when they are not all written.
PartOf(part, ls) ==
    /\ Len(part) <= Len(ls)
    /\ \A y \in 1 .. Len(part) : part[y] = ls[y] \/ (y = Len(part) /\ ~Whole(part[y]))

LEMMA LineIs ==
    ASSUME NEW l \in LineSet
    PROVE  /\ l.kind \in Kinds /\ l.of \in Nat /\ l.turn \in Nat /\ l.how \in Hows
           /\ l.run \in Nat /\ l.seq \in Nat
BY DEF LineSet

LEMMA SeqIs ==
    ASSUME NEW S, NEW s \in Seq(S)
    PROVE  /\ Len(s) \in Nat /\ DOMAIN s = 1 .. Len(s) /\ \A i \in 1 .. Len(s) : s[i] \in S
           /\ s # <<>> <=> Len(s) > 0
           /\ s # <<>> => Len(s) \in 1 .. Len(s) /\ 1 \in 1 .. Len(s)
                          /\ Last(s) = s[Len(s)] /\ Last(s) \in S /\ Head(s) = s[1]
BY DEF Last

LEMMA FunctionIs ==
    ASSUME NEW S, NEW n \in Nat, NEW p \in [1 .. n -> S]
    PROVE  p \in Seq(S) /\ Len(p) = n
OBVIOUS

\* Lines ls that follow those of the file f, in g; and a piece of a line in f
\* that swallows the first of them.
Follows(f, ls, g) ==
    /\ g \in Seq(LineSet) /\ Len(g) = Len(f) + Len(ls)
    /\ \A i \in 1 .. Len(f) : g[i] = f[i]
    /\ \A y \in 1 .. Len(ls) : g[Len(f) + y] = ls[y]
Swallows(f, ls, g) ==
    /\ g \in Seq(LineSet) /\ Len(g) = Len(f) + (Len(ls) - 1) /\ g[Len(f)].kind = "broken"
    /\ \A i \in 1 .. Len(f) : i # Len(f) => g[i] = f[i]
    /\ \A y \in 2 .. Len(ls) : g[Len(f) + (y - 1)] = ls[y]
LEMMA ConcatIs ==
    ASSUME NEW f \in Seq(LineSet), NEW ls \in Seq(LineSet), NEW g, g = f \o ls
    PROVE  Follows(f, ls, g)
<1>0. Len(f) \in Nat /\ Len(ls) \in Nat
  BY SeqIs
<1>1. g \in Seq(LineSet) /\ Len(g) = Len(f) + Len(ls)
      /\ \A i \in 1 .. Len(f) + Len(ls) : g[i] = IF i <= Len(f) THEN f[i] ELSE ls[i - Len(f)]
  BY ConcatProperties
<1>2. \A i \in 1 .. Len(f) : g[i] = f[i]
  BY <1>0, <1>1
<1>3. ASSUME NEW y \in 1 .. Len(ls) PROVE g[Len(f) + y] = ls[y]
  <2>1. Len(f) + y \in 1 .. Len(f) + Len(ls) /\ ~(Len(f) + y <= Len(f)) /\ (Len(f) + y) - Len(f) = y
    BY <1>0
  <2>. QED
    BY <1>1, <2>1
<1>. QED
  BY <1>1, <1>2, <1>3 DEF Follows
\* A piece of a line swallows the first of the lines ...
LEMMA Swallowed ==
    ASSUME NEW f \in Seq(LineSet), NEW ls \in Seq(LineSet), NEW guard \in BOOLEAN,
           NEW g, g = JoinedTo(f, ls, guard),
           ls # <<>>, EndsTorn(f), ~guard
    PROVE  Swallows(f, ls, g)
<1>0. Len(f) \in Nat /\ Len(ls) \in Nat /\ Len(ls) > 0
  BY SeqIs
<1>. PICK h : h = [f EXCEPT ![Len(f)].kind = "broken"]
  OBVIOUS
<1>. PICK t : t = Tail(ls)
  OBVIOUS
<1>1. f # <<>> /\ Len(f) \in 1 .. Len(f) /\ f[Len(f)] \in LineSet
  BY SeqIs DEF EndsTorn
<1>2. [f[Len(f)] EXCEPT !.kind = "broken"] \in LineSet
      /\ [f[Len(f)] EXCEPT !.kind = "broken"].kind = "broken"
  BY <1>1 DEF LineSet, Kinds
<1>10. h \in Seq(LineSet)
  BY <1>1, <1>2, ExceptSeq
<1>3. Len(h) = Len(f) /\ h[Len(f)].kind = "broken"
      /\ \A i \in 1 .. Len(f) : i # Len(f) => h[i] = f[i]
  BY <1>1, <1>2, ExceptSeq
<1>4. t \in Seq(LineSet)
  BY HeadTailProperties
<1>9. Len(t) = Len(ls) - 1 /\ \A y \in 1 .. Len(t) : t[y] = ls[y + 1]
  BY HeadTailProperties
<1>5. g = h \o t
  BY DEF JoinedTo
<1>6. /\ g \in Seq(LineSet) /\ Len(g) = Len(h) + Len(t)
      /\ \A i \in 1 .. Len(h) : g[i] = h[i]
      /\ \A y \in 1 .. Len(t) : g[Len(h) + y] = t[y]
  BY <1>4, <1>5, <1>10, ConcatIs DEF Follows
<1>7. ASSUME NEW y \in 2 .. Len(ls) PROVE g[Len(f) + (y - 1)] = ls[y]
  <2>1. y - 1 \in 1 .. Len(t) /\ (y - 1) + 1 = y
    BY <1>0, <1>9
  <2>2. g[Len(h) + (y - 1)] = t[y - 1] /\ t[y - 1] = ls[(y - 1) + 1]
    BY <1>6, <1>9, <2>1
  <2>. QED
    BY <1>3, <2>1, <2>2
<1>8. \A i \in 1 .. Len(f) : g[i] = h[i]
  BY <1>3, <1>6
<1>. QED
  BY <1>1, <1>3, <1>6, <1>7, <1>8, <1>9 DEF Swallows

\* ... and otherwise they all follow.
LEMMA Follow ==
    ASSUME NEW f \in Seq(LineSet), NEW ls \in Seq(LineSet), NEW guard \in BOOLEAN,
           NEW g, g = JoinedTo(f, ls, guard),
           ~(ls # <<>> /\ EndsTorn(f) /\ ~guard)
    PROVE  Follows(f, ls, g)
BY ConcatIs DEF JoinedTo

LEMMA PlacesAre ==
    ASSUME NEW f \in Seq(LineSet)
    PROVE  /\ \A i : i \in Places(f) <=> i \in 1 .. Len(f) /\ Whole(f[i])
           /\ \A i \in Places(f) : i \in Nat /\ i <= Len(f) /\ f[i] \in LineSet
           /\ EndsTorn(f) => Len(f) \notin Places(f)
BY SeqIs DEF Places, EndsTorn, Whole

\* A write, whole or in part.
LEMMA WriteIs ==
    ASSUME NEW f \in Seq(LineSet), NEW ls \in Seq(LineSet), NEW part \in Seq(LineSet),
           NEW guard \in BOOLEAN, NEW g, g = JoinedTo(f, part, guard), PartOf(part, ls),
           \A y \in 1 .. Len(ls) : Whole(ls[y])
    PROVE  /\ g \in Seq(LineSet) /\ Wrote(f, g, ls)
           /\ (EndsTorn(f) => guard) => StartOf(f \o ls, g)
<1>0. Len(f) \in Nat /\ Len(ls) \in Nat /\ Len(part) \in Nat /\ Len(part) <= Len(ls)
  BY SeqIs DEF PartOf
<1>1. CASE part # <<>> /\ EndsTorn(f) /\ ~guard
  <2>1. /\ g \in Seq(LineSet) /\ Len(g) = Len(f) + (Len(part) - 1) /\ g[Len(f)].kind = "broken"
        /\ \A i \in 1 .. Len(f) : i # Len(f) => g[i] = f[i]
        /\ \A y \in 2 .. Len(part) : g[Len(f) + (y - 1)] = part[y]
    <3>1. Swallows(f, part, g)
      BY <1>1, Swallowed
    <3>. QED
      BY <3>1, Zenon DEF Swallows
  <2>2. Len(f) \notin Places(f)
    BY <1>1, PlacesAre
  <2>3. ASSUME NEW i \in Places(f) PROVE i \in Places(g) /\ g[i] = f[i]
    <3>1. i \in 1 .. Len(f) /\ i # Len(f) /\ Whole(f[i])
      BY <2>2, PlacesAre
    <3>2. g[i] = f[i] /\ i \in 1 .. Len(g)
      <4>1. part # <<>> /\ Len(part) > 0
        BY <1>1, SeqIs
      <4>. QED
        BY <1>0, <2>1, <3>1, <4>1
    <3>. QED
      BY <2>1, <3>1, <3>2, PlacesAre
  <2>4. ASSUME NEW i \in Places(g) PROVE i \in Places(f) \/ \E y \in 1 .. Len(ls) : g[i] = ls[y]
    <3>1. i \in 1 .. Len(g) /\ Whole(g[i]) /\ i # Len(f)
      BY <2>1, PlacesAre DEF Whole
    <3>2. CASE i < Len(f)
      BY <1>0, <2>1, <3>1, <3>2, PlacesAre
    <3>3. CASE i > Len(f)
      <4>1. PICK y \in 2 .. Len(part) : i = Len(f) + (y - 1)
        <5>1. (i - Len(f)) + 1 \in 2 .. Len(part) /\ i = Len(f) + (((i - Len(f)) + 1) - 1)
          <6>1. i \in 1 .. Len(g) /\ Len(g) = Len(f) + (Len(part) - 1)
            BY <2>1, <3>1
          <6>. QED
            BY ONLY <1>0, <3>3, <6>1
        <5>. QED
          BY <5>1
      <4>2. g[i] = part[y]
        BY <2>1, <4>1
      <4>3. y \in 1 .. Len(part) /\ y \in 1 .. Len(ls)
        BY <1>0
      <4>4. part[y] = ls[y]
        BY <3>1, <4>2, <4>3 DEF PartOf
      <4>. QED
        BY <4>2, <4>3, <4>4
    <3>. QED
      BY <1>0, <2>1, <3>1, <3>2, <3>3
  <2>. QED
    BY <1>1, <2>1, <2>3, <2>4 DEF Wrote
<1>2. CASE ~(part # <<>> /\ EndsTorn(f) /\ ~guard)
  <2>1. /\ g \in Seq(LineSet) /\ Len(g) = Len(f) + Len(part)
        /\ \A i \in 1 .. Len(f) : g[i] = f[i]
        /\ \A y \in 1 .. Len(part) : g[Len(f) + y] = part[y]
    <3>1. Follows(f, part, g)
      BY <1>2, Follow
    <3>. QED
      BY <3>1, Zenon DEF Follows
  <2>2. ASSUME NEW i \in Places(f) PROVE i \in Places(g) /\ g[i] = f[i]
    <3>1. i \in 1 .. Len(f) /\ Whole(f[i])
      BY PlacesAre
    <3>2. g[i] = f[i] /\ i \in 1 .. Len(g)
      BY <1>0, <2>1, <3>1
    <3>. QED
      BY <2>1, <3>1, <3>2, PlacesAre
  <2>3. ASSUME NEW i \in Places(g)
        PROVE  \/ i \in Places(f) /\ g[i] = f[i]
               \/ \E y \in 1 .. Len(part) : i = Len(f) + y /\ g[i] = ls[y]
    <3>1. i \in 1 .. Len(g) /\ Whole(g[i])
      BY <2>1, PlacesAre
    <3>2. CASE i <= Len(f)
      BY <1>0, <2>1, <3>1, <3>2, PlacesAre
    <3>3. CASE i > Len(f)
      <4>1. i - Len(f) \in 1 .. Len(part) /\ i = Len(f) + (i - Len(f))
        BY <1>0, <2>1, <3>1, <3>3
      <4>2. g[i] = part[i - Len(f)]
        BY <2>1, <4>1
      <4>3. part[i - Len(f)] = ls[i - Len(f)]
        BY <3>1, <4>1, <4>2 DEF PartOf
      <4>. QED
        BY <4>1, <4>2, <4>3
    <3>. QED
      BY <1>0, <3>1, <3>2, <3>3
  <2>4. Wrote(f, g, ls)
    BY <1>0, <2>2, <2>3 DEF Wrote
  <2>5. PICK h : h = f \o ls
    OBVIOUS
  <2>6. /\ h \in Seq(LineSet) /\ Len(h) = Len(f) + Len(ls)
        /\ \A i \in 1 .. Len(f) : h[i] = f[i]
        /\ \A y \in 1 .. Len(ls) : h[Len(f) + y] = ls[y]
    BY <2>5, ConcatIs DEF Follows
  <2>7. ASSUME NEW i \in Places(g) PROVE i \in Places(h) /\ g[i] = h[i]
    <3>1. CASE i \in Places(f) /\ g[i] = f[i]
      BY <1>0, <2>6, <3>1, PlacesAre
    <3>2. CASE \E y \in 1 .. Len(part) : i = Len(f) + y /\ g[i] = ls[y]
      <4>1. PICK y \in 1 .. Len(part) : i = Len(f) + y /\ g[i] = ls[y]
        BY <3>2
      <4>2. y \in 1 .. Len(ls) /\ i \in 1 .. Len(h)
        BY <1>0, <2>6, <4>1
      <4>3. h[i] = ls[y]
        BY <2>6, <4>1, <4>2
      <4>. QED
        BY <2>6, <4>1, <4>2, <4>3, PlacesAre
    <3>. QED
      BY <2>3, <3>1, <3>2
  <2>8. ASSUME NEW i \in Places(g), NEW j \in Places(h), j < i PROVE j \in Places(g)
    <3>0. j \in 1 .. Len(h) /\ Whole(h[j]) /\ i \in 1 .. Len(g) /\ Whole(g[i])
      BY <2>1, <2>6, PlacesAre
    <3>1. j \in 1 .. Len(g) /\ j \in Nat /\ i <= Len(f) + Len(part)
      BY <1>0, <2>1, <2>8, <3>0
    <3>2. CASE j <= Len(f)
      <4>1. j \in 1 .. Len(f)
        BY <1>0, <3>0, <3>2
      <4>2. Whole(g[j])
        BY <2>1, <2>6, <3>0, <4>1
      <4>. QED
        BY <2>1, <3>1, <4>2, PlacesAre
    <3>3. CASE j > Len(f)
      <4>1. PICK y \in 1 .. Len(part) : j = Len(f) + y
        <5>1. j - Len(f) \in 1 .. Len(part) /\ j = Len(f) + (j - Len(f))
          BY <1>0, <2>1, <3>1, <3>3
        <5>. QED
          BY <5>1
      <4>2. y \in 1 .. Len(ls) /\ y # Len(part)
        BY <1>0, <2>8, <3>0, <3>1, <4>1
      <4>3. g[j] = ls[y] /\ h[j] = ls[y]
        BY <2>1, <2>6, <4>1, <4>2 DEF PartOf
      <4>. QED
        BY <2>1, <3>0, <3>1, <4>3, PlacesAre
    <3>. QED
      BY <1>0, <3>1, <3>2, <3>3
  <2>9. StartOf(h, g)
    BY <2>7, <2>8 DEF StartOf
  <2>. QED
    BY <2>1, <2>4, <2>5, <2>9
<1>3. (EndsTorn(f) => guard) => ~(part # <<>> /\ EndsTorn(f) /\ ~guard)
  OBVIOUS
<1>4. g \in Seq(LineSet) /\ Wrote(f, g, ls) /\ ((EndsTorn(f) => guard) => StartOf(f \o ls, g))
  BY <1>1, <1>2, <1>3
<1>. QED
  BY <1>4

\* A write that succeeds: of its lines, only the first can be lost.
WroteAll(f, g, ls, guard) ==
    /\ g \in Seq(LineSet) /\ Wrote(f, g, ls)
    /\ \A y \in 1 .. Len(ls) : y # 1 \/ (EndsTorn(f) => guard) => \E i \in Places(g) : g[i] = ls[y]
    /\ ~EndsTorn(g)
    /\ (EndsTorn(f) => guard) => g = f \o ls
LEMMA WholeWrite ==
    ASSUME NEW f \in Seq(LineSet), NEW ls \in Seq(LineSet), NEW guard \in BOOLEAN,
           ls # <<>>, \A y \in 1 .. Len(ls) : Whole(ls[y]), NEW g, g = JoinedTo(f, ls, guard)
    PROVE  WroteAll(f, g, ls, guard)
<1>1. PartOf(ls, ls)
  BY SeqIs DEF PartOf
<1>2. g \in Seq(LineSet) /\ Wrote(f, g, ls)
  BY <1>1, WriteIs
<1>3. Len(f) \in Nat /\ Len(ls) \in Nat /\ Len(ls) > 0 /\ Len(g) \in Nat
  BY <1>2, SeqIs
<1>4. CASE EndsTorn(f) /\ ~guard
  <2>1. /\ Len(g) = Len(f) + (Len(ls) - 1) /\ g[Len(f)].kind = "broken"
        /\ \A y \in 2 .. Len(ls) : g[Len(f) + (y - 1)] = ls[y]
    <3>1. Swallows(f, ls, g)
      BY <1>4, Swallowed
    <3>. QED
      BY <3>1, Zenon DEF Swallows
  <2>2. ASSUME NEW y \in 1 .. Len(ls), y # 1 PROVE \E i \in Places(g) : g[i] = ls[y]
    <3>1. y \in 2 .. Len(ls) /\ Len(f) + (y - 1) \in 1 .. Len(g)
      BY <1>3, <2>1, <2>2
    <3>2. Len(f) + (y - 1) \in Places(g) /\ g[Len(f) + (y - 1)] = ls[y]
      BY <1>2, <2>1, <3>1, PlacesAre
    <3>. QED
      BY <3>2
  <2>3. ~EndsTorn(g)
    <3>1. SUFFICES ASSUME g # <<>> PROVE g[Len(g)].kind # "torn"
      BY <1>2, SeqIs DEF EndsTorn
    <3>2. CASE Len(ls) = 1
      BY <1>3, <2>1, <3>2
    <3>3. CASE Len(ls) # 1
      <4>2. \A n \in Nat : n > 0 /\ n # 1 => n \in 2 .. n /\ n \in 1 .. n
        OBVIOUS
      <4>0. Len(ls) \in 2 .. Len(ls) /\ Len(ls) \in 1 .. Len(ls)
        BY <1>3, <3>3, <4>2
      <4>1. g[Len(g)] = ls[Len(ls)]
        BY <2>1, <4>0
      <4>. QED
        BY <4>0, <4>1 DEF Whole
    <3>. QED
      BY <3>2, <3>3
  <2>. QED
    BY <1>2, <1>4, <2>2, <2>3 DEF WroteAll
<1>5. CASE ~(EndsTorn(f) /\ ~guard)
  <2>4. g = f \o ls
    BY <1>5 DEF JoinedTo
  <2>1. /\ Len(g) = Len(f) + Len(ls)
        /\ \A y \in 1 .. Len(ls) : g[Len(f) + y] = ls[y]
    <3>1. Follows(f, ls, g)
      BY <1>5, Follow
    <3>. QED
      BY <3>1, Zenon DEF Follows
  <2>2. ASSUME NEW y \in 1 .. Len(ls) PROVE \E i \in Places(g) : g[i] = ls[y]
    <3>0. g[Len(f) + y] = ls[y]
      BY <2>1
    <3>2. Len(f) + y \in 1 .. Len(g)
      BY <1>3, <2>1
    <3>1. Len(f) + y \in Places(g) /\ g[Len(f) + y] = ls[y]
      BY <1>2, <3>0, <3>2, PlacesAre
    <3>. QED
      BY <3>1
  <2>3. ~EndsTorn(g)
    <3>1. Len(ls) \in 1 .. Len(ls) /\ Len(g) = Len(f) + Len(ls)
      BY <1>3, <2>1
    <3>2. g[Len(g)] = ls[Len(ls)]
      BY <2>1, <3>1
    <3>. QED
      BY <1>2, <3>1, <3>2, SeqIs DEF EndsTorn, Whole
  <2>. QED
    BY <1>2, <2>2, <2>3, <2>4 DEF WroteAll
<1>. QED
  BY <1>4, <1>5

-----------------------------------------------------------------------------
(* The lines of a batch, as they are written *)

\* The line a is the line b but for its number.
Copies(a, b) == a.kind = b.kind /\ a.of = b.of /\ a.turn = b.turn /\ a.how = b.how /\ a.run = b.run

\* The lines ls of the process r from the number q on, behind a header or not.
Sent(p, hd, ls, r, q) ==
    /\ p \in Seq(LineSet) /\ p # <<>> /\ \A y \in 1 .. Len(p) : Whole(p[y])
    /\ \A y \in 1 .. Len(p) : p[y].seq = q + (y - 1)
    /\ hd => /\ Len(p) = Len(ls) + 1
             /\ p[1].kind = "header" /\ p[1].of = 0 /\ p[1].turn = 0 /\ p[1].run = r
             /\ \A x \in 1 .. Len(ls) : Copies(p[x + 1], ls[x])
    /\ ~hd => Len(p) = Len(ls) /\ \A x \in 1 .. Len(ls) : Copies(p[x], ls[x])

LEMMA BatchIs ==
    ASSUME Shape, Writing, NEW b \in 1 .. Len(chain)
    PROVE  /\ chain[b] \in BatchSet /\ Batch(chain[b], run)
           /\ chain[b].lines \in Seq(LineSet) /\ chain[b].lines # <<>> /\ chain[b].closes \in Nat
           /\ \A x \in 1 .. Len(chain[b].lines) :
                 chain[b].lines[x] \in LineSet /\ Whole(chain[b].lines[x]) /\ chain[b].lines[x].run = run
<1>1. chain \in Seq(BatchSet) /\ Batch(chain[b], run)
  BY DEF Shape, Writing
<1>2. chain[b] \in BatchSet
  BY <1>1, SeqIs
<1>. PICK c \in BatchSet : c = chain[b]
  BY <1>2
<1>3. c.lines \in Seq(LineSet) /\ c.closes \in Nat
  BY DEF BatchSet
<1>. PICK ls \in Seq(LineSet) : ls = c.lines
  BY <1>3
<1>4. ls # <<>>
  <2>1. Len(ls) = 1 \/ Len(ls) = 2
    BY <1>1 DEF Batch
  <2>2. ls = <<>> => Len(ls) = 0
    BY EmptySeq
  <2>3. 1 # 0 /\ 2 # 0
    OBVIOUS
  <2>. QED
    BY <2>1, <2>2, <2>3, Zenon
<1>5. \A x \in 1 .. Len(ls) : ls[x] \in LineSet
  BY SeqIs
<1>6. \A x \in 1 .. Len(ls) : Whole(ls[x]) /\ ls[x].run = run
  BY <1>1 DEF Batch, Whole, OfTurns
<1>. QED
  BY <1>1, <1>3, <1>4, <1>5, <1>6

LEMMA LinesAre ==
    ASSUME Shape, NEW kind \in Kinds, NEW k \in Nat, NEW n \in Nat, NEW how \in Hows
    PROVE  /\ Line(kind, k, n, how) \in LineSet
           /\ Line(kind, k, n, how).kind = kind /\ Line(kind, k, n, how).of = k
           /\ Line(kind, k, n, how).turn = n /\ Line(kind, k, n, how).how = how
           /\ Line(kind, k, n, how).run = run /\ Line(kind, k, n, how).seq = 0
BY DEF Shape, Line, LineSet

LEMMA PayloadIs ==
    ASSUME Shape, Writing, chain # <<>>
    PROVE  Sent(Payload, rec.header, chain[1].lines, run, rec.seq)
<1>1. 1 \in 1 .. Len(chain) /\ Head(chain) = chain[1]
  BY SeqIs DEF Shape
<1>. PICK c : c = chain[1].lines
  OBVIOUS
<1>2. c \in Seq(LineSet) /\ c # <<>> /\ Len(c) \in Nat /\ Len(c) > 0
      /\ \A x \in 1 .. Len(c) : c[x] \in LineSet /\ Whole(c[x])
  BY <1>1, BatchIs, SeqIs
<1>3. rec.seq \in Nat /\ rec.header \in BOOLEAN
  BY DEF Shape, RecSet
<1>. PICK q \in Nat : q = rec.seq
  BY <1>3
<1>. DEFINE H == <<Line("header", 0, 0, None)>>
<1>4. Line("header", 0, 0, None) \in LineSet /\ Line("header", 0, 0, None).kind = "header"
      /\ Line("header", 0, 0, None).of = 0 /\ Line("header", 0, 0, None).turn = 0
      /\ Line("header", 0, 0, None).run = run
  BY DEF Line, LineSet, Shape, Kinds, Hows
<1>. PICK ls : ls = (IF rec.header THEN H ELSE <<>>) \o c
  OBVIOUS
<1>5. /\ ls \in Seq(LineSet)
      /\ rec.header => /\ Len(ls) = Len(c) + 1 /\ ls[1] = Line("header", 0, 0, None)
                       /\ \A x \in 1 .. Len(c) : ls[x + 1] = c[x]
      /\ ~rec.header => ls = c
  <2>1. CASE rec.header
    <3>1. H \in Seq(LineSet) /\ Len(H) = 1 /\ H[1] = Line("header", 0, 0, None)
      BY <1>4
    <3>2. ls = H \o c
      BY <2>1
    <3>. HIDE DEF H
    <3>3. Follows(H, c, ls)
      BY <1>2, <3>1, <3>2, ConcatIs
    <3>4. ls \in Seq(LineSet) /\ Len(ls) = Len(H) + Len(c) /\ (\A i \in 1 .. Len(H) : ls[i] = H[i])
          /\ (\A y \in 1 .. Len(c) : ls[Len(H) + y] = c[y])
      BY <3>3 DEF Follows
    <3>5. ls[1] = H[1] /\ Len(ls) = Len(c) + 1
      <4>1. 1 \in 1 .. Len(H) /\ Len(H) + Len(c) = Len(c) + 1
        BY <1>2, <3>1
      <4>. QED
        BY <3>4, <4>1
    <3>6. ASSUME NEW x \in 1 .. Len(c) PROVE ls[x + 1] = c[x]
      <4>1. ls[Len(H) + x] = c[x] /\ Len(H) + x = x + 1
        <5>1. Len(H) + x = x + 1
          BY <1>2, <3>1
        <5>. QED
          BY <3>4, <5>1
      <4>. QED
        BY <4>1
    <3>. QED
      BY <2>1, <3>1, <3>4, <3>5, <3>6
  <2>2. CASE ~rec.header
    <3>1. ls = <<>> \o c
      BY <2>2
    <3>2. ls = c
      BY <1>2, <3>1, ConcatEmptySeq
    <3>. QED
      BY <1>2, <2>2, <3>2
  <2>. QED
    BY <1>3, <2>1, <2>2
<1>. HIDE DEF H
<1>6. Len(ls) \in Nat /\ DOMAIN ls = 1 .. Len(ls) /\ \A y \in 1 .. Len(ls) : ls[y] \in LineSet
  BY <1>5, SeqIs
<1>7. Len(ls) > 0 /\ \A y \in 1 .. Len(ls) : Whole(ls[y])
  <2>1. CASE rec.header
    <3>1. ASSUME NEW y \in 1 .. Len(ls) PROVE Whole(ls[y])
      <4>1. CASE y = 1
        BY <1>4, <1>5, <2>1, <4>1 DEF Whole
      <4>2. CASE y # 1
        <5>1. y - 1 \in 1 .. Len(c) /\ (y - 1) + 1 = y
          BY <1>2, <1>5, <2>1, <4>2
        <5>2. ls[(y - 1) + 1] = c[y - 1]
          BY <1>5, <2>1, <5>1
        <5>. QED
          BY <1>2, <5>1, <5>2
      <4>. QED
        BY <4>1, <4>2
    <3>. QED
      BY <1>2, <1>5, <2>1, <3>1
  <2>2. CASE ~rec.header
    BY <1>2, <1>5, <2>2
  <2>. QED
    BY <1>3, <2>1, <2>2
<1>. PICK p : p = [i \in DOMAIN ls |-> [ls[i] EXCEPT !.seq = q + i - 1]]
  OBVIOUS
<1>8. Payload = p
  <2>. USE DEF H
  <2>. QED
    BY ONLY <1>1, c = chain[1].lines, q = rec.seq, ls = (IF rec.header THEN H ELSE <<>>) \o c,
            p = [i \in DOMAIN ls |-> [ls[i] EXCEPT !.seq = q + i - 1]] DEF Payload
<1>16. \A y \in 1 .. Len(ls) : p[y] = [ls[y] EXCEPT !.seq = q + y - 1]
  BY <1>6
<1>17. \A n : n = Len(ls) => p = [y \in 1 .. n |-> p[y]]
  BY <1>6
<1>9. ASSUME NEW y \in 1 .. Len(ls)
      PROVE  p[y] \in LineSet /\ Whole(p[y]) /\ Copies(p[y], ls[y]) /\ p[y].seq = q + (y - 1)
  <2>1. p[y] = [ls[y] EXCEPT !.seq = q + y - 1] /\ q + y - 1 = q + (y - 1) /\ q + (y - 1) \in Nat
    BY <1>6
  <2>. PICK l \in LineSet : l = ls[y]
    BY ONLY <1>6, y \in 1 .. Len(ls)
  <2>2. p[y] = [l EXCEPT !.seq = q + (y - 1)]
    BY ONLY <2>1, l = ls[y]
  <2>4. PICK n \in Nat : n = q + (y - 1)
    BY ONLY <2>1
  <2>5. p[y] = [l EXCEPT !.seq = n]
    BY Zenon, <2>2, <2>4
  <2>6. PICK k : k = [l EXCEPT !.seq = n]
    OBVIOUS
  <2>7. k \in LineSet /\ k.kind = l.kind /\ k.of = l.of /\ k.turn = l.turn /\ k.how = l.how
        /\ k.run = l.run /\ k.seq = n
    BY ONLY <2>6, l \in LineSet, n \in Nat DEF LineSet
  <2>8. p[y] = k
    BY ONLY <2>5, <2>6
  <2>3. p[y] \in LineSet /\ Copies(p[y], l) /\ p[y].seq = q + (y - 1)
    BY ONLY <2>4, <2>7, <2>8 DEF Copies
  <2>9. Whole(l) /\ l = ls[y]
    BY <1>7
  <2>. QED
    BY ONLY <2>3, <2>9 DEF Copies, Whole
<1>10. p \in Seq(LineSet) /\ Len(p) = Len(ls)
  <2>. PICK n \in Nat : n = Len(ls)
    BY <1>6
  <2>. PICK r : r = p
    OBVIOUS
  <2>1. r \in [1 .. n -> LineSet]
    <3>1. r = [y \in 1 .. n |-> r[y]] /\ \A y \in 1 .. n : r[y] \in LineSet
      <4>1. r = [y \in 1 .. n |-> r[y]]
        BY ONLY <1>17, r = p, n = Len(ls)
      <4>2. \A y \in 1 .. n : r[y] \in LineSet
        BY ONLY <1>9, r = p, n = Len(ls)
      <4>. QED
        BY ONLY <4>1, <4>2
    <3>. QED
      BY ONLY <3>1
  <2>2. r \in Seq(LineSet) /\ Len(r) = n
    BY ONLY <2>1, n \in Nat, FunctionIs
  <2>. QED
    BY <2>2
<1>11. p # <<>>
  BY <1>7, <1>10, SeqIs
<1>12. ASSUME rec.header
       PROVE  /\ Len(p) = Len(c) + 1
              /\ p[1].kind = "header" /\ p[1].of = 0 /\ p[1].turn = 0 /\ p[1].run = run
              /\ \A x \in 1 .. Len(c) : Copies(p[x + 1], c[x])
  <2>1. 1 \in 1 .. Len(ls) /\ \A x \in 1 .. Len(c) : x + 1 \in 1 .. Len(ls)
    BY <1>2, <1>5, <1>6, <1>12
  <2>2. \A x \in 1 .. Len(c) : Copies(p[x + 1], c[x])
    BY ONLY <1>5, <1>9, <1>12, <2>1
  <2>3. Copies(p[1], ls[1]) /\ ls[1] = Line("header", 0, 0, None)
    BY ONLY <1>5, <1>9, <1>12, <2>1
  <2>4. p[1].kind = "header" /\ p[1].of = 0 /\ p[1].turn = 0 /\ p[1].run = run
    BY Zenon, <1>4, <2>3 DEF Copies
  <2>5. Len(p) = Len(c) + 1
    BY <1>5, <1>10, <1>12
  <2>. QED
    BY Zenon, <2>2, <2>4, <2>5
<1>13. ASSUME ~rec.header PROVE Len(p) = Len(c) /\ \A x \in 1 .. Len(c) : Copies(p[x], c[x])
  BY ONLY <1>5, <1>9, <1>10, <1>13
<1>14. \A y \in 1 .. Len(p) : Whole(p[y]) /\ p[y].seq = q + (y - 1)
  BY ONLY <1>9, <1>10
<1>15. Sent(p, rec.header, c, run, q)
  BY Zenon, <1>10, <1>11, <1>12, <1>13, <1>14 DEF Sent
<1>. QED
  BY <1>8, <1>15

\* Where the lines of a payload come from.
LEMMA SentIs ==
    ASSUME NEW p, NEW hd \in BOOLEAN, NEW ls \in Seq(LineSet), NEW r, NEW q \in Nat, Sent(p, hd, ls, r, q),
           NEW y \in 1 .. Len(p)
    PROVE  \/ hd /\ y = 1 /\ p[y].kind = "header" /\ p[y].of = 0 /\ p[y].turn = 0 /\ p[y].run = r
           \/ \E x \in 1 .. Len(ls) : Copies(p[y], ls[x])
<1>1. Len(ls) \in Nat /\ p \in Seq(LineSet) /\ Len(p) \in Nat
  BY SeqIs DEF Sent
<1>2. CASE hd
  <2>1. Len(p) = Len(ls) + 1 /\ p[1].kind = "header" /\ p[1].of = 0 /\ p[1].turn = 0 /\ p[1].run = r
        /\ \A x \in 1 .. Len(ls) : Copies(p[x + 1], ls[x])
    BY <1>2 DEF Sent
  <2>2. CASE y # 1
    <3>1. y - 1 \in 1 .. Len(ls) /\ (y - 1) + 1 = y
      BY <1>1, <2>1, <2>2
    <3>. QED
      BY <2>1, <3>1
  <2>. QED
    BY <1>2, <2>1, <2>2
<1>3. CASE ~hd
  BY <1>3 DEF Sent
<1>. QED
  BY <1>2, <1>3

\* The record of a full file.
LEMMA StopIs ==
    ASSUME Shape
    PROVE  /\ StopLine \in LineSet /\ Whole(StopLine) /\ StopLine.kind = "stopped" /\ StopLine.of = 0
           /\ StopLine.turn = rec.turns /\ StopLine.run = run /\ StopLine.seq = rec.seq
           /\ <<StopLine>> \in Seq(LineSet) /\ <<StopLine>> # <<>> /\ Len(<<StopLine>>) = 1
           /\ <<StopLine>>[1] = StopLine
<1>1. rec.turns \in Nat /\ rec.seq \in Nat
  BY DEF Shape, RecSet
<1>. PICK l : l = Line("stopped", 0, rec.turns, None)
  OBVIOUS
<1>2. l \in LineSet /\ l.kind = "stopped" /\ l.of = 0 /\ l.turn = rec.turns /\ l.run = run
  BY <1>1, LinesAre, "stopped" \in Kinds, None \in Hows, 0 \in Nat DEF Kinds, Hows
<1>3. StopLine = [l EXCEPT !.seq = rec.seq]
  BY DEF StopLine
<1>4. /\ StopLine \in LineSet /\ StopLine.kind = "stopped" /\ StopLine.of = 0
      /\ StopLine.turn = rec.turns /\ StopLine.run = run /\ StopLine.seq = rec.seq
  BY <1>1, <1>2, <1>3 DEF LineSet
<1>. QED
  BY <1>4 DEF Whole

LEMMA TearsAre ==
    ASSUME Shape, NEW ls \in Seq(LineSet), NEW guard \in BOOLEAN, NEW g \in Tears(ls, guard)
    PROVE  \E part \in Seq(LineSet) : PartOf(part, ls) /\ g = JoinedTo(file, part, guard)
<1>1. \A part : Joined(part, guard) = JoinedTo(file, part, guard)
  BY DEF Joined, JoinedTo, EndsTorn
<1>2. Len(ls) \in Nat /\ \A i \in 1 .. Len(ls) : ls[i] \in LineSet
  BY SeqIs
<1>3. ASSUME NEW n \in 0 .. Len(ls)
      PROVE  /\ SubSeq(ls, 1, n) \in Seq(LineSet) /\ Len(SubSeq(ls, 1, n)) = n
             /\ \A y \in 1 .. n : SubSeq(ls, 1, n)[y] = ls[y]
  <2>1. \A i \in 1 .. n : ls[i] \in LineSet
    BY <1>2
  <2>2. SubSeq(ls, 1, n) \in Seq(LineSet) /\ Len(SubSeq(ls, 1, n)) = (IF 1 <= n THEN n - 1 + 1 ELSE 0)
        /\ \A i \in 1 .. n - 1 + 1 : SubSeq(ls, 1, n)[i] = ls[1 + i - 1]
    BY <2>1, SubSeqProperties, 1 \in Int, n \in Int
  <2>. QED
    BY <2>2
<1>4. ASSUME NEW n \in 0 .. Len(ls), g = Joined(SubSeq(ls, 1, n), guard)
      PROVE  \E part \in Seq(LineSet) : PartOf(part, ls) /\ g = JoinedTo(file, part, guard)
  <2>1. PICK part \in Seq(LineSet) :
            part = SubSeq(ls, 1, n) /\ Len(part) = n /\ \A y \in 1 .. n : part[y] = ls[y]
    BY <1>3
  <2>2. PartOf(part, ls)
    BY <1>2, <2>1 DEF PartOf
  <2>. QED
    BY <1>1, <1>4, <2>1, <2>2
<1>5. ASSUME NEW n \in 0 .. Len(ls) - 1, g = Joined(SubSeq(ls, 1, n) \o <<Torn>>, guard)
      PROVE  \E part \in Seq(LineSet) : PartOf(part, ls) /\ g = JoinedTo(file, part, guard)
  <2>0. n \in 0 .. Len(ls) /\ n \in Nat
    BY <1>2
  <2>1. PICK s \in Seq(LineSet) : s = SubSeq(ls, 1, n) /\ Len(s) = n /\ \A y \in 1 .. n : s[y] = ls[y]
    BY <1>3, <2>0
  <2>2. Torn \in LineSet /\ ~Whole(Torn)
    <3>1. run \in Nat /\ None \in Hows /\ "torn" \in Kinds
      BY DEF Shape, Hows, Kinds
    <3>. QED
      BY <3>1 DEF Torn, LineSet, Whole
  <2>3. PICK t : t = <<Torn>>
    OBVIOUS
  <2>4. t \in Seq(LineSet) /\ Len(t) = 1 /\ t[1] = Torn
    BY <2>2, <2>3
  <2>5. PICK part : part = s \o t
    OBVIOUS
  <2>6. Follows(s, t, part)
    BY <2>4, <2>5, ConcatIs
  <2>7. part \in Seq(LineSet) /\ Len(part) = n + 1 /\ (\A y \in 1 .. n : part[y] = ls[y])
        /\ part[n + 1] = Torn
    BY <2>0, <2>1, <2>4, <2>6 DEF Follows
  <2>8. PartOf(part, ls)
    <3>1. Len(part) <= Len(ls)
      BY <1>2, <2>7
    <3>2. ASSUME NEW y \in 1 .. Len(part) PROVE part[y] = ls[y] \/ (y = Len(part) /\ ~Whole(part[y]))
      <4>1. y \in 1 .. n \/ y = n + 1
        BY <2>0, <2>7
      <4>. QED
        BY <2>2, <2>7, <4>1
    <3>. QED
      BY <3>1, <3>2 DEF PartOf
  <2>. QED
    BY <1>1, <1>5, <2>1, <2>3, <2>5, <2>7, <2>8
<1>. QED
  BY <1>4, <1>5 DEF Tears

LEMMA TornWrite ==
    ASSUME Shape, NEW ls \in Seq(LineSet), \A y \in 1 .. Len(ls) : Whole(ls[y]),
           NEW guard \in BOOLEAN, NEW g \in Tears(ls, guard)
    PROVE  /\ g \in Seq(LineSet) /\ Wrote(file, g, ls)
           /\ (EndsTorn(file) => guard) => StartOf(file \o ls, g)
<1>1. PICK part \in Seq(LineSet) : PartOf(part, ls) /\ g = JoinedTo(file, part, guard)
  BY TearsAre
<1>. PICK f \in Seq(LineSet) : f = file
  BY DEF Shape
<1>. QED
  BY <1>1, WriteIs

LEMMA FullWrite ==
    ASSUME Shape, NEW ls \in Seq(LineSet), ls # <<>>, \A y \in 1 .. Len(ls) : Whole(ls[y]),
           NEW guard \in BOOLEAN, NEW g, g = Joined(ls, guard)
    PROVE  WroteAll(file, g, ls, guard)
<1>. PICK f \in Seq(LineSet) : f = file
  BY DEF Shape
<1>1. g = JoinedTo(f, ls, guard)
  BY DEF Joined, JoinedTo, EndsTorn
<1>. QED
  BY <1>1, WholeWrite

\* What the process was writing when it went.
LEMMA InFlightIs ==
    ASSUME Shape, Writing
    PROVE  /\ InFlight \in Seq(LineSet) /\ Guarded \in BOOLEAN
           /\ \A y \in 1 .. Len(InFlight) : Whole(InFlight[y])
           /\ io = "idle" <=> InFlight = <<>>
           /\ io = "writing" => InFlight = Payload /\ Guarded = rec.guard
           /\ io = "stopping" => InFlight = <<StopLine>> /\ Guarded = FALSE
<1>1. io \in {"idle", "writing", "stopping"} /\ rec.guard \in BOOLEAN
  BY DEF Shape, RecSet
<1>2. CASE io = "idle"
  <2>0. <<>> \in Seq(LineSet) /\ Len(<<>>) = 0
    BY EmptySeq
  <2>1. InFlight = <<>> /\ Guarded = FALSE
    BY <1>2 DEF InFlight, Guarded
  <2>2. InFlight \in Seq(LineSet) /\ Len(InFlight) = 0
    BY <2>0, <2>1
  <2>3. \A y \in 1 .. Len(InFlight) : Whole(InFlight[y])
    BY <2>2
  <2>. QED
    BY <1>2, <2>1, <2>2, <2>3
<1>3. CASE io = "writing"
  <2>1. InFlight = Payload /\ Guarded = rec.guard
    BY <1>1, <1>3 DEF InFlight, Guarded
  <2>2. Sent(Payload, rec.header, chain[1].lines, run, rec.seq)
    BY <1>3, PayloadIs DEF Writing
  <2>. QED
    BY <1>1, <1>3, <2>1, <2>2 DEF Sent
<1>4. CASE io = "stopping"
  <2>1. InFlight = <<StopLine>> /\ Guarded = FALSE
    BY <1>4 DEF InFlight, Guarded
  <2>2. PICK t : t = <<StopLine>>
    OBVIOUS
  <2>3. t \in Seq(LineSet) /\ t # <<>> /\ \A y \in 1 .. Len(t) : Whole(t[y])
    BY <2>2, StopIs
  <2>. QED
    BY <1>4, <2>1, <2>2, <2>3
<1>. QED
  BY <1>1, <1>2, <1>3, <1>4

-----------------------------------------------------------------------------
(* What the operations of the memory controller do *)

\* The turns of n are those of m, further on.
Moved(m, n) ==
    /\ n \in Seq(MemSet) /\ Len(n) = Len(m)
    /\ \A k \in 1 .. Len(m) : n[k].turn = m[k].turn /\ n[k].run = m[k].run /\ n[k].facts = m[k].facts

\* The turn a, settled and sealed.
SettledTo(a, b, kept, q) ==
    IF a.state \notin {"open", "sealed"} THEN b = a
    ELSE /\ b.turn = a.turn /\ b.run = a.run /\ b.facts = a.facts /\ b.sealed = a.sealed
         /\ ~kept => b.state = "gone"
         /\ kept /\ a.state = "open" => b.state = "settled" /\ b.seq = q
         /\ kept /\ a.state = "sealed" =>
              b.seq = q /\ (IF a.facts = {} THEN b.state = "gone" ELSE b.state = "committing")
SealedTo(a, b, success) ==
    IF a.state \notin {"open", "settled"} THEN b = a
    ELSE /\ b.turn = a.turn /\ b.run = a.run /\ b.facts = a.facts /\ b.sealed = success /\ b.seq = a.seq
         /\ ~success => b.state = "gone"
         /\ success /\ a.state = "open" => b.state = "sealed"
         /\ success /\ a.state = "settled" =>
              (IF a.facts = {} THEN b.state = "gone" ELSE b.state = "committing")
DiscardedTo(a, b) ==
    /\ b.turn = a.turn /\ b.run = a.run /\ b.facts = a.facts /\ b.sealed = a.sealed /\ b.seq = a.seq
    /\ b.state = IF a.state \in {"open", "settled"} THEN "gone" ELSE a.state
ClosedTo(a, b) ==
    /\ b.turn = a.turn /\ b.run = a.run /\ b.facts = a.facts /\ b.sealed = a.sealed /\ b.seq = a.seq
    /\ b.state = IF a.state \in {"open", "sealed", "settled"} THEN "gone" ELSE a.state
GoneTo(a, b) ==
    /\ b.turn = a.turn /\ b.run = a.run /\ b.facts = a.facts /\ b.sealed = a.sealed /\ b.seq = a.seq
    /\ b.state = IF a.state = "done" THEN "done" ELSE "gone"
But(m, n, k) == \A j \in 1 .. Len(m) : j # k => n[j] = m[j]

LEMMA MemIs ==
    ASSUME NEW m \in MemSet
    PROVE  /\ m.state \in States /\ m.turn \in Nat /\ m.facts \in SUBSET Fact /\ m.sealed \in BOOLEAN
           /\ m.seq \in Nat /\ m.run \in Nat
BY DEF MemSet

\* A turn in another state.
LEMMA MemSets ==
    ASSUME NEW m \in MemSet, NEW st \in States, NEW q \in Nat, NEW s \in BOOLEAN, NEW F \in SUBSET Fact
    PROVE  /\ [m EXCEPT !.state = st] \in MemSet
           /\ [m EXCEPT !.state = st, !.seq = q] \in MemSet
           /\ [m EXCEPT !.state = st, !.sealed = s] \in MemSet
           /\ [m EXCEPT !.facts = F] \in MemSet
BY DEF MemSet

\* One turn of the book changes.
LEMMA BookSame ==
    ASSUME NEW m, NEW n, NEW c, Book(m, c), Len(n) = Len(m),
           \A k \in 1 .. Len(m) : n[k].state = "committing" <=> m[k].state = "committing"
    PROVE  Book(n, c)
BY DEF Book
LEMMA BookMore ==
    ASSUME NEW m, NEW n, NEW c \in Seq(Nat), Book(m, c), Len(n) = Len(m),
           NEW k \in 1 .. Len(m), But(m, n, k), m[k].state # "committing", n[k].state = "committing"
    PROVE  Append(c, k) \in Seq(Nat) /\ Book(n, Append(c, k))
<1>. PICK d : d = Append(c, k)
  OBVIOUS
<1>0. Len(c) \in Nat /\ k \in Nat
  BY SeqIs
<1>1. d \in Seq(Nat) /\ Len(d) = Len(c) + 1 /\ (\A i \in 1 .. Len(c) : d[i] = c[i]) /\ d[Len(c) + 1] = k
  BY <1>0
<1>2. \A i \in 1 .. Len(d) : i \in 1 .. Len(c) \/ i = Len(c) + 1
  BY <1>0, <1>1
<1>3. \A i \in 1 .. Len(c) : c[i] # k /\ c[i] \in 1 .. Len(m) /\ i \in 1 .. Len(d)
  BY <1>0, <1>1 DEF Book
<1>4. \A i, j \in 1 .. Len(d) : d[i] = d[j] => i = j
  <2>1. SUFFICES ASSUME NEW i \in 1 .. Len(d), NEW j \in 1 .. Len(d), d[i] = d[j] PROVE i = j
    OBVIOUS
  <2>. QED
    BY <1>1, <1>2, <1>3, <2>1, SMTT(30) DEF Book
<1>5. \A i \in 1 .. Len(d) : d[i] \in 1 .. Len(n) /\ n[d[i]].state = "committing"
  <2>1. SUFFICES ASSUME NEW i \in 1 .. Len(d) PROVE d[i] \in 1 .. Len(n) /\ n[d[i]].state = "committing"
    OBVIOUS
  <2>. QED
    BY <1>1, <1>2, <1>3 DEF Book, But
<1>6. ASSUME NEW l \in 1 .. Len(n), n[l].state = "committing" PROVE \E i \in 1 .. Len(d) : d[i] = l
  <2>1. CASE l = k
    <3>1. Len(c) + 1 \in 1 .. Len(d)
      BY <1>0, <1>1
    <3>. QED
      BY <1>1, <2>1, <3>1
  <2>2. CASE l # k
    <3>1. PICK i \in 1 .. Len(c) : c[i] = l
      BY <1>6, <2>2 DEF Book, But
    <3>. QED
      BY <1>1, <1>3, <3>1
  <2>. QED
    BY <2>1, <2>2
<1>. QED
  BY <1>1, <1>4, <1>5, <1>6, ZenonT(40) DEF Book
LEMMA BookLess ==
    ASSUME NEW m, NEW n, NEW c \in Seq(Nat), Book(m, c), c # <<>>, Len(n) = Len(m),
           But(m, n, c[1]), n[c[1]].state # "committing"
    PROVE  Tail(c) \in Seq(Nat) /\ Book(n, Tail(c))
<1>. PICK d : d = Tail(c)
  OBVIOUS
<1>0. Len(c) \in Nat /\ Len(c) > 0 /\ 1 \in 1 .. Len(c)
  BY SeqIs
<1>1. d \in Seq(Nat) /\ Len(d) = Len(c) - 1 /\ \A i \in 1 .. Len(d) : d[i] = c[i + 1]
  BY HeadTailProperties
<1>2. \A i \in 1 .. Len(d) : i + 1 \in 1 .. Len(c) /\ i + 1 # 1
  BY <1>0, <1>1
<1>3. \A i \in 1 .. Len(d) : c[i + 1] # c[1] /\ c[i + 1] \in 1 .. Len(m) /\ m[c[i + 1]].state = "committing"
  BY <1>0, <1>2 DEF Book
<1>4. \A i, j \in 1 .. Len(d) : d[i] = d[j] => i = j
  <2>1. SUFFICES ASSUME NEW i \in 1 .. Len(d), NEW j \in 1 .. Len(d), d[i] = d[j] PROVE i = j
    OBVIOUS
  <2>2. i + 1 = j + 1
    BY <1>1, <1>2, <2>1 DEF Book
  <2>. QED
    BY <1>0, <1>1, <2>2
<1>5. \A i \in 1 .. Len(d) : d[i] \in 1 .. Len(n) /\ n[d[i]].state = "committing"
  BY <1>1, <1>3 DEF But
<1>6. ASSUME NEW l \in 1 .. Len(n), n[l].state = "committing" PROVE \E i \in 1 .. Len(d) : d[i] = l
  <2>1. l # c[1]
    BY <1>6
  <2>2. PICK i \in 1 .. Len(c) : c[i] = l
    BY <1>6, <2>1 DEF Book, But
  <2>3. i # 1
    BY <2>1, <2>2
  <2>4. i - 1 \in 1 .. Len(d) /\ (i - 1) + 1 = i
    BY <1>0, <1>1, <2>3
  <2>. QED
    BY <1>1, <2>2, <2>4
<1>. QED
  BY <1>1, <1>4, <1>5, <1>6 DEF Book

Put(m, k, b) == [m EXCEPT ![k] = b]
LEMMA MemStep ==
    ASSUME NEW m \in Seq(MemSet), NEW k \in 1 .. Len(m), NEW b \in MemSet
    PROVE  /\ Put(m, k, b) \in Seq(MemSet) /\ Len(Put(m, k, b)) = Len(m)
           /\ But(m, Put(m, k, b), k) /\ Put(m, k, b)[k] = b
BY ExceptSeq DEF But, Put

LEMMA SettleIs ==
    ASSUME Shape, Book(mem, commits), NEW k \in 1 .. Len(mem), NEW kept \in BOOLEAN, NEW q \in Nat,
           Settle(k, kept, q)
    PROVE  /\ Moved(mem, mem') /\ But(mem, mem', k) /\ SettledTo(mem[k], mem'[k], kept, q)
           /\ commits' \in Seq(Nat) /\ Book(mem', commits')
           /\ commits' = commits \/ commits' = Append(commits, k)
<1>. PICK m \in Seq(MemSet) : m = mem
  BY DEF Shape
<1>. PICK a \in MemSet : a = m[k]
  BY SeqIs
<1>. PICK c \in Seq(Nat) : c = commits
  BY DEF Shape
<1>0. a.state \in States /\ a.facts \in SUBSET Fact /\ Book(m, c) /\ Len(m) \in Nat
  BY MemIs, SeqIs
<1>1. CASE a.state \notin {"open", "sealed"}
  <2>1. mem' = m /\ commits' = c
    BY <1>1 DEF Settle
  <2>. QED
    BY <1>0, <1>1, <2>1 DEF Moved, But, SettledTo
<1>2. CASE a.state \in {"open", "sealed"}
  <2>1. PICK st : st = IF ~kept THEN "gone"
                       ELSE IF a.state = "sealed" THEN (IF a.facts = {} THEN "gone" ELSE "committing")
                       ELSE "settled"
    OBVIOUS
  <2>2. st \in States
    BY <2>1 DEF States
  <2>3. PICK b : b = [a EXCEPT !.state = st, !.seq = q]
    OBVIOUS
  <2>4. b \in MemSet /\ b.state = st /\ b.seq = q /\ b.turn = a.turn /\ b.run = a.run /\ b.facts = a.facts
        /\ b.sealed = a.sealed
    BY <2>2, <2>3 DEF MemSet
  <2>5. mem' = [m EXCEPT ![k] = b]
    BY <1>2, <2>1, <2>3 DEF Settle, Accepted
  <2>6. PICK n : n = mem'
    OBVIOUS
  <2>7. n \in Seq(MemSet) /\ Len(n) = Len(m) /\ But(m, n, k) /\ n[k] = b
    <3>1. b \in MemSet
      BY <2>4, Zenon
    <3>2. n = Put(m, k, b)
      BY <2>5, <2>6, Zenon DEF Put
    <3>3. m \in Seq(MemSet) /\ k \in 1 .. Len(m)
      OBVIOUS
    <3>. QED
      BY ONLY <3>1, <3>2, <3>3, MemStep
  <2>8. Moved(m, n)
    BY <2>4, <2>7 DEF Moved, But
  <2>9. SettledTo(a, b, kept, q)
    BY <1>2, <2>1, <2>4 DEF SettledTo
  <2>10. CASE st = "committing"
    <3>1. commits' = Append(c, k)
      BY <1>0, <1>2, <2>1, <2>10 DEF Settle, Queue
    <3>2. a.state # "committing"
      BY <1>2
    <3>3. Append(c, k) \in Seq(Nat) /\ Book(n, Append(c, k))
      BY <1>0, <2>4, <2>7, <2>10, <3>2, BookMore
    <3>. QED
      BY <2>6, <2>7, <2>8, <2>9, <3>1, <3>3
  <2>11. CASE st # "committing"
    <3>1. commits' = c
      BY <1>0, <1>2, <2>1, <2>11 DEF Settle, Queue
    <3>2. \A j \in 1 .. Len(m) : n[j].state = "committing" <=> m[j].state = "committing"
      BY <1>2, <2>4, <2>7, <2>11 DEF But
    <3>3. Book(n, c)
      BY <1>0, <2>7, <3>2, BookSame
    <3>. QED
      BY <2>6, <2>7, <2>8, <2>9, <3>1, <3>3
  <2>. QED
    BY <2>10, <2>11
<1>. QED
  BY <1>1, <1>2

LEMMA SealIs ==
    ASSUME Shape, Book(mem, commits), NEW k \in 1 .. Len(mem), NEW success \in BOOLEAN,
           SealTurn(k, success)
    PROVE  /\ Moved(mem, mem') /\ But(mem, mem', k) /\ SealedTo(mem[k], mem'[k], success)
           /\ commits' \in Seq(Nat) /\ Book(mem', commits')
           /\ commits' = commits \/ commits' = Append(commits, k)
<1>. PICK m \in Seq(MemSet) : m = mem
  BY DEF Shape
<1>. PICK a \in MemSet : a = m[k]
  BY SeqIs
<1>. PICK c \in Seq(Nat) : c = commits
  BY DEF Shape
<1>0. a.state \in States /\ a.facts \in SUBSET Fact /\ Book(m, c) /\ Len(m) \in Nat
  BY MemIs, SeqIs
<1>1. CASE a.state \notin {"open", "settled"}
  <2>1. mem' = m /\ commits' = c
    BY <1>1 DEF SealTurn
  <2>. QED
    BY <1>0, <1>1, <2>1 DEF Moved, But, SealedTo
<1>2. CASE a.state \in {"open", "settled"}
  <2>1. PICK st : st = IF ~success THEN "gone"
                       ELSE IF a.state = "settled" THEN (IF a.facts = {} THEN "gone" ELSE "committing")
                       ELSE "sealed"
    OBVIOUS
  <2>2. st \in States
    BY <2>1 DEF States
  <2>3. PICK b : b = [a EXCEPT !.state = st, !.sealed = success]
    OBVIOUS
  <2>4. b \in MemSet /\ b.state = st /\ b.seq = a.seq /\ b.turn = a.turn /\ b.run = a.run
        /\ b.facts = a.facts
        /\ b.sealed = success
    BY <2>2, <2>3 DEF MemSet
  <2>5. mem' = [m EXCEPT ![k] = b]
    BY <1>2, <2>1, <2>3 DEF SealTurn, Accepted
  <2>6. PICK n : n = mem'
    OBVIOUS
  <2>7. n \in Seq(MemSet) /\ Len(n) = Len(m) /\ But(m, n, k) /\ n[k] = b
    <3>1. b \in MemSet
      BY <2>4, Zenon
    <3>2. n = Put(m, k, b)
      BY <2>5, <2>6, Zenon DEF Put
    <3>3. m \in Seq(MemSet) /\ k \in 1 .. Len(m)
      OBVIOUS
    <3>. QED
      BY ONLY <3>1, <3>2, <3>3, MemStep
  <2>8. Moved(m, n)
    BY <2>4, <2>7 DEF Moved, But
  <2>9. SealedTo(a, b, success)
    BY <1>2, <2>1, <2>4 DEF SealedTo
  <2>10. CASE st = "committing"
    <3>1. commits' = Append(c, k)
      BY <1>0, <1>2, <2>1, <2>10 DEF SealTurn, Queue
    <3>2. a.state # "committing"
      BY <1>2
    <3>3. Append(c, k) \in Seq(Nat) /\ Book(n, Append(c, k))
      BY <1>0, <2>4, <2>7, <2>10, <3>2, BookMore
    <3>. QED
      BY <2>6, <2>7, <2>8, <2>9, <3>1, <3>3
  <2>11. CASE st # "committing"
    <3>1. commits' = c
      BY <1>0, <1>2, <2>1, <2>11 DEF SealTurn, Queue
    <3>2. \A j \in 1 .. Len(m) : n[j].state = "committing" <=> m[j].state = "committing"
      BY <1>2, <2>4, <2>7, <2>11 DEF But
    <3>3. Book(n, c)
      BY <1>0, <2>7, <3>2, BookSame
    <3>. QED
      BY <2>6, <2>7, <2>8, <2>9, <3>1, <3>3
  <2>. QED
    BY <2>10, <2>11
<1>. QED
  BY <1>1, <1>2

LEMMA DiscardIs ==
    ASSUME Shape, Book(mem, commits), NEW k \in 1 .. Len(mem), Discard(k)
    PROVE  /\ Moved(mem, mem') /\ But(mem, mem', k) /\ DiscardedTo(mem[k], mem'[k])
           /\ commits' = commits /\ Book(mem', commits)
<1>. PICK m \in Seq(MemSet) : m = mem
  BY DEF Shape
<1>. PICK a \in MemSet : a = m[k]
  BY SeqIs
<1>0. a.state \in States /\ Book(m, commits) /\ Len(m) \in Nat
  BY MemIs, SeqIs
<1>1. PICK st : st = IF a.state \in {"open", "settled"} THEN "gone" ELSE a.state
  OBVIOUS
<1>2. st \in States
  BY <1>0, <1>1 DEF States
<1>3. PICK b : b = [a EXCEPT !.state = st]
  OBVIOUS
<1>4. b \in MemSet /\ b.state = st /\ b.seq = a.seq /\ b.turn = a.turn /\ b.run = a.run /\ b.facts = a.facts
      /\ b.sealed = a.sealed
  BY <1>2, <1>3 DEF MemSet
<1>5. mem' = [m EXCEPT ![k] = b] /\ commits' = commits
  BY <1>1, <1>3 DEF Discard
<1>6. PICK n : n = mem'
  OBVIOUS
<1>7. n \in Seq(MemSet) /\ Len(n) = Len(m) /\ But(m, n, k) /\ n[k] = b
  <2>1. b \in MemSet
    BY <1>4, Zenon
  <2>2. n = Put(m, k, b)
    BY <1>5, <1>6, Zenon DEF Put
  <2>3. m \in Seq(MemSet) /\ k \in 1 .. Len(m)
    OBVIOUS
  <2>. QED
    BY ONLY <2>1, <2>2, <2>3, MemStep
<1>8. Moved(m, n)
  BY <1>4, <1>7 DEF Moved, But
<1>9. DiscardedTo(a, b)
  BY <1>1, <1>4 DEF DiscardedTo
<1>10. \A j \in 1 .. Len(m) : n[j].state = "committing" <=> m[j].state = "committing"
  BY <1>1, <1>4, <1>7 DEF But
<1>11. Book(n, commits)
  BY <1>0, <1>7, <1>10, BookSame
<1>. QED
  BY <1>5, <1>6, <1>7, <1>8, <1>9, <1>11

\* Every turn moves: to n, from m, as f says.
LEMMA EveryIs ==
    ASSUME NEW m \in Seq(MemSet), NEW n, DOMAIN n = 1 .. Len(m), n = [k \in 1 .. Len(m) |-> n[k]],
           \A k \in 1 .. Len(m) : /\ n[k] \in MemSet /\ n[k].turn = m[k].turn /\ n[k].run = m[k].run
                                  /\ n[k].facts = m[k].facts
    PROVE  Moved(m, n)
<1>. PICK l \in Nat : l = Len(m)
  BY SeqIs
<1>1. n \in [1 .. l -> MemSet]
  <2>1. n = [k \in 1 .. l |-> n[k]] /\ \A k \in 1 .. l : n[k] \in MemSet
    OBVIOUS
  <2>. QED
    BY ONLY <2>1
<1>2. n \in Seq(MemSet) /\ Len(n) = l
  BY ONLY <1>1, l \in Nat, FunctionIs
<1>. QED
  BY <1>2 DEF Moved

LEMMA UnsettledIs ==
    ASSUME Shape, Book(mem, commits), mem' = Unsettled
    PROVE  /\ Moved(mem, mem') /\ Book(mem', commits)
           /\ \A k \in 1 .. Len(mem) : ClosedTo(mem[k], mem'[k])
<1>. PICK m \in Seq(MemSet) : m = mem
  BY DEF Shape
<1>0. Len(m) \in Nat /\ DOMAIN m = 1 .. Len(m) /\ \A k \in 1 .. Len(m) : m[k] \in MemSet
  BY SeqIs
<1>. PICK n : n = mem'
  OBVIOUS
<1>1. n = [k \in 1 .. Len(m) |->
             [m[k] EXCEPT !.state = IF @ \in {"open", "sealed", "settled"} THEN "gone" ELSE @]]
  BY <1>0 DEF Unsettled, Sends
<1>2. DOMAIN n = 1 .. Len(m) /\ n = [k \in 1 .. Len(m) |-> n[k]]
  BY <1>1
<1>3. ASSUME NEW k \in 1 .. Len(m) PROVE n[k] \in MemSet /\ ClosedTo(m[k], n[k])
  <2>. PICK a \in MemSet : a = m[k]
    BY <1>0
  <2>1. a.state \in States
    BY MemIs
  <2>2. PICK st \in States : st = IF a.state \in {"open", "sealed", "settled"} THEN "gone" ELSE a.state
    BY <2>1 DEF States
  <2>3. n[k] = [a EXCEPT !.state = st]
    BY <1>1, <2>2
  <2>. QED
    BY <2>2, <2>3 DEF MemSet, ClosedTo
<1>4. Moved(m, n)
  BY <1>2, <1>3, EveryIs, SMTT(30) DEF ClosedTo
<1>5. \A k \in 1 .. Len(m) : n[k].state = "committing" <=> m[k].state = "committing"
  BY <1>3 DEF ClosedTo
<1>6. Book(n, commits)
  BY <1>4, <1>5, BookSame DEF Moved
<1>. QED
  BY <1>3, <1>4, <1>6

LEMMA GoneIs ==
    ASSUME Shape, Gone
    PROVE  /\ Moved(mem, mem') /\ commits' = <<>> /\ Book(mem', commits')
           /\ \A k \in 1 .. Len(mem) : GoneTo(mem[k], mem'[k]) /\ mem'[k].state \in {"gone", "done"}
<1>. PICK m \in Seq(MemSet) : m = mem
  BY DEF Shape
<1>0. Len(m) \in Nat /\ DOMAIN m = 1 .. Len(m) /\ \A k \in 1 .. Len(m) : m[k] \in MemSet
  BY SeqIs
<1>. PICK n : n = mem'
  OBVIOUS
<1>1. n = [k \in 1 .. Len(m) |-> [m[k] EXCEPT !.state = IF @ = "done" THEN @ ELSE "gone"]] /\ commits' = <<>>
  BY <1>0 DEF Gone, Sends
<1>2. DOMAIN n = 1 .. Len(m) /\ n = [k \in 1 .. Len(m) |-> n[k]]
  BY <1>1
<1>3. ASSUME NEW k \in 1 .. Len(m) PROVE n[k] \in MemSet /\ GoneTo(m[k], n[k])
  <2>. PICK a \in MemSet : a = m[k]
    BY <1>0
  <2>1. a.state \in States
    BY MemIs
  <2>2. PICK st \in States : st = IF a.state = "done" THEN "done" ELSE "gone"
    BY <2>1 DEF States
  <2>3. n[k] = [a EXCEPT !.state = st]
    BY <1>1, <2>2
  <2>. QED
    BY <2>2, <2>3 DEF MemSet, GoneTo
<1>4. Moved(m, n)
  BY <1>2, <1>3, EveryIs DEF GoneTo
<1>5. \A k \in 1 .. Len(n) : n[k].state \in {"gone", "done"}
  BY <1>3, <1>4 DEF GoneTo, Moved
<1>6. Book(n, <<>>)
  BY <1>5 DEF Book
<1>7. \A k \in 1 .. Len(m) : GoneTo(m[k], n[k]) /\ n[k].state \in {"gone", "done"}
  BY <1>3, <1>4, <1>5 DEF Moved
<1>. QED
  BY <1>1, <1>4, <1>6, <1>7


\* The first batch of the chain is done: what becomes of the turn it closes.
Reported(b, m, n, kept, q) ==
    /\ Moved(m, n)
    /\ b.closes = 0 => n = m
    /\ b.closes # 0 =>
          /\ b.closes \in 1 .. Len(m) /\ But(m, n, b.closes)
          /\ SettledTo(m[b.closes], n[b.closes], kept /\ Last(b.lines).how = "ok", q)
LEMMA ClosesIs ==
    ASSUME Shape, Writing, Lines, NEW b \in 1 .. Len(chain)
    PROVE  LET c == chain[b] l == Last(c.lines)
           IN /\ c.closes # 0 <=> l.kind = "end"
              /\ c.closes # 0 => /\ c.closes = l.of /\ c.closes \in 1 .. Len(mem)
                                 /\ l.turn = mem[c.closes].turn /\ l.turn # 0 /\ l.run = mem[c.closes].run
              /\ l.run = run /\ l \in LineSet
              /\ Len(c.lines) \in 1 .. Len(c.lines) /\ l = c.lines[Len(c.lines)]
<1>. PICK c : c = chain[b]
  OBVIOUS
<1>. PICK ls \in Seq(LineSet) : ls = c.lines /\ ls # <<>>
  BY BatchIs
<1>. PICK l : l = Last(ls)
  OBVIOUS
<1>1. Len(ls) \in 1 .. Len(ls) /\ l = ls[Len(ls)] /\ l \in LineSet
  BY SeqIs
<1>2. Known(l, mem, run) /\ l.run = run
  BY <1>1, BatchIs DEF Lines
<1>3. c.closes = IF l.kind = "end" THEN l.of ELSE 0
  BY BatchIs DEF Batch
<1>4. l.kind = "end" => l.of # 0
  BY <1>2 DEF Known, OfTurns
<1>. QED
  BY <1>1, <1>2, <1>3, <1>4 DEF Known

LEMMA BatchDoneIs ==
    ASSUME Shape, Book(mem, commits), Writing, Lines, chain # <<>>, NEW kept \in BOOLEAN, NEW q \in Nat,
           BatchDone(kept, q)
    PROVE  /\ chain' = Tail(chain) /\ io' = "idle" /\ waits' = IF waits = 0 THEN 0 ELSE waits - 1
           /\ Reported(chain[1], mem, mem', kept, q)
           /\ commits' \in Seq(Nat) /\ Book(mem', commits')
           /\ commits' = commits \/ commits' = Append(commits, chain[1].closes)
<1>1. 1 \in 1 .. Len(chain) /\ Head(chain) = chain[1]
  BY SeqIs DEF Shape
<1>. PICK b : b = chain[1]
  OBVIOUS
<1>2. chain' = Tail(chain) /\ io' = "idle" /\ waits' = IF waits = 0 THEN 0 ELSE waits - 1
  BY DEF BatchDone
<1>3. CASE b.closes = 0
  <2>1. mem' = mem /\ commits' = commits
    BY <1>1, <1>3 DEF BatchDone
  <2>2. mem \in Seq(MemSet) /\ commits \in Seq(Nat)
    BY DEF Shape
  <2>. QED
    BY <1>2, <1>3, <2>1, <2>2 DEF Reported, Moved
<1>4. CASE b.closes # 0
  <2>1. b.closes \in 1 .. Len(mem)
    BY <1>1, <1>4, ClosesIs
  <2>2. PICK k \in 1 .. Len(mem) : k = b.closes
    BY <2>1
  <2>3. PICK s \in BOOLEAN : s = (kept /\ Last(b.lines).how = "ok")
    OBVIOUS
  <2>4. Settle(k, s, q)
    BY <1>1, <1>4, <2>2, <2>3 DEF BatchDone
  <2>5. /\ Moved(mem, mem') /\ But(mem, mem', k) /\ SettledTo(mem[k], mem'[k], s, q)
        /\ commits' \in Seq(Nat) /\ Book(mem', commits')
        /\ commits' = commits \/ commits' = Append(commits, k)
    BY <2>4, SettleIs
  <2>. QED
    BY <1>2, <1>4, <2>2, <2>3, <2>5 DEF Reported
<1>. QED
  BY <1>3, <1>4

-----------------------------------------------------------------------------
(* What the steps do to the chain of batches *)

\* One batch more at its end, or one less in front.
More(c, d, b) ==
    /\ d \in Seq(BatchSet) /\ Len(d) = Len(c) + 1 /\ d[Len(d)] = b
    /\ \A x \in 1 .. Len(c) : d[x] = c[x]
Less(c, d) ==
    /\ d \in Seq(BatchSet) /\ Len(d) = Len(c) - 1
    /\ \A x \in 1 .. Len(d) : d[x] = c[x + 1]

\* A line of the process r, and batches of one and of two.
IsLine(l, kind, k, n, how, r) ==
    l \in LineSet /\ l.kind = kind /\ l.of = k /\ l.turn = n /\ l.how = how /\ l.run = r
OneLine(b, kind, k, n, how, r) ==
    /\ b \in BatchSet /\ Len(b.lines) = 1 /\ IsLine(b.lines[1], kind, k, n, how, r)
    /\ b.closes = IF kind = "end" THEN k ELSE 0
TwoLines(b, k, n, how, r) ==
    /\ b \in BatchSet /\ Len(b.lines) = 2 /\ b.closes = k
    /\ IsLine(b.lines[1], "event", k, n, None, r) /\ IsLine(b.lines[2], "end", k, n, how, r)

LEMMA OneLineIs ==
    ASSUME NEW l \in LineSet, NEW k \in Nat, k = IF l.kind = "end" THEN l.of ELSE 0
    PROVE  OneLine([lines |-> <<l>>, closes |-> k], l.kind, l.of, l.turn, l.how, l.run)
<1>. PICK ls : ls = <<l>>
  OBVIOUS
<1>1. ls \in Seq(LineSet) /\ Len(ls) = 1 /\ ls[1] = l
  OBVIOUS
<1>. PICK b : b = [lines |-> ls, closes |-> k]
  OBVIOUS
<1>2. b \in BatchSet /\ b.lines = ls /\ b.closes = k
  BY <1>1 DEF BatchSet
<1>. QED
  BY <1>1, <1>2 DEF OneLine, IsLine

LEMMA TwoLinesAre ==
    ASSUME NEW e \in LineSet, NEW l \in LineSet, e.kind = "event", e.how = None, l.kind = "end",
           e.of = l.of, e.turn = l.turn, e.run = l.run
    PROVE  TwoLines([lines |-> Append(<<e>>, l), closes |-> l.of], l.of, l.turn, l.how, l.run)
<1>. PICK ls : ls = Append(<<e>>, l)
  OBVIOUS
<1>1. ls \in Seq(LineSet) /\ Len(ls) = 2 /\ ls[1] = e /\ ls[2] = l /\ l.of \in Nat
  BY LineIs
<1>. PICK b : b = [lines |-> ls, closes |-> l.of]
  OBVIOUS
<1>2. b \in BatchSet /\ b.lines = ls /\ b.closes = l.of
  BY <1>1 DEF BatchSet
<1>. QED
  BY <1>1, <1>2 DEF TwoLines, IsLine

\* All that is in such batches.
LEMMA OneLineHas ==
    ASSUME NEW b, NEW kind \in Kinds, NEW k \in Nat, NEW n, NEW how, NEW r, OneLine(b, kind, k, n, how, r)
    PROVE  /\ b \in BatchSet /\ b.lines # <<>> /\ Last(b.lines) = b.lines[1]
           /\ \A x \in 1 .. Len(b.lines) : x = 1 /\ IsLine(b.lines[x], kind, k, n, how, r)
           /\ kind \in OfTurns \cup {"note"} => Batch(b, r)
<1>. PICK ls : ls = b.lines
  OBVIOUS
<1>1. ls \in Seq(LineSet) /\ Len(ls) = 1 /\ IsLine(ls[1], kind, k, n, how, r)
  BY DEF OneLine, BatchSet
<1>2. ls # <<>> /\ Last(ls) = ls[1]
  BY <1>1, SeqIs
<1>3. \A x \in 1 .. Len(ls) : x = 1
  BY <1>1
<1>4. kind \in OfTurns \cup {"note"} => Batch(b, r)
  BY <1>1, <1>2, <1>3 DEF Batch, OneLine, IsLine
<1>. QED
  BY <1>1, <1>2, <1>3, <1>4 DEF OneLine
LEMMA TwoLinesHave ==
    ASSUME NEW b, NEW k, NEW n, NEW how, NEW r, TwoLines(b, k, n, how, r)
    PROVE  /\ b \in BatchSet /\ b.lines # <<>> /\ Last(b.lines) = b.lines[2]
           /\ \A x \in 1 .. Len(b.lines) : \/ x = 1 /\ IsLine(b.lines[x], "event", k, n, None, r)
                                           \/ x = 2 /\ IsLine(b.lines[x], "end", k, n, how, r)
           /\ Batch(b, r)
<1>. PICK ls : ls = b.lines
  OBVIOUS
<1>1. ls \in Seq(LineSet) /\ Len(ls) = 2
  BY DEF TwoLines, BatchSet
<1>5. IsLine(ls[1], "event", k, n, None, r) /\ IsLine(ls[2], "end", k, n, how, r) /\ b.closes = k
  BY DEF TwoLines
<1>2. ls # <<>> /\ Last(ls) = ls[2]
  BY <1>1, SeqIs
<1>3. \A x \in 1 .. Len(ls) : x = 1 \/ x = 2
  BY <1>1
<1>4. Batch(b, r)
  BY <1>1, <1>2, <1>3, <1>5 DEF Batch, IsLine, OfTurns
<1>. QED
  BY <1>1, <1>2, <1>3, <1>4, <1>5 DEF TwoLines

LEMMA MoreIs ==
    ASSUME NEW c \in Seq(BatchSet), NEW b \in BatchSet
    PROVE  More(c, Append(c, b), b)
<1>1. Len(c) \in Nat
  BY SeqIs
<1>. PICK d : d = Append(c, b)
  OBVIOUS
<1>2. d \in Seq(BatchSet) /\ Len(d) = Len(c) + 1 /\ (\A x \in 1 .. Len(c) : d[x] = c[x]) /\ d[Len(c) + 1] = b
  BY <1>1
<1>. QED
  BY <1>2 DEF More
LEMMA LessIs ==
    ASSUME NEW c \in Seq(BatchSet), c # <<>>
    PROVE  Less(c, Tail(c))
<1>. PICK d : d = Tail(c)
  OBVIOUS
<1>2. d \in Seq(BatchSet) /\ Len(d) = Len(c) - 1 /\ (\A x \in 1 .. Len(d) : d[x] = c[x + 1])
  BY HeadTailProperties
<1>. QED
  BY <1>2 DEF Less

\* Records are flushed as a batch.
LEMMA FlushIs ==
    ASSUME Shape, NEW kind \in Kinds, NEW k \in Nat, NEW n \in Nat, NEW how \in Hows
    PROVE  \E b : /\ OneLine(b, kind, k, n, how, run)
                  /\ More(chain, Flushed(<<Line(kind, k, n, how)>>, IF kind = "end" THEN k ELSE 0), b)
<1>. PICK l : l = Line(kind, k, n, how)
  OBVIOUS
<1>1. l \in LineSet /\ l.kind = kind /\ l.of = k /\ l.turn = n /\ l.how = how /\ l.run = run
  BY LinesAre
<1>. PICK c \in Nat : c = IF kind = "end" THEN k ELSE 0
  OBVIOUS
<1>. PICK b : b = [lines |-> <<l>>, closes |-> c]
  OBVIOUS
<1>2. OneLine(b, kind, k, n, how, run)
  BY <1>1, OneLineIs
<1>3. <<l>> # <<>>
  OBVIOUS
<1>4. Flushed(<<l>>, c) = Append(chain, b)
  BY <1>3 DEF Flushed
<1>5. More(chain, Append(chain, b), b)
  BY <1>2, MoreIs DEF Shape, OneLine
<1>. QED
  BY <1>2, <1>4, <1>5

\* The turn t is there behind the turns m.
NewTurn(m, n, on, t, r) ==
    /\ n \in Seq(MemSet) /\ Len(n) = Len(m) + 1
    /\ \A k \in 1 .. Len(m) : n[k] = m[k]
    /\ n[Len(n)].state = (IF on THEN "open" ELSE "gone") /\ n[Len(n)].turn = t /\ n[Len(n)].run = r
    /\ ~n[Len(n)].sealed /\ n[Len(n)].facts = {}

\* What can be added to it.
Added(b) ==
    \/ phase = "up" /\ turn.at = "idle" /\ rec.state = "on" /\ OneLine(b, "note", 0, rec.turns, None, run)
    \/ /\ phase = "up" /\ turn.at = "idle" /\ rec.state = "on"
       /\ NewTurn(mem, mem', TRUE, rec.turns + 1, run) /\ turn'.at = "barrier" /\ turn'.of = Len(mem) + 1
       /\ \E kind \in Opening : OneLine(b, kind, Len(mem) + 1, rec.turns + 1, None, run)
    \/ turn.at = "streaming" /\ turn.n # 0 /\ OneLine(b, "event", turn.of, turn.n, None, run)
    \/ /\ turn.at = "streaming" /\ turn.n # 0 /\ rec.state = "on"
       /\ turn'.at \in {"sealing", "unwinding"} /\ turn'.of = turn.of /\ turn'.how \in Hows
       /\ UNCHANGED <<mem, catalogue, rec>>
       /\ \/ OneLine(b, "end", turn.of, turn.n, turn'.how, run)
          \/ TwoLines(b, turn.of, turn.n, turn'.how, run)

LEMMA NoteIs ==
    ASSUME Shape, Note
    PROVE  \E b : More(chain, chain', b) /\ Added(b)
<1>1. "note" \in Kinds /\ None \in Hows /\ 0 \in Nat /\ rec.turns \in Nat
  BY DEF Shape, RecSet, Kinds, Hows
<1>2. PICK b : /\ OneLine(b, "note", 0, rec.turns, None, run)
               /\ More(chain,
                        Flushed(<<Line("note", 0, rec.turns, None)>>, IF "note" = "end" THEN 0 ELSE 0), b)
  BY <1>1, FlushIs
<1>3. chain' = Flushed(<<Line("note", 0, rec.turns, None)>>, 0)
      /\ phase = "up" /\ turn.at = "idle" /\ rec.state = "on"
  BY DEF Note
<1>. QED
  BY <1>2, <1>3 DEF Added

LEMMA BeginIs ==
    ASSUME Shape, Book(mem, commits), NEW prompt \in BOOLEAN, NEW captured \in BOOLEAN,
           Begin(prompt, captured)
    PROVE  /\ phase = "up" /\ turn.at = "idle" /\ commits' = commits /\ Book(mem', commits)
           /\ NewTurn(mem, mem', rec.state = "on", IF rec.state = "on" THEN rec.turns + 1 ELSE 0, run)
           /\ turn' \in TurnSet /\ turn'.at = (IF rec.state = "on" THEN "barrier" ELSE "streaming")
           /\ turn'.of = Len(mem) + 1 /\ turn'.n = (IF rec.state = "on" THEN rec.turns + 1 ELSE 0)
           /\ rec' = (IF rec.state = "on" THEN [rec EXCEPT !.turns = rec.turns + 1] ELSE rec)
           /\ rec.state # "on" => chain' = chain
           /\ rec.state = "on" =>
                 \E b : /\ More(chain, chain', b)
                        /\ \E kind \in Opening : OneLine(b, kind, Len(mem) + 1, rec.turns + 1, None, run)
           /\ rec.state = "on" => \E b : More(chain, chain', b) /\ Added(b)
<1>. PICK m \in Seq(MemSet) : m = mem
  BY DEF Shape
<1>. PICK on \in BOOLEAN : on = (rec.state = "on")
  OBVIOUS
<1>0. Len(m) \in Nat /\ rec.turns \in Nat /\ run \in Nat
  BY SeqIs DEF Shape, RecSet
<1>. PICK k \in Nat : k = Len(m) + 1
  BY <1>0
<1>. PICK t \in Nat : t = IF on THEN rec.turns + 1 ELSE 0
  BY <1>0
<1>1. PICK b : b = [Blank EXCEPT !.state = IF on THEN "open" ELSE "gone", !.turn = t, !.run = run]
  OBVIOUS
<1>2. b \in MemSet /\ b.state = (IF on THEN "open" ELSE "gone") /\ b.turn = t /\ b.run = run
      /\ ~b.sealed /\ b.facts = {}
  BY <1>0, <1>1 DEF Blank, MemSet, States
<1>3. PICK n : n = mem'
  OBVIOUS
<1>4. n = Append(m, b)
  <2>1. mem' = Append(m, b)
    BY <1>1 DEF Begin
  <2>. QED
    BY <2>1, <1>3, Zenon
<1>5. n \in Seq(MemSet) /\ Len(n) = Len(m) + 1 /\ n[Len(m) + 1] = b /\ \A j \in 1 .. Len(m) : n[j] = m[j]
  BY <1>0, <1>2, <1>4
<1>6. NewTurn(m, n, on, t, run)
  BY <1>2, <1>5 DEF NewTurn
<1>7. Book(n, commits)
  <2>1. Book(m, commits)
    BY Zenon
  <2>2. \A j \in 1 .. Len(n) : j \in 1 .. Len(m) \/ j = Len(m) + 1
    BY <1>0, <1>5
  <2>3. \A j \in 1 .. Len(m) : j \in 1 .. Len(n)
    BY <1>0, <1>5
  <2>4. b.state # "committing"
    BY <1>2
  <2>. QED
    BY <1>5, <2>1, <2>2, <2>3, <2>4 DEF Book
<1>8. phase = "up" /\ turn.at = "idle" /\ commits' = commits
  BY DEF Begin
<1>9. turn' = [NoTurn EXCEPT !.at = IF on THEN "barrier" ELSE "streaming", !.of = k, !.n = t,
        !.captured = captured]
  BY DEF Begin
<1>10. /\ turn' \in TurnSet /\ turn'.at = (IF on THEN "barrier" ELSE "streaming")
       /\ turn'.of = k /\ turn'.n = t
  BY <1>9 DEF NoTurn, TurnSet, Ats, Hows
<1>11. rec' = (IF on THEN [rec EXCEPT !.turns = rec.turns + 1] ELSE rec)
  BY DEF Begin
<1>12. ~on => chain' = chain
  BY DEF Begin
<1>13. ASSUME on
       PROVE  \E c : /\ More(chain, chain', c)
                     /\ \E kind \in Opening : OneLine(c, kind, Len(mem) + 1, rec.turns + 1, None, run)
  <2>1. PICK kind \in Opening : kind = IF prompt THEN "input" ELSE "wake"
    BY DEF Opening
  <2>2. chain' = Flushed(<<Line(kind, k, t, None)>>, 0)
    BY <1>13, <2>1 DEF Begin
  <2>3. kind \in Kinds /\ kind # "end" /\ None \in Hows
    BY DEF Opening, Kinds, OfTurns, Hows
  <2>4. PICK c : OneLine(c, kind, k, t, None, run)
                 /\ More(chain, Flushed(<<Line(kind, k, t, None)>>, IF kind = "end" THEN k ELSE 0), c)
    BY <2>3, FlushIs
  <2>. QED
    BY <1>13, <2>2, <2>3, <2>4
<1>14. ASSUME on PROVE \E c : More(chain, chain', c) /\ Added(c)
  <2>1. NewTurn(mem, mem', TRUE, rec.turns + 1, run)
    BY <1>3, <1>6, <1>14
  <2>. QED
    BY <1>8, <1>10, <1>13, <1>14, <2>1 DEF Added
<1>. QED
  BY <1>3, <1>6, <1>7, <1>8, <1>10, <1>11, <1>12, <1>13, <1>14

\* What is pending is an event of the turn that streams.
LEMMA PendingIs ==
    ASSUME Shape, Sending, pending # <<>>
    PROVE  /\ turn.at = "streaming" /\ turn.n # 0 /\ pending = <<Line("event", turn.of, turn.n, None)>>
           /\ \E b : /\ OneLine(b, "event", turn.of, turn.n, None, run)
                     /\ More(chain, Flushed(pending, 0), b)
<1>1. turn.at = "streaming" /\ turn.n # 0 /\ pending = <<Line("event", turn.of, turn.n, None)>>
  BY DEF Sending
<1>2. "event" \in Kinds /\ "event" # "end" /\ None \in Hows /\ turn.of \in Nat /\ turn.n \in Nat
  BY DEF Shape, TurnSet, Kinds, OfTurns, Hows
<1>3. PICK b : /\ OneLine(b, "event", turn.of, turn.n, None, run)
               /\ More(chain, Flushed(<<Line("event", turn.of, turn.n, None)>>,
                                      IF "event" = "end" THEN turn.of ELSE 0), b)
  BY <1>2, FlushIs
<1>. QED
  BY <1>1, <1>2, <1>3

LEMMA StreamEndsIs ==
    ASSUME Shape, Sending, NEW how \in Hows, NEW natural \in BOOLEAN, StreamEnds(how, natural)
    PROVE  /\ turn.at = "streaming" /\ turn' \in TurnSet
           /\ turn'.at = (IF natural THEN "sealing" ELSE "unwinding") /\ turn'.of = turn.of
                /\ turn'.n = turn.n
           /\ turn'.how = how
           /\ \/ chain' = chain /\ (turn.n = 0 \/ rec.state # "on")
              \/ /\ turn.n # 0 /\ rec.state # "on"
                 /\ \E b : More(chain, chain', b) /\ OneLine(b, "event", turn.of, turn.n, None, run)
              \/ /\ turn.n # 0 /\ rec.state = "on"
                 /\ \E b : /\ More(chain, chain', b)
                           /\ \/ OneLine(b, "end", turn.of, turn.n, how, run)
                              \/ TwoLines(b, turn.of, turn.n, how, run)
<1>1. turn.at = "streaming" /\ turn \in TurnSet /\ turn.of \in Nat /\ turn.n \in Nat
  BY DEF StreamEnds, Shape, TurnSet
<1>2. turn' = [turn EXCEPT !.at = IF natural THEN "sealing" ELSE "unwinding", !.how = how,
        !.natural = natural]
  BY DEF StreamEnds
<1>3. /\ turn' \in TurnSet /\ turn'.at = (IF natural THEN "sealing" ELSE "unwinding") /\ turn'.of = turn.of
      /\ turn'.n = turn.n /\ turn'.how = how
  BY <1>1, <1>2 DEF TurnSet, Ats
<1>4. CASE turn.n = 0
  <2>1. chain' = chain
    BY <1>4 DEF StreamEnds
  <2>. QED
    BY <1>1, <1>3, <1>4, <2>1
<1>5. CASE turn.n # 0 /\ rec.state # "on"
  <2>1. chain' = Flushed(pending, 0)
    BY <1>5 DEF StreamEnds
  <2>2. CASE pending = <<>>
    BY <1>1, <1>3, <1>5, <2>1, <2>2 DEF Flushed
  <2>3. CASE pending # <<>>
    BY <1>1, <1>3, <1>5, <2>1, <2>3, PendingIs
  <2>. QED
    BY <2>2, <2>3
<1>6. CASE turn.n # 0 /\ rec.state = "on"
  <2>0. "end" \in Kinds /\ "event" \in Kinds /\ None \in Hows
    BY DEF Kinds, OfTurns, Hows
  <2>. PICK l : l = Line("end", turn.of, turn.n, how)
    OBVIOUS
  <2>1. chain' = Flushed(Append(pending, l), turn.of)
    BY <1>6 DEF StreamEnds
  <2>2. l \in LineSet /\ l.kind = "end" /\ l.of = turn.of /\ l.turn = turn.n /\ l.how = how /\ l.run = run
    BY <1>1, <2>0, LinesAre
  <2>3. CASE pending = <<>>
    <3>1. Append(pending, l) = <<l>>
      BY <2>3
    <3>2. PICK b : /\ OneLine(b, "end", turn.of, turn.n, how, run)
                   /\ More(chain, Flushed(<<l>>, IF "end" = "end" THEN turn.of ELSE 0), b)
      BY <1>1, <2>0, FlushIs
    <3>. QED
      BY <1>1, <1>3, <1>6, <2>1, <3>1, <3>2
  <2>4. CASE pending # <<>>
    <3>. PICK e : e = Line("event", turn.of, turn.n, None)
      OBVIOUS
    <3>1. pending = <<e>>
      BY <2>4, PendingIs
    <3>2. e \in LineSet /\ e.kind = "event" /\ e.of = turn.of /\ e.turn = turn.n /\ e.how = None
            /\ e.run = run
      BY <1>1, <2>0, LinesAre
    <3>. PICK ls : ls = Append(<<e>>, l)
      OBVIOUS
    <3>. PICK b : b = [lines |-> ls, closes |-> l.of]
      OBVIOUS
    <3>3. TwoLines(b, turn.of, turn.n, how, run)
      BY <2>2, <3>2, TwoLinesAre
    <3>4. ls # <<>>
      <4>1. Len(ls) = 2 /\ ls \in Seq(LineSet)
        BY <2>2, <3>2
      <4>. QED
        BY <4>1, SeqIs
    <3>5. chain' = Append(chain, b)
      BY <2>1, <2>2, <3>1, <3>4 DEF Flushed
    <3>6. More(chain, Append(chain, b), b)
      BY <3>3, MoreIs DEF Shape, TwoLines
    <3>. QED
      BY <1>1, <1>3, <1>6, <3>3, <3>5, <3>6
  <2>. QED
    BY <2>3, <2>4
<1>. QED
  BY <1>4, <1>5, <1>6

LEMMA CloseIs ==
    ASSUME Shape, Sending, NEW retire \in BOOLEAN, Close(retire)
    PROVE  \/ pending = <<>> /\ chain' = chain
           \/ /\ pending # <<>> /\ turn.at = "streaming" /\ turn.n # 0
              /\ \E b : More(chain, chain', b) /\ OneLine(b, "event", turn.of, turn.n, None, run)
<1>1. chain' = Flushed(pending, 0)
  BY DEF Close
<1>2. CASE pending = <<>>
  BY <1>1, <1>2 DEF Flushed
<1>3. CASE pending # <<>>
  BY <1>1, <1>3, PendingIs
<1>. QED
  BY <1>2, <1>3

-----------------------------------------------------------------------------
(* What any step does *)

LEMMA LeftIs ==
    ASSUME Shape
    PROVE  /\ \A o \in left.opens : o[1] \in BOOLEAN /\ o[2] \in BOOLEAN
           /\ \A o \in left.ends : o[1] \in {"ok", "refusal", "other"} /\ o[1] \in Hows /\ o[2] \in BOOLEAN
<1>1. left.opens \subseteq BOOLEAN \X BOOLEAN /\ left.ends \subseteq Outcomes
  BY DEF Shape, LeftSet
<1>2. ASSUME NEW o \in Outcomes PROVE o[1] \in {"ok", "refusal", "other"} /\ o[2] \in BOOLEAN
  <2>1. PICK t \in BOOLEAN, f \in BOOLEAN : t = TRUE /\ f = FALSE
    BY Zenon
  <2>2. o \in {<<"ok", t>>, <<"refusal", t>>, <<"other", t>>, <<"ok", f>>, <<"other", f>>}
    BY <2>1, Zenon DEF Outcomes
  <2>3. o \in {"ok", "refusal", "other"} \X BOOLEAN
    BY ONLY <2>2, t \in BOOLEAN, f \in BOOLEAN
  <2>. QED
    BY <2>3
<1>. QED
  BY <1>1, <1>2 DEF Hows

\* The send() that runs is the last turn.
LEMMA OfIs ==
    ASSUME Shape, Sending, turn.at # "idle"
    PROVE  /\ turn.of \in 1 .. Len(mem) /\ turn.of = Len(mem) /\ turn.n = mem[turn.of].turn
           /\ mem[turn.of].run = run /\ mem[turn.of] \in MemSet /\ phase \notin {"starting", "down"}
<1>1. mem \in Seq(MemSet)
  BY DEF Shape
<1>2. Len(mem) \in Nat /\ turn.of = Len(mem) /\ turn.of # 0
  BY <1>1, SeqIs DEF Sending
<1>3. turn.of \in 1 .. Len(mem)
  BY <1>2
<1>. QED
  BY <1>1, <1>3, SeqIs DEF Sending

\* The turns n are the turns m, further on, and perhaps more.
Grown(m, n) ==
    /\ n \in Seq(MemSet) /\ Len(m) <= Len(n)
    /\ \A k \in 1 .. Len(m) : k \in 1 .. Len(n) /\ n[k].turn = m[k].turn /\ n[k].run = m[k].run
LEMMA MovedGrown ==
    ASSUME NEW m \in Seq(MemSet), NEW n, Moved(m, n)
    PROVE  Grown(m, n) /\ Len(n) = Len(m)
BY SeqIs DEF Moved, Grown

LEMMA StageIs ==
    ASSUME Shape, Sending, NEW f \in Fact, Stage(f)
    PROVE  /\ turn.of \in 1 .. Len(mem) /\ mem[turn.of].state = "open" /\ But(mem, mem', turn.of)
           /\ mem' \in Seq(MemSet) /\ Len(mem') = Len(mem)
           /\ mem'[turn.of] = [mem[turn.of] EXCEPT !.facts = mem[turn.of].facts \cup {f}]
<1>. PICK m \in Seq(MemSet) : m = mem
  BY DEF Shape
<1>1. turn.at # "idle"
  BY DEF Stage
<1>2. PICK k \in 1 .. Len(m) : k = turn.of
  BY <1>1, OfIs
<1>. PICK a \in MemSet : a = m[k]
  BY SeqIs
<1>. PICK b : b = [a EXCEPT !.facts = a.facts \cup {f}]
  OBVIOUS
<1>3. b \in MemSet
  BY MemIs DEF MemSet
<1>4. mem' = Put(m, k, b) /\ a.state = "open"
  BY <1>2 DEF Stage, Put
<1>. PICK n : n = Put(m, k, b)
  OBVIOUS
<1>5. n \in Seq(MemSet) /\ Len(n) = Len(m) /\ But(m, n, k) /\ n[k] = b
  <2>1. n = Put(m, k, b) /\ b \in MemSet /\ m \in Seq(MemSet) /\ k \in 1 .. Len(m)
    BY <1>3
  <2>2. Put(m, k, b) \in Seq(MemSet) /\ Len(Put(m, k, b)) = Len(m)
        /\ But(m, Put(m, k, b), k) /\ Put(m, k, b)[k] = b
    BY ONLY <2>1, MemStep
  <2>. QED
    BY ONLY <2>1, <2>2
<1>. QED
  BY <1>2, <1>4, <1>5

LEMMA WritesIs ==
    ASSUME Shape, Ledger, CommitWrites
    PROVE  /\ commit.of \in 1 .. Len(mem) /\ commit.of = commits[1] /\ mem[commit.of].state = "committing"
           /\ mem' \in Seq(MemSet) /\ Len(mem') = Len(mem) /\ But(mem, mem', commit.of)
           /\ mem'[commit.of] = [mem[commit.of] EXCEPT !.state = "done"]
           /\ commits' = Tail(commits) /\ commits' \in Seq(Nat) /\ Book(mem', commits') /\ commit' = Idle
<1>. PICK m \in Seq(MemSet) : m = mem
  BY DEF Shape
<1>. PICK c \in Seq(Nat) : c = commits
  BY DEF Shape
<1>1. c # <<>> /\ commit.of = c[1] /\ commit' = Idle /\ commits' = Tail(c) /\ Book(m, c)
  BY DEF CommitWrites, Ledger
<1>2. 1 \in 1 .. Len(c)
  BY <1>1, SeqIs
<1>3. PICK k \in 1 .. Len(m) : k = c[1] /\ m[k].state = "committing"
  BY <1>1, <1>2 DEF Book
<1>. PICK a \in MemSet : a = m[k]
  BY SeqIs
<1>. PICK b : b = [a EXCEPT !.state = "done"]
  OBVIOUS
<1>4. b \in MemSet /\ b.state = "done"
  BY MemIs DEF MemSet, States
<1>5. mem' = Put(m, k, b)
  BY <1>1, <1>3 DEF CommitWrites, Put
<1>. PICK n : n = Put(m, k, b)
  OBVIOUS
<1>6. n \in Seq(MemSet) /\ Len(n) = Len(m) /\ But(m, n, k) /\ n[k] = b
  <2>1. n = Put(m, k, b) /\ b \in MemSet /\ m \in Seq(MemSet) /\ k \in 1 .. Len(m)
    BY <1>4
  <2>2. Put(m, k, b) \in Seq(MemSet) /\ Len(Put(m, k, b)) = Len(m)
        /\ But(m, Put(m, k, b), k) /\ Put(m, k, b)[k] = b
    BY ONLY <2>1, MemStep
  <2>. QED
    BY ONLY <2>1, <2>2
<1>7. Tail(c) \in Seq(Nat) /\ Book(n, Tail(c))
  <2>1. But(m, n, c[1]) /\ n[c[1]].state # "committing"
    BY <1>3, <1>4, <1>6
  <2>. QED
    BY <1>1, <1>6, <2>1, BookLess
<1>. QED
  BY <1>1, <1>3, <1>5, <1>6, <1>7


\* The steps that may be done with the first batch.
LEMMA HeadDone ==
    ASSUME Shape, Writing, SkipBatch \/ OpenFails \/ WriteSucceeds \/ WriteFails \/ StopWritten \/ StopFails
    PROVE  /\ chain # <<>> /\ phase # "down"
           /\ \/ WriteSucceeds /\ io' = "stopping" /\ UNCHANGED <<chain, waits, mem, commits>>
              \/ \E kept \in BOOLEAN, q \in Nat :
                    /\ BatchDone(kept, q)
                    /\ kept => \/ WriteSucceeds /\ q = rec.seq + (Len(Payload) - 1)
                               \/ StopWritten /\ q = rec.seq - 1
<1>1. chain # <<>> /\ phase # "down"
  BY DEF SkipBatch, OpenFails, WriteSucceeds, WriteFails, StopWritten, StopFails, Running
<1>2. CASE SkipBatch \/ OpenFails \/ WriteFails \/ StopFails
  <2>1. BatchDone(FALSE, 0)
    BY <1>2 DEF SkipBatch, OpenFails, WriteFails, StopFails
  <2>. QED
    BY <1>1, <2>1
<1>3. CASE WriteSucceeds
  <2>1. Len(Payload) \in Nat /\ Len(Payload) > 0 /\ rec.seq \in Nat
    BY <1>1, PayloadIs, SeqIs DEF Sent, Shape, RecSet
  <2>2. rec.seq + (Len(Payload) - 1) \in Nat /\ rec.seq + Len(Payload) - 1 = rec.seq + (Len(Payload) - 1)
    BY <2>1
  <2>3. PICK q \in Nat : q = rec.seq + (Len(Payload) - 1)
    BY <2>2
  <2>4. (io' = "stopping" /\ UNCHANGED <<chain, waits, mem, commits>>) \/ BatchDone(TRUE, q)
    BY <1>3, <2>2, <2>3 DEF WriteSucceeds
  <2>. QED
    BY <1>1, <1>3, <2>3, <2>4
<1>4. CASE StopWritten
  <2>1. rec.seq - 1 \in Nat
    <3>1. io = "stopping"
      BY <1>4 DEF StopWritten
    <3>. QED
      BY <3>1 DEF Writing, Shape, RecSet
  <2>2. PICK q \in Nat : q = rec.seq - 1
    BY <2>1
  <2>3. BatchDone(TRUE, q)
    BY <1>4, <2>2 DEF StopWritten
  <2>. QED
    BY <1>1, <1>4, <2>2, <2>3
<1>. QED
  BY <1>2, <1>3, <1>4

LEMMA ButGrown ==
    ASSUME NEW m \in Seq(MemSet), NEW n \in Seq(MemSet), NEW k \in 1 .. Len(m), Len(n) = Len(m), But(m, n, k),
           n[k].turn = m[k].turn, n[k].run = m[k].run
    PROVE  Grown(m, n)
<1>1. Len(m) \in Nat
  BY SeqIs
<1>2. \A j \in 1 .. Len(m) : n[j].turn = m[j].turn /\ n[j].run = m[j].run
  BY DEF But
<1>. QED
  BY <1>1, <1>2 DEF Grown

\* What becomes of the turn k.
TurnMoves(k) ==
    \/ mem'[k] = mem[k]
    \/ /\ chain # <<>> /\ k = chain[1].closes /\ chain' = Tail(chain) /\ io' = "idle"
       /\ \E kept \in BOOLEAN, q \in Nat :
             /\ SettledTo(mem[k], mem'[k], kept /\ Last(chain[1].lines).how = "ok", q)
             /\ kept => \/ WriteSucceeds /\ q = rec.seq + (Len(Payload) - 1)
                        \/ StopWritten /\ q = rec.seq - 1
    \/ Seal /\ k = turn.of /\ SealedTo(mem[k], mem'[k], turn.how = "ok" /\ rec.state = "on")
    \/ /\ (BarrierPasses /\ rec.state # "on") \/ BarrierTimesOut \/ Unwind
       /\ k = turn.of /\ DiscardedTo(mem[k], mem'[k])
    \/ (Drained \/ Close(TRUE)) /\ ClosedTo(mem[k], mem'[k])
    \/ (Leave \/ Crash) /\ GoneTo(mem[k], mem'[k])
    \/ /\ \E f \in Fact : Stage(f)
       /\ k = turn.of /\ mem[k].state = "open" /\ mem'[k] = [mem[k] EXCEPT !.facts = mem'[k].facts]
    \/ CommitWrites /\ k = commit.of /\ mem[k].state = "committing"
         /\ mem'[k] = [mem[k] EXCEPT !.state = "done"]

LEMMA StepMem ==
    ASSUME IInv, Next
    PROVE  /\ Grown(mem, mem') /\ commits' \in Seq(Nat) /\ Book(mem', commits')
           /\ \A k \in 1 .. Len(mem) : TurnMoves(k)
           /\ Len(mem') = Len(mem) \/ \E o \in left.opens : Begin(o[1], o[2])
<1>. PICK m \in Seq(MemSet) : m = mem
  BY DEF IInv, Shape
<1>. PICK c \in Seq(Nat) : c = commits
  BY DEF IInv, Shape
<1>0. Book(m, c) /\ Grown(m, m)
  BY SeqIs DEF IInv, Ledger, Grown
<1>1. CASE UNCHANGED <<mem, commits>>
  BY <1>0, <1>1 DEF TurnMoves
<1>2. Note \/ BeginWrite \/ CommitReads \/ (\E f \in Fact : SourceMoves(f)) \/ (\E key \in Key : Forget(key))
      \/ (\E key \in Key, f \in Fact : Edit(key, f)) \/ Emit \/ RecordFails
      \/ (\E o \in left.ends : StreamEnds(o[1], o[2])) \/ Catalogue \/ TailLands \/ Opens \/ StrayLands
      \/ Restart => UNCHANGED <<mem, commits>>
  BY Zenon DEF Note, BeginWrite, CommitReads, SourceMoves, Forget, Edit, Emit, RecordFails, StreamEnds,
     Catalogue,
         TailLands, Opens, StrayLands, Restart, memory, unwritten
<1>3. CASE SkipBatch \/ OpenFails \/ WriteSucceeds \/ WriteFails \/ StopWritten \/ StopFails
  <2>1. \/ UNCHANGED <<mem, commits>>
        \/ \E kept \in BOOLEAN, q \in Nat :
              /\ BatchDone(kept, q)
              /\ kept => \/ WriteSucceeds /\ q = rec.seq + (Len(Payload) - 1)
                         \/ StopWritten /\ q = rec.seq - 1
    BY <1>3, HeadDone DEF IInv
  <2>2. ASSUME NEW kept \in BOOLEAN, NEW q \in Nat, BatchDone(kept, q),
               kept => \/ WriteSucceeds /\ q = rec.seq + (Len(Payload) - 1)
                       \/ StopWritten /\ q = rec.seq - 1
        PROVE  /\ Moved(m, mem') /\ commits' \in Seq(Nat) /\ Book(mem', commits')
               /\ \A k \in 1 .. Len(mem) : TurnMoves(k)
    <3>1. chain # <<>>
      BY <1>3, HeadDone DEF IInv
    <3>2. /\ Reported(chain[1], m, mem', kept, q) /\ commits' \in Seq(Nat) /\ Book(mem', commits')
          /\ chain' = Tail(chain) /\ io' = "idle"
      BY <2>2, <3>1, BatchDoneIs DEF IInv, Ledger
    <3>3. ASSUME NEW k \in 1 .. Len(m) PROVE TurnMoves(k)
      <4>1. CASE k # chain[1].closes
        BY <3>2, <4>1 DEF TurnMoves, Reported, But
      <4>2. CASE k = chain[1].closes
        <5>1. SettledTo(m[k], mem'[k], kept /\ Last(chain[1].lines).how = "ok", q)
          <6>1. chain[1].closes # 0
            BY <4>2
          <6>2. chain[1].closes # 0 =>
                   SettledTo(m[chain[1].closes], mem'[chain[1].closes],
                             kept /\ Last(chain[1].lines).how = "ok", q)
            BY <3>2, Zenon DEF Reported
          <6>. QED
            BY <4>2, <6>1, <6>2, Zenon
        <5>. QED
          BY <2>2, <3>1, <3>2, <4>2, <5>1 DEF TurnMoves
      <4>. QED
        BY <4>1, <4>2
    <3>. QED
      BY <3>2, <3>3 DEF Reported
  <2>. QED
    BY <1>1, <2>1, <2>2, MovedGrown
<1>4. CASE BarrierPasses \/ BarrierTimesOut \/ Unwind
  <2>1. /\ turn.at # "idle"
        /\ \/ UNCHANGED <<mem, commits>>
           \/ Discard(turn.of) /\ ((BarrierPasses /\ rec.state # "on") \/ BarrierTimesOut \/ Unwind)
    BY <1>4 DEF BarrierPasses, BarrierTimesOut, Unwind
  <2>2. PICK k \in 1 .. Len(mem) : k = turn.of
    BY <2>1, OfIs DEF IInv
  <2>3. ASSUME Discard(k), (BarrierPasses /\ rec.state # "on") \/ BarrierTimesOut \/ Unwind
        PROVE  /\ Moved(m, mem') /\ commits' = c /\ Book(mem', c)
               /\ \A j \in 1 .. Len(mem) : TurnMoves(j)
    <3>1. /\ Moved(m, mem') /\ commits' = c /\ Book(mem', c)
          /\ But(m, mem', k) /\ DiscardedTo(m[k], mem'[k])
      BY <2>3, DiscardIs DEF IInv, Ledger
    <3>2. ASSUME NEW j \in 1 .. Len(m) PROVE TurnMoves(j)
      BY <2>2, <2>3, <3>1 DEF TurnMoves, But
    <3>. QED
      BY <3>1, <3>2
  <2>. QED
    BY <1>1, <2>1, <2>2, <2>3, MovedGrown
<1>5. CASE Seal
  <2>1. turn.at # "idle"
    BY <1>5 DEF Seal
  <2>2. PICK k \in 1 .. Len(mem) : k = turn.of
    BY <2>1, OfIs DEF IInv
  <2>3. PICK s \in BOOLEAN : s = (turn.how = "ok" /\ rec.state = "on")
    OBVIOUS
  <2>4. SealTurn(k, s)
    BY <1>5, <2>2, <2>3 DEF Seal
  <2>5. /\ Moved(m, mem') /\ commits' \in Seq(Nat) /\ Book(mem', commits')
        /\ But(m, mem', k) /\ SealedTo(m[k], mem'[k], s)
    BY <2>4, SealIs DEF IInv, Ledger
  <2>6. ASSUME NEW j \in 1 .. Len(m) PROVE TurnMoves(j)
    BY <1>5, <2>2, <2>3, <2>5 DEF TurnMoves, But
  <2>. QED
    BY <2>5, <2>6, MovedGrown
<1>6. CASE Drained \/ \E retire \in BOOLEAN : Close(retire)
  <2>1. UNCHANGED <<mem, commits>> \/ (mem' = Unsettled /\ commits' = c /\ (Drained \/ Close(TRUE)))
    BY <1>6 DEF Drained, Close
  <2>2. ASSUME mem' = Unsettled, Drained \/ Close(TRUE)
        PROVE  Moved(m, mem') /\ Book(mem', c) /\ \A j \in 1 .. Len(m) : TurnMoves(j)
    BY <2>2, UnsettledIs DEF IInv, Ledger, TurnMoves
  <2>. QED
    BY <1>1, <2>1, <2>2, MovedGrown
<1>7. CASE Leave \/ Crash
  <2>1. /\ Moved(m, mem') /\ commits' = <<>> /\ Book(mem', commits')
        /\ \A j \in 1 .. Len(m) : TurnMoves(j)
    BY <1>7, GoneIs DEF Leave, Crash, IInv, TurnMoves
  <2>2. <<>> \in Seq(Nat)
    OBVIOUS
  <2>. QED
    BY <2>1, <2>2, MovedGrown
<1>8. CASE \E f \in Fact : Stage(f)
  <2>1. PICK f \in Fact : Stage(f)
    BY <1>8
  <2>2. /\ turn.of \in 1 .. Len(m) /\ m[turn.of].state = "open" /\ But(m, mem', turn.of)
        /\ mem' \in Seq(MemSet) /\ Len(mem') = Len(m)
        /\ mem'[turn.of] = [m[turn.of] EXCEPT !.facts = m[turn.of].facts \cup {f}]
    BY <2>1, StageIs DEF IInv
  <2>. PICK n \in Seq(MemSet) : n = mem'
    BY <2>2
  <2>. PICK k \in 1 .. Len(m) : k = turn.of
    BY <2>2
  <2>. PICK a \in MemSet : a = m[k]
    BY SeqIs
  <2>. PICK F : F = a.facts \cup {f}
    OBVIOUS
  <2>3. But(m, n, k) /\ n[k] = [a EXCEPT !.facts = F] /\ commits' = c /\ Len(n) = Len(m)
    BY <2>1, <2>2 DEF Stage
  <2>4. n[k].state = a.state /\ n[k].turn = a.turn /\ n[k].run = a.run
    BY <2>3 DEF MemSet
  <2>5. Grown(m, n)
    BY <2>3, <2>4, ButGrown
  <2>6. Book(n, c)
    BY <1>0, <2>3, <2>4, BookSame DEF But
  <2>7. ASSUME NEW j \in 1 .. Len(m) PROVE TurnMoves(j)
    <3>1. n[k] = [a EXCEPT !.facts = n[k].facts]
      BY <2>3 DEF MemSet
    <3>. QED
      BY <1>8, <2>2, <2>3, <3>1 DEF TurnMoves, But
  <2>. QED
    BY <2>3, <2>5, <2>6, <2>7
<1>9. CASE CommitWrites
  <2>1. /\ commit.of \in 1 .. Len(m) /\ m[commit.of].state = "committing"
        /\ mem' \in Seq(MemSet) /\ Len(mem') = Len(m) /\ But(m, mem', commit.of)
        /\ mem'[commit.of] = [m[commit.of] EXCEPT !.state = "done"]
        /\ commits' \in Seq(Nat) /\ Book(mem', commits')
    BY <1>9, WritesIs DEF IInv
  <2>. PICK n \in Seq(MemSet) : n = mem'
    BY <2>1
  <2>. PICK k \in 1 .. Len(m) : k = commit.of
    BY <2>1
  <2>. PICK a \in MemSet : a = m[k]
    BY SeqIs
  <2>2. n[k].turn = a.turn /\ n[k].run = a.run
    BY <2>1 DEF MemSet
  <2>3. Grown(m, n)
    BY <2>1, <2>2, ButGrown
  <2>4. ASSUME NEW j \in 1 .. Len(m) PROVE TurnMoves(j)
    BY <1>9, <2>1 DEF TurnMoves, But
  <2>. QED
    BY <2>1, <2>3, <2>4
<1>10. CASE \E o \in left.opens : Begin(o[1], o[2])
  <2>1. PICK o \in left.opens : Begin(o[1], o[2])
    BY <1>10
  <2>2. PICK p \in BOOLEAN, q \in BOOLEAN : p = o[1] /\ q = o[2]
    BY LeftIs DEF IInv
  <2>3. commits' = c /\ Book(mem', c) /\ \E on, t : NewTurn(m, mem', on, t, run)
    BY <2>1, <2>2, BeginIs DEF IInv, Ledger
  <2>4. ASSUME NEW n, NEW on, NEW t, NewTurn(m, n, on, t, run)
        PROVE  Grown(m, n) /\ \A j \in 1 .. Len(m) : n[j] = m[j]
    BY <2>4, SeqIs DEF NewTurn, Grown
  <2>. QED
    BY <1>10, <2>3, <2>4 DEF TurnMoves
<1>. QED
  BY <1>1, <1>2, <1>3, <1>4, <1>5, <1>6, <1>7, <1>8, <1>9, <1>10 DEF Next, Record, Memory, Turn, Life

LEMMA StepChain ==
    ASSUME IInv, Next
    PROVE  /\ chain' \in Seq(BatchSet)
           /\ \/ chain' = chain /\ io' = io /\ (file' = file \/ StrayLands)
              \/ chain' = chain /\ io' = "writing" /\ BeginWrite
              \/ chain' = chain /\ io' = "stopping" /\ WriteSucceeds
              \/ io' = io /\ file' = file /\ \E b : More(chain, chain', b) /\ Added(b)
              \/ chain # <<>> /\ Less(chain, chain') /\ io' = "idle"
                 /\ (SkipBatch \/ OpenFails \/ WriteSucceeds \/ WriteFails \/ StopWritten \/ StopFails)
              \/ chain' = <<>> /\ io' = "idle" /\ Gone
<1>. PICK c \in Seq(BatchSet) : c = chain
  BY DEF IInv, Shape
<1>1. CASE chain' = chain /\ io' = io /\ (file' = file \/ StrayLands)
  BY <1>1
<1>2. CommitReads \/ (\E f \in Fact : SourceMoves(f)) \/ (\E key \in Key : Forget(key))
      \/ (\E key \in Key, f \in Fact : Edit(key, f)) \/ Emit \/ RecordFails
      \/ Catalogue \/ TailLands \/ Opens \/ StrayLands
      \/ Restart \/ BarrierPasses \/ BarrierTimesOut \/ Unwind \/ Seal \/ Drained
      \/ (\E f \in Fact : Stage(f)) \/ CommitWrites
      => chain' = chain /\ io' = io /\ (file' = file \/ StrayLands)
  BY Zenon DEF CommitReads, SourceMoves, Forget, Edit, Emit, RecordFails, Catalogue, TailLands, Opens,
     StrayLands,
         Restart, BarrierPasses, BarrierTimesOut, Unwind, Seal, Drained, Stage, CommitWrites, recorder
<1>3. CASE SkipBatch \/ OpenFails \/ WriteSucceeds \/ WriteFails \/ StopWritten \/ StopFails
  <2>1. c # <<>>
    BY <1>3, HeadDone DEF IInv
  <2>2. \/ WriteSucceeds /\ io' = "stopping" /\ chain' = c
        \/ chain' = Tail(c) /\ io' = "idle"
    BY <1>3, HeadDone DEF IInv, BatchDone
  <2>3. Less(c, Tail(c))
    BY <2>1, LessIs
  <2>. QED
    BY Zenon, <1>3, <2>1, <2>2, <2>3 DEF Less
<1>4. CASE BeginWrite
  BY <1>4 DEF BeginWrite
<1>5. CASE Note
  <2>1. io' = io /\ file' = file
    BY <1>5 DEF Note
  <2>. QED
    BY <1>5, <2>1, NoteIs DEF IInv, More
<1>6. CASE \E o \in left.opens : Begin(o[1], o[2])
  <2>1. PICK o \in left.opens : Begin(o[1], o[2])
    BY <1>6
  <2>2. PICK p \in BOOLEAN, q \in BOOLEAN : p = o[1] /\ q = o[2]
    BY LeftIs DEF IInv
  <2>3. chain' = chain \/ \E b : More(chain, chain', b) /\ Added(b)
    BY <2>1, <2>2, BeginIs DEF IInv, Ledger
  <2>4. io' = io /\ file' = file
    BY <2>1 DEF Begin
  <2>. QED
    BY <2>3, <2>4 DEF More
<1>7. CASE \E o \in left.ends : StreamEnds(o[1], o[2])
  <2>1. PICK o \in left.ends : StreamEnds(o[1], o[2])
    BY <1>7
  <2>2. PICK h \in Hows, n \in BOOLEAN : h = o[1] /\ n = o[2]
    BY LeftIs DEF IInv
  <2>3. chain' = chain \/ \E b : More(chain, chain', b) /\ Added(b)
    <3>1. StreamEnds(h, n) /\ UNCHANGED <<mem, catalogue, rec>>
      BY <2>1, <2>2 DEF StreamEnds, memory
    <3>. QED
      BY <3>1, StreamEndsIs DEF IInv, Added
  <2>4. io' = io /\ file' = file
    BY <2>1 DEF StreamEnds
  <2>. QED
    BY <2>3, <2>4 DEF More
<1>8. CASE \E retire \in BOOLEAN : Close(retire)
  <2>1. chain' = chain \/ \E b : More(chain, chain', b) /\ Added(b)
    BY <1>8, CloseIs DEF IInv, Added
  <2>2. io' = io /\ file' = file
    BY <1>8 DEF Close
  <2>. QED
    BY <2>1, <2>2 DEF More
<1>9. CASE Leave \/ Crash
  <2>1. Gone /\ chain' = <<>> /\ io' = "idle"
    BY <1>9 DEF Leave, Crash, Gone
  <2>2. <<>> \in Seq(BatchSet)
    OBVIOUS
  <2>. QED
    BY <2>1, <2>2
<1>. QED
  BY <1>1, <1>2, <1>3, <1>4, <1>5, <1>6, <1>7, <1>8, <1>9 DEF Next, Record, Memory, Turn, Life

\* Where a new line of the file comes from.
Source(l) ==
    \/ io = "writing" /\ l.kind = "header" /\ l.of = 0 /\ l.turn = 0 /\ l.run = run
    \/ io = "writing" /\ \E x \in 1 .. Len(chain[1].lines) : Copies(l, chain[1].lines[x])
    \/ io = "stopping" /\ l = StopLine
    \/ \E s \in stray : \E x \in 1 .. Len(s.lines) : l = s.lines[x]
LEMMA PayloadSource ==
    ASSUME Shape, Writing, io = "writing"
    PROVE  /\ Payload \in Seq(LineSet) /\ Payload # <<>>
           /\ \A y \in 1 .. Len(Payload) : Whole(Payload[y]) /\ Source(Payload[y])
<1>0. chain # <<>>
  BY DEF Writing
<1>1. Sent(Payload, rec.header, chain[1].lines, run, rec.seq)
  BY <1>0, PayloadIs
<1>2. chain[1].lines \in Seq(LineSet) /\ rec.header \in BOOLEAN /\ rec.seq \in Nat
  BY <1>0, BatchIs, SeqIs DEF Shape, RecSet
<1>3. ASSUME NEW y \in 1 .. Len(Payload) PROVE Source(Payload[y])
  <2>1. \/ rec.header /\ y = 1 /\ Payload[y].kind = "header" /\ Payload[y].of = 0
           /\ Payload[y].turn = 0 /\ Payload[y].run = run
        \/ \E x \in 1 .. Len(chain[1].lines) : Copies(Payload[y], chain[1].lines[x])
    <3>. PICK p : p = Payload
      OBVIOUS
    <3>. PICK ls \in Seq(LineSet) : ls = chain[1].lines
      BY <1>2
    <3>. PICK q \in Nat, hd \in BOOLEAN : q = rec.seq /\ hd = rec.header
      BY <1>2
    <3>1. Sent(p, hd, ls, run, q) /\ y \in 1 .. Len(p)
      BY <1>1
    <3>2. \/ hd /\ y = 1 /\ p[y].kind = "header" /\ p[y].of = 0 /\ p[y].turn = 0 /\ p[y].run = run
          \/ \E x \in 1 .. Len(ls) : Copies(p[y], ls[x])
      BY <3>1, SentIs
    <3>. QED
      BY <3>2
  <2>. QED
    BY <2>1 DEF Source
<1>. QED
  BY <1>1, <1>3 DEF Sent
LEMMA InFlightSource ==
    ASSUME Shape, Writing
    PROVE  \A y \in 1 .. Len(InFlight) : Source(InFlight[y])
<1>1. SUFFICES ASSUME NEW y \in 1 .. Len(InFlight) PROVE Source(InFlight[y])
  OBVIOUS
<1>2. InFlight # <<>>
  <2>1. InFlight \in Seq(LineSet) /\ Len(InFlight) > 0
    BY InFlightIs, SeqIs
  <2>. QED
    BY <2>1, SeqIs
<1>3. io \in {"idle", "writing", "stopping"}
  BY DEF Shape
<1>4. CASE io = "writing"
  BY <1>4, InFlightIs, PayloadSource
<1>5. CASE io = "stopping"
  <2>1. InFlight = <<StopLine>> /\ Len(<<StopLine>>) = 1 /\ <<StopLine>>[1] = StopLine
    BY <1>5, InFlightIs, StopIs
  <2>2. InFlight[y] = StopLine
    <3>1. y = 1
      BY <2>1
    <3>. QED
      BY <2>1, <3>1
  <2>. QED
    BY <1>5, <2>2 DEF Source
<1>. QED
  BY <1>2, <1>3, <1>4, <1>5, InFlightIs

\* What becomes of the file.
FileMoves ==
    \/ file' = file /\ ~WriteSucceeds /\ ~StopWritten /\ ~StrayLands
    \/ WriteSucceeds /\ WroteAll(file, file', Payload, rec.guard)
    \/ /\ WriteFails /\ Wrote(file, file', Payload)
       /\ (EndsTorn(file) => rec.guard) => StartOf(file \o Payload, file')
    \/ StopWritten /\ Wrote(file, file', <<StopLine>>) /\ file' = file \o <<StopLine>>
    \/ /\ StopFails /\ Wrote(file, file', <<StopLine>>)
       /\ ~EndsTorn(file) => StartOf(file \o <<StopLine>>, file')
    \/ /\ (Leave /\ ~retired) \/ Crash
       /\ Wrote(file, file', InFlight)
       /\ (EndsTorn(file) => Guarded) => StartOf(file \o InFlight, file')
       /\ io = "idle" => file' = file
    \/ /\ StrayLands
       /\ \E s \in stray : /\ stray' = stray \ {s} /\ guessed' = (guessed \/ Last(s.lines).run # run)
                           /\ WroteAll(file, file', s.lines, s.guard)
LEMMA StepFileMoves ==
    ASSUME IInv, Next
    PROVE  file' \in Seq(LineSet) /\ FileMoves
<1>. PICK f \in Seq(LineSet) : f = file
  BY DEF IInv, Shape
<1>1. CASE file' = file /\ ~WriteSucceeds /\ ~StopWritten /\ ~StrayLands
  BY <1>1 DEF FileMoves
<1>2. CommitReads \/ (\E g \in Fact : SourceMoves(g)) \/ (\E key \in Key : Forget(key))
      \/ (\E key \in Key, g \in Fact : Edit(key, g)) \/ Emit \/ RecordFails
      \/ Catalogue \/ TailLands \/ Opens
      \/ Restart \/ BarrierPasses \/ BarrierTimesOut \/ Unwind \/ Seal \/ Drained
      \/ (\E g \in Fact : Stage(g)) \/ CommitWrites \/ Note
      \/ (\E o \in left.opens : Begin(o[1], o[2]))
      \/ (\E o \in left.ends : StreamEnds(o[1], o[2])) \/ (\E retire \in BOOLEAN : Close(retire))
      \/ SkipBatch \/ BeginWrite \/ OpenFails => file' = file
  BY Zenon DEF CommitReads, SourceMoves, Forget, Edit, Emit, RecordFails, Catalogue, TailLands, Opens,
         Note, Begin, StreamEnds, Close, SkipBatch, BeginWrite, OpenFails,
         Restart, BarrierPasses, BarrierTimesOut, Unwind, Seal, Drained, Stage, CommitWrites, recorder
<1>4. CASE WriteSucceeds
  <2>1. PICK g : g = file'
    OBVIOUS
  <2>2. io = "writing" /\ g = Joined(Payload, rec.guard) /\ rec.guard \in BOOLEAN
    BY <1>4, <2>1 DEF WriteSucceeds, Running, IInv, Shape, RecSet
  <2>3. WroteAll(file, g, Payload, rec.guard)
    BY <2>2, PayloadSource, FullWrite DEF IInv
  <2>. QED
    BY <1>4, <2>1, <2>3, Zenon DEF WroteAll, FileMoves
<1>5. CASE WriteFails
  <2>1. PICK g : g = file'
    OBVIOUS
  <2>2. io = "writing" /\ g \in Tears(Payload, rec.guard) /\ rec.guard \in BOOLEAN
    BY <1>5, <2>1 DEF WriteFails, Running, IInv, Shape, RecSet
  <2>3. /\ g \in Seq(LineSet) /\ Wrote(file, g, Payload)
        /\ (EndsTorn(file) => rec.guard) => StartOf(file \o Payload, g)
    BY <2>2, PayloadSource, TornWrite DEF IInv
  <2>. QED
    BY <1>5, <2>1, <2>3 DEF FileMoves
<1>. PICK t : t = <<StopLine>>
  OBVIOUS
<1>6. t \in Seq(LineSet) /\ t # <<>> /\ \A y \in 1 .. Len(t) : Whole(t[y]) /\ t[y] = StopLine
  BY StopIs DEF IInv
<1>7. CASE StopWritten
  <2>1. PICK g : g = file'
    OBVIOUS
  <2>2. g = Append(f, StopLine) /\ io = "stopping"
    BY <1>7, <2>1 DEF StopWritten
  <2>3. StopLine \in LineSet
    BY StopIs DEF IInv
  <2>4. g = f \o t
    BY <2>2, <2>3
  <2>5. g \in Seq(LineSet) /\ Wrote(f, g, t)
    <3>1. PartOf(t, t) /\ TRUE \in BOOLEAN
      BY <1>6, SeqIs DEF PartOf
    <3>2. g = JoinedTo(f, t, TRUE)
      BY <2>4 DEF JoinedTo
    <3>. QED
      BY <1>6, <3>1, <3>2, WriteIs
  <2>. QED
    BY <1>7, <2>1, <2>4, <2>5 DEF FileMoves
<1>8. CASE StopFails
  <2>1. PICK g : g = file'
    OBVIOUS
  <2>2. g \in Tears(t, FALSE) /\ io = "stopping" /\ FALSE \in BOOLEAN
    BY <1>8, <2>1 DEF StopFails
  <2>3. g \in Seq(LineSet) /\ Wrote(file, g, t) /\ (~EndsTorn(file) => StartOf(file \o t, g))
    BY <1>6, <2>2, TornWrite DEF IInv
  <2>. QED
    BY <1>8, <2>1, <2>3 DEF FileMoves
<1>9. CASE Leave /\ retired
  <2>1. file' = file /\ ~WriteSucceeds /\ ~StopWritten /\ ~StrayLands
    BY <1>9 DEF Leave, Gone, WriteSucceeds, StopWritten, StrayLands, life, unwritten
  <2>. QED
    BY <2>1 DEF FileMoves
<1>10. CASE (Leave /\ ~retired) \/ Crash
  <2>1. PICK g : g = file'
    OBVIOUS
  <2>2. g \in Tears(InFlight, Guarded)
    BY <1>10, <2>1 DEF Leave, Crash, Interrupted
  <2>3. /\ g \in Seq(LineSet) /\ Wrote(file, g, InFlight)
        /\ (EndsTorn(file) => Guarded) => StartOf(file \o InFlight, g)
    BY <2>2, InFlightIs, TornWrite DEF IInv
  <2>4. ASSUME io = "idle" PROVE g = f
    <3>. PICK ls \in Seq(LineSet), e \in BOOLEAN : ls = InFlight /\ e = Guarded
      BY InFlightIs DEF IInv
    <3>1. PICK part \in Seq(LineSet) : PartOf(part, ls) /\ g = JoinedTo(file, part, e)
      BY <2>2, TearsAre DEF IInv
    <3>2. ls = <<>>
      BY <2>4, InFlightIs DEF IInv
    <3>3. Len(part) <= Len(ls)
      BY <3>1 DEF PartOf
    <3>4. part = <<>>
      BY <3>2, <3>3
    <3>. QED
      BY <3>1, <3>4 DEF JoinedTo
  <2>. QED
    BY <1>10, <2>1, <2>3, <2>4 DEF FileMoves
<1>11. CASE StrayLands
  <2>1. PICK g : g = file'
    OBVIOUS
  <2>2. PICK s \in stray : /\ g = Joined(s.lines, s.guard) /\ stray' = stray \ {s}
                           /\ guessed' = (guessed \/ Last(s.lines).run # run)
    BY <1>11, <2>1 DEF StrayLands
  <2>3. s.lines \in Seq(LineSet) /\ s.guard \in BOOLEAN /\ s.lines # <<>>
        /\ \A y \in 1 .. Len(s.lines) : Whole(s.lines[y])
    BY DEF IInv, Shape, StraySet, Strays, Given
  <2>4. WroteAll(file, g, s.lines, s.guard)
    BY <2>2, <2>3, FullWrite DEF IInv
  <2>5. g \in Seq(LineSet)
    BY <2>4, Zenon DEF WroteAll
  <2>. QED
    BY <1>11, <2>1, <2>2, <2>4, <2>5 DEF FileMoves
<1>13. CASE file' = file
  BY <1>1, <1>4, <1>7, <1>11, <1>13
<1>. QED
  BY <1>2, <1>4, <1>5, <1>7, <1>8, <1>9, <1>10, <1>11, <1>13 DEF Next, Record, Memory, Turn, Life

LEMMA StepFile ==
    ASSUME IInv, Next
    PROVE  /\ file' \in Seq(LineSet)
           /\ \A i \in Places(file) : i \in Places(file') /\ file'[i] = file[i]
           /\ \A i \in Places(file') : i \in Places(file) \/ Source(file'[i])
<1>. PICK g \in Seq(LineSet) : g = file'
  BY StepFileMoves
<1>1. ASSUME NEW ls, Wrote(file, g, ls), \A y \in 1 .. Len(ls) : Source(ls[y])
      PROVE  /\ \A i \in Places(file) : i \in Places(g) /\ g[i] = file[i]
             /\ \A i \in Places(g) : i \in Places(file) \/ Source(g[i])
  BY <1>1 DEF Wrote
<1>2. io = "writing" => \A y \in 1 .. Len(Payload) : Source(Payload[y])
  BY PayloadSource DEF IInv
<1>3. io = "stopping" => \A y \in 1 .. Len(<<StopLine>>) : Source(<<StopLine>>[y])
  <2>1. <<StopLine>>[1] = StopLine /\ Len(<<StopLine>>) = 1
    OBVIOUS
  <2>. QED
    BY <2>1 DEF Source
<1>4. \A y \in 1 .. Len(InFlight) : Source(InFlight[y])
  BY InFlightSource DEF IInv
<1>5. \A s \in stray : \A y \in 1 .. Len(s.lines) : Source(s.lines[y])
  BY DEF Source
<1>6. \/ g = file
      \/ io = "writing" /\ Wrote(file, g, Payload)
      \/ io = "stopping" /\ Wrote(file, g, <<StopLine>>)
      \/ Wrote(file, g, InFlight)
      \/ \E s \in stray : Wrote(file, g, s.lines)
  <2>1. WriteSucceeds \/ WriteFails => io = "writing"
    BY DEF WriteSucceeds, WriteFails
  <2>2. StopWritten \/ StopFails => io = "stopping"
    BY DEF StopWritten, StopFails
  <2>3. \A ls, e : WroteAll(file, g, ls, e) => Wrote(file, g, ls)
    BY Zenon DEF WroteAll
  <2>. QED
    BY <2>1, <2>2, <2>3, StepFileMoves DEF FileMoves
<1>. QED
  BY <1>1, <1>2, <1>3, <1>4, <1>5, <1>6

LEMMA StepRun ==
    ASSUME IInv, Next
    PROVE  run' = run \/ (Restart /\ run' = run + 1)
<1>1. Record \/ Memory => run' = run
  BY Zenon DEF Record, Memory, SkipBatch, BeginWrite, OpenFails, WriteSucceeds, WriteFails, StopWritten,
     StopFails, Note, CommitReads, CommitWrites, Stage, SourceMoves, Forget, Edit, life, unwritten
<1>2. Turn => run' = run
  BY Zenon DEF Turn, Begin, BarrierPasses, BarrierTimesOut, Emit, RecordFails, StreamEnds, Seal, Catalogue,
     Unwind, life
<1>3. Life => run' = run \/ (Restart /\ run' = run + 1)
  BY Zenon DEF Life, TailLands, Opens, Close, Drained, Leave, Crash, Gone, StrayLands, Restart, life
<1>. QED
  BY <1>1, <1>2, <1>3 DEF Next

LEMMA StepStray ==
    ASSUME IInv, Next
    PROVE  /\ stray' \subseteq StraySet
           /\ \/ stray' \subseteq stray
              \/ /\ Leave /\ retired /\ io # "idle"
                 /\ stray' = stray \cup {[lines |-> InFlight, guard |-> Guarded]}
<1>1. stray \subseteq StraySet
  BY DEF IInv, Shape
<1>2. [lines |-> InFlight, guard |-> Guarded] \in StraySet
  BY InFlightIs DEF IInv, StraySet
<1>3. Record \/ Memory => stray' = stray
  BY Zenon DEF Record, Memory, SkipBatch, BeginWrite, OpenFails, WriteSucceeds, WriteFails, StopWritten,
     StopFails, Note, CommitReads, CommitWrites, Stage, SourceMoves, Forget, Edit, life, unwritten
<1>4. Turn => stray' = stray
  BY Zenon DEF Turn, Begin, BarrierPasses, BarrierTimesOut, Emit, RecordFails, StreamEnds, Seal, Catalogue,
     Unwind, life, unwritten
<1>5. TailLands \/ Opens \/ (\E retire \in BOOLEAN : Close(retire)) \/ Drained => stray' = stray
  BY Zenon DEF TailLands, Opens, Close, Drained, life, unwritten
<1>6. StrayLands \/ Crash \/ Restart => stray' \subseteq stray
  BY DEF StrayLands, Crash, Restart, life, unwritten
<1>7. ASSUME Leave
      PROVE  \/ stray' = stray
             \/ /\ retired /\ io # "idle"
                /\ stray' = stray \cup {[lines |-> InFlight, guard |-> Guarded]}
  BY <1>7 DEF Leave
<1>8. \/ stray' \subseteq stray
      \/ /\ Leave /\ retired /\ io # "idle"
         /\ stray' = stray \cup {[lines |-> InFlight, guard |-> Guarded]}
  BY <1>3, <1>4, <1>5, <1>6, <1>7 DEF Next, Life
<1>. QED
  BY <1>1, <1>2, <1>8

-----------------------------------------------------------------------------
(* The lines *)

LEMMA KnownKept ==
    ASSUME IInv, Next, NEW l \in LineSet, Known(l, mem, run)
    PROVE  Known(l, mem', run')
<1>1. run \in Nat /\ run' \in Nat /\ run <= run'
  BY StepRun DEF IInv, Shape
<1>2. Grown(mem, mem') /\ Len(mem) \in Nat /\ Len(mem') \in Nat
  BY StepMem, SeqIs DEF IInv, Shape, Grown
<1>. QED
  BY <1>1, <1>2, LineIs DEF Known, Grown

LEMMA KnownSource ==
    ASSUME IInv, NEW l \in LineSet, Whole(l), Source(l)
    PROVE  Known(l, mem, run)
<1>1. Len(mem) \in Nat /\ run \in Nat /\ rec.turns \in Nat /\ rec.turns <= Len(mem)
  BY SeqIs DEF IInv, Shape, Numbers, Numbered, RecSet
<1>2. CASE io = "writing" /\ l.kind = "header" /\ l.of = 0 /\ l.turn = 0 /\ l.run = run
  BY <1>1, <1>2, SMTT(30) DEF Known, OfTurns
<1>3. CASE io = "writing" /\ \E x \in 1 .. Len(chain[1].lines) : Copies(l, chain[1].lines[x])
  <2>1. 1 \in 1 .. Len(chain)
    BY <1>3, SeqIs DEF IInv, Shape, Writing
  <2>. QED
    BY <1>3, <2>1 DEF IInv, Lines, Copies, Known
<1>4. CASE io = "stopping" /\ l = StopLine
  BY <1>1, <1>4, StopIs DEF IInv, Known, OfTurns
<1>5. CASE \E s \in stray : \E x \in 1 .. Len(s.lines) : l = s.lines[x]
  BY <1>5 DEF IInv, Lines
<1>. QED
  BY <1>2, <1>3, <1>4, <1>5 DEF Source

LEMMA KnownAdded ==
    ASSUME IInv, Next, NEW b, Added(b)
    PROVE  /\ b \in BatchSet /\ Batch(b, run)
           /\ \A x \in 1 .. Len(b.lines) : b.lines[x] \in LineSet /\ Known(b.lines[x], mem', run)
<1>1. /\ Len(mem) \in Nat /\ run \in Nat /\ rec.turns \in Nat /\ rec.turns <= Len(mem)
      /\ turn.of \in Nat /\ turn.n \in Nat
  BY SeqIs DEF IInv, Shape, Numbers, Numbered, RecSet, TurnSet
<1>2. Grown(mem, mem') /\ Len(mem') \in Nat
  BY StepMem, SeqIs DEF Grown
<1>3. "note" \in Kinds /\ "event" \in Kinds /\ "end" \in Kinds /\ Opening \subseteq Kinds
      /\ "note" \notin OfTurns /\ {"event", "end"} \subseteq OfTurns /\ Opening \subseteq OfTurns
  BY DEF Kinds, OfTurns, Opening
<1>4. CASE OneLine(b, "note", 0, rec.turns, None, run)
  <2>1. Len(mem) <= Len(mem')
    BY <1>2 DEF Grown
  <2>2. ASSUME NEW l, IsLine(l, "note", 0, rec.turns, None, run) PROVE l \in LineSet /\ Known(l, mem', run)
    BY <1>1, <1>2, <1>3, <2>1, <2>2 DEF IsLine, Known
  <2>. QED
    BY <1>1, <1>3, <1>4, <2>2, OneLineHas
<1>5. ASSUME NewTurn(mem, mem', TRUE, rec.turns + 1, run),
             NEW kind \in Opening, OneLine(b, kind, Len(mem) + 1, rec.turns + 1, None, run)
      PROVE  /\ b \in BatchSet /\ Batch(b, run)
             /\ \A x \in 1 .. Len(b.lines) : b.lines[x] \in LineSet /\ Known(b.lines[x], mem', run)
  <2>1. /\ Len(mem') = Len(mem) + 1 /\ mem'[Len(mem')].turn = rec.turns + 1 /\ mem'[Len(mem')].run = run
    BY <1>5 DEF NewTurn
  <2>2. PICK k \in Nat : k = Len(mem) + 1
    BY <1>1
  <2>3. k \in 1 .. Len(mem') /\ mem'[k].turn = rec.turns + 1 /\ mem'[k].run = run /\ k # 0
    BY <1>1, <2>1, <2>2
  <2>4. rec.turns + 1 # 0 /\ rec.turns + 1 <= Len(mem')
    BY <1>1, <2>1
  <2>5. ASSUME NEW l, IsLine(l, kind, k, rec.turns + 1, None, run)
        PROVE  l \in LineSet /\ Known(l, mem', run)
    BY <1>1, <1>3, <2>3, <2>4, <2>5 DEF IsLine, Known
  <2>. QED
    BY <1>3, <1>5, <2>2, <2>5, OneLineHas
<1>6. CASE turn.at = "streaming" /\ turn.n # 0
  <2>1. turn.of \in 1 .. Len(mem) /\ turn.n = mem[turn.of].turn /\ mem[turn.of].run = run
    BY <1>6, OfIs DEF IInv
  <2>2. PICK k \in 1 .. Len(mem) : k = turn.of
    BY <2>1
  <2>3. k \in 1 .. Len(mem') /\ mem'[k].turn = turn.n /\ mem'[k].run = run /\ turn.n <= Len(mem')
    <3>1. turn.n <= Len(mem)
      BY <2>1, <2>2 DEF IInv, Numbers, Numbered
    <3>2. k \in 1 .. Len(mem') /\ mem'[k].turn = mem[k].turn /\ mem'[k].run = mem[k].run
            /\ Len(mem) <= Len(mem')
      BY <1>2 DEF Grown
    <3>. QED
      BY <1>1, <1>2, <2>1, <2>2, <3>1, <3>2
  <2>4. ASSUME NEW l, NEW kind \in {"event", "end"}, NEW how, IsLine(l, kind, k, turn.n, how, run)
        PROVE  l \in LineSet /\ Known(l, mem', run)
    BY <1>1, <1>3, <1>6, <2>3, <2>4 DEF IsLine, Known
  <2>5. ASSUME NEW kind \in {"event", "end"}, NEW how, OneLine(b, kind, k, turn.n, how, run)
        PROVE  /\ b \in BatchSet /\ Batch(b, run)
               /\ \A x \in 1 .. Len(b.lines) : b.lines[x] \in LineSet /\ Known(b.lines[x], mem', run)
    BY <1>3, <2>4, <2>5, OneLineHas
  <2>6. ASSUME NEW how, TwoLines(b, k, turn.n, how, run)
        PROVE  /\ b \in BatchSet /\ Batch(b, run)
               /\ \A x \in 1 .. Len(b.lines) : b.lines[x] \in LineSet /\ Known(b.lines[x], mem', run)
    BY <2>4, <2>6, TwoLinesHave
  <2>. QED
    BY <1>4, <1>5, <1>6, <2>2, <2>5, <2>6 DEF Added
<1>. QED
  BY <1>4, <1>5, <1>6 DEF Added

\* A line of the next chain is one of this chain, or new.
LEMMA ChainLines ==
    ASSUME IInv, Next, NEW b \in 1 .. Len(chain')
    PROVE  \/ \E d \in 1 .. Len(chain) : chain'[b] = chain[d]
           \/ Added(chain'[b]) /\ io' = io /\ More(chain, chain', chain'[b])
<1>. PICK c \in Seq(BatchSet) : c = chain
  BY DEF IInv, Shape
<1>. PICK d \in Seq(BatchSet) : d = chain'
  BY StepChain
<1>0. Len(c) \in Nat /\ Len(d) \in Nat
  BY SeqIs
<1>1. CASE d = c
  BY <1>1
<1>2. CASE io' = io /\ \E e : More(c, d, e) /\ Added(e)
  <2>1. PICK e : More(c, d, e) /\ Added(e)
    BY <1>2
  <2>2. CASE b \in 1 .. Len(c)
    BY <2>1, <2>2 DEF More
  <2>3. CASE b \notin 1 .. Len(c)
    <3>1. b = Len(d) /\ d[Len(d)] = e
      BY <1>0, <2>1, <2>3 DEF More
    <3>. QED
      BY <1>2, <2>1, <3>1
  <2>. QED
    BY <2>2, <2>3
<1>3. CASE Less(c, d)
  <2>2. b \in 1 .. Len(d) /\ Len(d) = Len(c) - 1
    BY <1>3 DEF Less
  <2>3. d[b] = c[b + 1]
    BY <1>3, <2>2 DEF Less
  <2>1. b + 1 \in 1 .. Len(c) /\ d[b] = c[b + 1]
    BY <1>0, <2>2, <2>3
  <2>. QED
    BY <2>1
<1>4. CASE d = <<>>
  BY <1>0, <1>4
<1>. QED
  BY <1>1, <1>2, <1>3, <1>4, StepChain

LEMMA LinesKept ==
    ASSUME IInv, Next
    PROVE  Lines'
<1>1. ASSUME NEW i \in Places(file') PROVE Known(file'[i], mem', run')
  <2>1. file' \in Seq(LineSet) /\ ((i \in Places(file) /\ file'[i] = file[i]) \/ Source(file'[i]))
    BY StepFile
  <2>2. file'[i] \in LineSet /\ Whole(file'[i])
    BY <2>1, PlacesAre
  <2>. PICK l \in LineSet : l = file'[i] /\ Whole(l)
    BY <2>2
  <2>3. Known(l, mem, run)
    BY <2>1, KnownSource DEF IInv, Lines
  <2>. QED
    BY <2>3, KnownKept
<1>2. ASSUME NEW b \in 1 .. Len(chain'), NEW x \in 1 .. Len(chain'[b].lines)
      PROVE  Known(chain'[b].lines[x], mem', run')
  <2>1. CASE \E d \in 1 .. Len(chain) : chain'[b] = chain[d]
    <3>1. PICK d \in 1 .. Len(chain) : chain'[b] = chain[d]
      BY <2>1
    <3>. PICK l \in LineSet : l = chain[d].lines[x] /\ x \in 1 .. Len(chain[d].lines)
      BY <3>1, BatchIs DEF IInv
    <3>2. Known(l, mem, run)
      BY DEF IInv, Lines
    <3>. QED
      BY <3>1, <3>2, KnownKept
  <2>2. CASE Added(chain'[b]) /\ More(chain, chain', chain'[b])
    <3>1. Known(chain'[b].lines[x], mem', run)
      BY <2>2, KnownAdded
    <3>2. run' = run
      <4>1. ~Restart
        <5>1. SUFFICES ASSUME Restart PROVE FALSE
          OBVIOUS
        <5>2. chain' = chain /\ Len(chain) \in Nat
          BY <5>1, SeqIs DEF Restart, IInv, Shape
        <5>. QED
          BY <2>2, <5>2 DEF More
      <4>. QED
        BY <4>1, StepRun
    <3>. QED
      BY <3>1, <3>2
  <2>. QED
    BY <2>1, <2>2, ChainLines
<1>3. ASSUME NEW s \in stray', NEW x \in 1 .. Len(s.lines) PROVE Known(s.lines[x], mem', run')
  <2>1. CASE s \in stray
    <3>1. s.lines \in Seq(LineSet)
      BY <2>1 DEF IInv, Shape, StraySet
    <3>. PICK l \in LineSet : l = s.lines[x]
      BY <3>1, SeqIs
    <3>2. Known(l, mem, run)
      BY <2>1 DEF IInv, Lines
    <3>. QED
      BY <3>2, KnownKept
  <2>2. CASE s = [lines |-> InFlight, guard |-> Guarded]
    <3>. PICK l \in LineSet : l = InFlight[x] /\ Whole(l) /\ Source(l)
      <4>1. InFlight \in Seq(LineSet) /\ x \in 1 .. Len(InFlight)
        BY <2>2, InFlightIs DEF IInv
      <4>2. InFlight[x] \in LineSet
        BY <4>1, SeqIs
      <4>. QED
        BY <4>1, <4>2, InFlightIs, InFlightSource DEF IInv
    <3>1. Known(l, mem, run)
      BY KnownSource
    <3>. QED
      BY <2>2, <3>1, KnownKept
  <2>. QED
    BY <2>1, <2>2, StepStray
<1>. QED
  BY <1>1, <1>2, <1>3 DEF Lines

\* An end line stays what it is known to be.
LEMMA EndKnownKept ==
    ASSUME IInv, Next, NEW l \in LineSet, Known(l, mem, run), EndKnown(l, turn, mem, catalogue)
    PROVE  EndKnown(l, turn', mem', catalogue')
<1>. SUFFICES ASSUME l.kind = "end" PROVE EndKnown(l, turn', mem', catalogue')
  BY DEF EndKnown
<1>0. /\ turn.at \in {"barrier", "streaming"} => l.of # turn.of
      /\ turn.at \in {"sealing", "cataloguing"} /\ l.of = turn.of => l.how = turn.how
      /\ mem[l.of].sealed => l.how = "ok"
      /\ \A c \in catalogue : c.of = l.of => l.how \in {"ok", "refusal"}
  BY DEF EndKnown
<1>1. PICK k \in 1 .. Len(mem) : k = l.of
  BY SMTT(30) DEF Known, OfTurns
<1>2. mem'[k].sealed => l.how = "ok"
  <2>1. mem \in Seq(MemSet) /\ TurnMoves(k)
    BY StepMem DEF IInv, Shape
  <2>2. mem[k] \in MemSet
    BY <2>1, SeqIs
  <2>. PICK a \in MemSet : a = mem[k]
    BY <2>2
  <2>. PICK b : b = mem'[k]
    OBVIOUS
  <2>3. CASE Seal /\ k = turn.of /\ SealedTo(a, b, turn.how = "ok" /\ rec.state = "on")
    BY <1>0, <1>1, <2>3 DEF Seal, SealedTo
  <2>4. CASE b = [a EXCEPT !.facts = b.facts] \/ b = [a EXCEPT !.state = "done"]
    <3>1. b.sealed = a.sealed
      BY <2>4 DEF MemSet
    <3>. QED
      BY <1>0, <1>1, <3>1
  <2>. QED
    BY <1>0, <1>1, <2>1, <2>3, <2>4 DEF TurnMoves, SettledTo, DiscardedTo, ClosedTo, GoneTo
<1>3. /\ turn'.at \in {"barrier", "streaming"} => l.of # turn'.of
      /\ turn'.at \in {"sealing", "cataloguing"} /\ l.of = turn'.of => l.how = turn'.how
      /\ \A c \in catalogue' : c.of = l.of => l.how \in {"ok", "refusal"}
  <2>0. turn \in TurnSet
    BY DEF IInv, Shape
  <2>1. CASE UNCHANGED <<turn, catalogue>>
    BY <1>0, <2>1
  <2>2. SkipBatch \/ BeginWrite \/ OpenFails \/ WriteSucceeds \/ WriteFails
        \/ StopWritten \/ StopFails \/ Note \/ Memory \/ Emit \/ RecordFails
        \/ TailLands \/ Opens \/ (\E retire \in BOOLEAN : Close(retire)) \/ Drained \/ StrayLands \/ Restart
        => UNCHANGED <<turn, catalogue>>
    BY Zenon DEF SkipBatch, BeginWrite, OpenFails, WriteSucceeds, WriteFails, Memory,
       StopWritten, StopFails, Note, CommitReads, CommitWrites, Stage, SourceMoves, Forget, Edit,
       Emit, RecordFails, TailLands, Opens, Close, Drained, StrayLands, Restart, unwritten
  <2>3. CASE Leave \/ Crash \/ Unwind
    <3>1. turn' = NoTurn /\ catalogue' = catalogue
      BY <2>3 DEF Leave, Crash, Gone, Unwind
    <3>. QED
      BY <1>0, <3>1 DEF NoTurn
  <2>4. CASE \E o \in left.opens : Begin(o[1], o[2])
    <3>1. turn'.of = Len(mem) + 1 /\ turn'.at \in {"barrier", "streaming"} /\ catalogue' = catalogue
      <4>1. PICK o \in left.opens : Begin(o[1], o[2])
        BY <2>4
      <4>2. PICK p \in BOOLEAN, q \in BOOLEAN : p = o[1] /\ q = o[2]
        BY LeftIs DEF IInv
      <4>3. catalogue' = catalogue
        BY <4>1 DEF Begin
      <4>. QED
        BY <4>1, <4>2, <4>3, BeginIs DEF IInv, Ledger
    <3>2. Len(mem) \in Nat
      BY SeqIs DEF IInv, Shape
    <3>. QED
      BY <1>0, <1>1, <3>1, <3>2
  <2>5. CASE BarrierPasses \/ BarrierTimesOut
    BY <1>0, <2>0, <2>5 DEF BarrierPasses, BarrierTimesOut, TurnSet
  <2>6. CASE \E o \in left.ends : StreamEnds(o[1], o[2])
    BY <1>0, <2>0, <2>6 DEF StreamEnds, TurnSet
  <2>7. CASE Seal
    BY <1>0, <2>0, <2>7 DEF Seal, TurnSet, NoTurn
  <2>8. CASE Catalogue
    <3>1. turn' = NoTurn /\ turn.at = "cataloguing"
          /\ catalogue' \subseteq catalogue \cup {[of |-> turn.of, turn |-> turn.n]}
      BY <2>8 DEF Catalogue
    <3>2. turn.how \in {"ok", "refusal"}
      BY <3>1 DEF IInv, Sending
    <3>3. \A c \in catalogue' : c \in catalogue \/ c.of = turn.of
      BY <3>1
    <3>. QED
      BY <1>0, <3>1, <3>2, <3>3 DEF NoTurn
  <2>. QED
    BY <2>1, <2>2, <2>3, <2>4, <2>5, <2>6, <2>7, <2>8 DEF Next, Record, Turn, Life
<1>. QED
  BY <1>1, <1>2, <1>3 DEF EndKnown

LEMMA EndKnownAdded ==
    ASSUME IInv, Next, NEW b, Added(b)
    PROVE  \A x \in 1 .. Len(b.lines) : EndKnown(b.lines[x], turn', mem', catalogue')
<1>0. /\ Len(mem) \in Nat /\ rec.turns \in Nat /\ turn.of \in Nat /\ turn.n \in Nat
  BY SeqIs DEF IInv, Shape, RecSet, TurnSet
<1>1. \A l, kind, k, n, how : kind # "end" /\ IsLine(l, kind, k, n, how, run) =>
         EndKnown(l, turn', mem', catalogue')
  BY DEF IsLine, EndKnown
<1>2. "note" \in Kinds /\ "event" \in Kinds /\ "end" \in Kinds /\ Opening \subseteq Kinds
        /\ "end" \notin Opening
      /\ Len(mem) + 1 \in Nat
  BY <1>0 DEF Kinds, OfTurns, Opening
<1>3. ASSUME NEW kind \in Kinds, kind # "end", NEW k \in Nat, NEW n, NEW how, OneLine(b, kind, k, n, how, run)
      PROVE  \A x \in 1 .. Len(b.lines) : EndKnown(b.lines[x], turn', mem', catalogue')
  BY <1>1, <1>3, OneLineHas
<1>4. CASE /\ turn.at = "streaming" /\ turn.n # 0 /\ rec.state = "on"
           /\ turn'.at \in {"sealing", "unwinding"} /\ turn'.of = turn.of /\ turn'.how \in Hows
           /\ UNCHANGED <<mem, catalogue, rec>>
           /\ \/ OneLine(b, "end", turn.of, turn.n, turn'.how, run)
              \/ TwoLines(b, turn.of, turn.n, turn'.how, run)
  <2>1. ~mem[turn.of].sealed /\ \A c \in catalogue : c.of < turn.of
    BY <1>4 DEF IInv, Sending
  <2>2. \A c \in catalogue : c.of # turn.of
    BY <1>0, <2>1
  <2>3. PICK how : how = turn'.how
    OBVIOUS
  <2>4. ASSUME NEW l, IsLine(l, "end", turn.of, turn.n, how, run) PROVE EndKnown(l, turn', mem', catalogue')
    BY <1>4, <2>1, <2>2, <2>3, <2>4 DEF IsLine, EndKnown
  <2>. QED
    BY <1>0, <1>1, <1>2, <1>4, <2>3, <2>4, OneLineHas, TwoLinesHave
<1>. QED
  BY <1>0, <1>2, <1>3, <1>4 DEF Added

LEMMA EndsKept ==
    ASSUME IInv, Next
    PROVE  Ends'
<1>0. ASSUME NEW l \in LineSet, Whole(l), Source(l)
      PROVE  EndKnown(l, turn, mem, catalogue)
  <2>1. CASE io = "writing" /\ \E x \in 1 .. Len(chain[1].lines) : Copies(l, chain[1].lines[x])
    <3>1. 1 \in 1 .. Len(chain)
      BY <2>1, SeqIs DEF IInv, Shape, Writing
    <3>. QED
      BY <2>1, <3>1 DEF IInv, Ends, Copies, EndKnown
  <2>2. CASE \E s \in stray : \E x \in 1 .. Len(s.lines) : l = s.lines[x]
    BY <2>2 DEF IInv, Ends
  <2>3. CASE l.kind = "header" \/ l = StopLine
    BY <2>3, StopIs DEF IInv, EndKnown
  <2>. QED
    BY <1>0, <2>1, <2>2, <2>3 DEF Source
<1>1. ASSUME NEW i \in Places(file') PROVE EndKnown(file'[i], turn', mem', catalogue')
  <2>1. file' \in Seq(LineSet) /\ ((i \in Places(file) /\ file'[i] = file[i]) \/ Source(file'[i]))
    BY StepFile
  <2>2. file'[i] \in LineSet /\ Whole(file'[i])
    BY <2>1, PlacesAre
  <2>. PICK l \in LineSet : l = file'[i] /\ Whole(l)
    BY <2>2
  <2>3. Known(l, mem, run) /\ EndKnown(l, turn, mem, catalogue)
    BY <1>0, <2>1, KnownSource DEF IInv, Lines, Ends
  <2>. QED
    BY <2>3, EndKnownKept
<1>2. ASSUME NEW b \in 1 .. Len(chain'), NEW x \in 1 .. Len(chain'[b].lines)
      PROVE  EndKnown(chain'[b].lines[x], turn', mem', catalogue')
  <2>1. CASE \E d \in 1 .. Len(chain) : chain'[b] = chain[d]
    <3>1. PICK d \in 1 .. Len(chain) : chain'[b] = chain[d]
      BY <2>1
    <3>. PICK l \in LineSet : l = chain[d].lines[x] /\ x \in 1 .. Len(chain[d].lines)
      BY <3>1, BatchIs DEF IInv
    <3>2. Known(l, mem, run) /\ EndKnown(l, turn, mem, catalogue)
      BY DEF IInv, Lines, Ends
    <3>. QED
      BY <3>1, <3>2, EndKnownKept
  <2>2. CASE Added(chain'[b])
    BY <2>2, EndKnownAdded
  <2>. QED
    BY <2>1, <2>2, ChainLines
<1>3. ASSUME NEW s \in stray', NEW x \in 1 .. Len(s.lines)
      PROVE  EndKnown(s.lines[x], turn', mem', catalogue')
  <2>1. CASE s \in stray
    <3>1. s.lines \in Seq(LineSet)
      BY <2>1 DEF IInv, Shape, StraySet
    <3>. PICK l \in LineSet : l = s.lines[x]
      BY <3>1, SeqIs
    <3>2. Known(l, mem, run) /\ EndKnown(l, turn, mem, catalogue)
      BY <2>1 DEF IInv, Lines, Ends
    <3>. QED
      BY <3>2, EndKnownKept
  <2>2. CASE s = [lines |-> InFlight, guard |-> Guarded]
    <3>. PICK l \in LineSet : l = InFlight[x] /\ Whole(l) /\ Source(l)
      <4>1. InFlight \in Seq(LineSet) /\ x \in 1 .. Len(InFlight)
        BY <2>2, InFlightIs DEF IInv
      <4>2. InFlight[x] \in LineSet
        BY <4>1, SeqIs
      <4>. QED
        BY <4>1, <4>2, InFlightIs, InFlightSource DEF IInv
    <3>1. Known(l, mem, run) /\ EndKnown(l, turn, mem, catalogue)
      BY <1>0, KnownSource
    <3>. QED
      BY <2>2, <3>1, EndKnownKept
  <2>. QED
    BY <2>1, <2>2, StepStray
<1>. QED
  BY <1>1, <1>2, <1>3 DEF Ends

-----------------------------------------------------------------------------
(* The recorder *)

\* What a process finds when it reads the file.
LEMMA TailIs ==
    ASSUME Shape, Lines
    PROVE  /\ LastTurn \in Nat /\ LastTurn <= Len(mem) /\ \A i \in Places(file) : file[i].turn <= LastTurn
           /\ NextSeq \in Nat /\ (Places(file) = {} => NextSeq = 0)
           /\ Places(file) # {} =>
                 \E i \in Places(file) : NextSeq = file[i].seq + 1 /\ \A j \in Places(file) : j <= i
           /\ NeedsNewline = EndsTorn(file) /\ Len(file) \in Nat
<1>. PICK f \in Seq(LineSet) : f = file
  BY DEF Shape
<1>. PICK P : P = Places(f)
  OBVIOUS
<1>0. Records = P
  BY DEF Records, Places
<1>. PICK n \in Nat, l \in Nat : n = Len(mem) /\ l = Len(f)
  BY SeqIs DEF Shape
<1>1. \A i \in P : i \in 0 .. l /\ f[i] \in LineSet /\ f[i].turn \in 0 .. n /\ f[i].seq \in Nat
  BY PlacesAre, LineIs DEF Lines, Known
<1>2. /\ LastTurn \in Nat /\ LastTurn <= n /\ \A i \in P : f[i].turn <= LastTurn
  <2>. PICK T : T = {0} \cup {f[i].turn : i \in P}
    OBVIOUS
  <2>1. T \in SUBSET (0 .. n) /\ T # {}
    BY <1>1
  <2>2. Max(T) \in T /\ \A y \in T : y <= Max(T)
    BY <2>1, MaxIs
  <2>3. LastTurn = Max(T)
    BY <1>0 DEF LastTurn
  <2>4. LastTurn \in 0 .. n
    BY <2>1, <2>2, <2>3
  <2>5. \A i \in P : f[i].turn \in T
    OBVIOUS
  <2>6. \A i \in P : f[i].turn <= LastTurn
    BY <2>2, <2>3, <2>5
  <2>. QED
    BY <2>4, <2>6
<1>3. P = {} => NextSeq = 0
  BY <1>0 DEF NextSeq
<1>4. ASSUME P # {}
      PROVE  NextSeq \in Nat /\ \E i \in P : NextSeq = f[i].seq + 1 /\ \A j \in P : j <= i
  <2>1. P \in SUBSET (0 .. l)
    BY <1>1
  <2>2. Max(P) \in P /\ \A y \in P : y <= Max(P)
    BY <1>4, <2>1, MaxIs
  <2>3. NextSeq = f[Max(P)].seq + 1
    BY <1>0, <1>4 DEF NextSeq
  <2>. QED
    BY <1>1, <2>2, <2>3
<1>5. NeedsNewline = EndsTorn(file)
  BY DEF NeedsNewline, EndsTorn
<1>. QED
  BY <1>2, <1>3, <1>4, <1>5

LEMMA StepRec ==
    ASSUME IInv, Next
    PROVE  /\ rec' \in RecSet
           /\ \/ rec' = rec
              \/ /\ TailLands /\ ~rec.tail /\ rec'.tail /\ rec'.state = rec.state /\ rec'.header = rec.header
                 /\ rec'.turns = rec.turns \/ (rec.turns = 0 /\ rec'.turns = LastTurn)
              \/ /\ OpenFails \/ WriteFails \/ StopFails \/ BarrierTimesOut \/ RecordFails
                 /\ rec' = Failed
              \/ /\ WriteSucceeds /\ ~rec'.header /\ ~rec'.guard /\ rec'.state = rec.state
                 /\ rec'.tail = rec.tail /\ rec'.turns = rec.turns /\ rec'.seq = rec.seq + Len(Payload)
              \/ /\ StopWritten /\ rec'.state = (IF rec.state = "on" THEN "full" ELSE rec.state)
                 /\ rec'.header = rec.header /\ rec'.guard = rec.guard /\ rec'.tail = rec.tail
                 /\ rec'.turns = rec.turns /\ rec'.seq = rec.seq + 1
              \/ /\ \E o \in left.opens : Begin(o[1], o[2])
                 /\ rec.state = "on" /\ rec' = [rec EXCEPT !.turns = rec.turns + 1]
              \/ Restart /\ rec' = Fresh
<1>0. rec \in RecSet /\ rec.turns \in Nat /\ rec.seq \in Nat /\ rec.size \in Nat
  BY DEF IInv, Shape, RecSet
<1>1. CASE rec' = rec
  BY <1>0, <1>1
<1>2. CommitReads \/ (\E f \in Fact : SourceMoves(f)) \/ (\E key \in Key : Forget(key))
      \/ (\E key \in Key, f \in Fact : Edit(key, f)) \/ Emit \/ Catalogue \/ Opens \/ StrayLands
           \/ BarrierPasses
      \/ Unwind \/ Seal \/ Drained \/ (\E f \in Fact : Stage(f)) \/ CommitWrites \/ Note \/ Leave \/ Crash
      \/ (\E o \in left.ends : StreamEnds(o[1], o[2])) \/ (\E retire \in BOOLEAN : Close(retire))
      \/ SkipBatch \/ BeginWrite => rec' = rec
  BY Zenon DEF CommitReads, SourceMoves, Forget, Edit, Emit, Catalogue, Opens, StrayLands, BarrierPasses,
     Note,
         StreamEnds, Close, SkipBatch, BeginWrite, Unwind, Seal, Drained, Stage, CommitWrites, Leave, Crash,
         Gone,
         recorder
<1>3. CASE TailLands
  <2>. PICK t \in Nat, q \in Nat, z \in Nat, g \in BOOLEAN :
          t = LastTurn /\ q = NextSeq /\ z = Len(file) /\ g = NeedsNewline
    BY TailIs DEF IInv, EndsTorn
  <2>1. \/ rec' = [rec EXCEPT !.tail = TRUE, !.seq = q, !.size = z, !.guard = g,
                              !.turns = IF rec.turns = 0 THEN t ELSE rec.turns]
        \/ rec' = [rec EXCEPT !.tail = TRUE]
    BY <1>3 DEF TailLands
  <2>2. ~rec.tail
    BY <1>3 DEF TailLands
  <2>. QED
    BY <1>0, <1>3, <2>1, <2>2 DEF RecSet
<1>4. CASE OpenFails \/ WriteFails \/ StopFails \/ BarrierTimesOut \/ RecordFails
  <2>1. rec' = Failed
    BY <1>4 DEF OpenFails, WriteFails, StopFails, BarrierTimesOut, RecordFails
  <2>2. Failed \in RecSet
    BY <1>0 DEF Failed, RecSet
  <2>. QED
    BY <1>4, <2>1, <2>2
<1>5. CASE WriteSucceeds
  <2>1. io = "writing"
    BY <1>5 DEF WriteSucceeds
  <2>. PICK n \in Nat : n = Len(Payload)
    BY <2>1, PayloadSource, SeqIs DEF IInv
  <2>. PICK q \in Nat, z \in Nat : q = rec.seq + n /\ z = rec.size + n
    BY <1>0
  <2>2. rec' = [rec EXCEPT !.header = FALSE, !.guard = FALSE, !.seq = q, !.size = z]
    BY <1>5 DEF WriteSucceeds
  <2>3. /\ rec' \in RecSet /\ ~rec'.header /\ ~rec'.guard /\ rec'.state = rec.state /\ rec'.tail = rec.tail
        /\ rec'.turns = rec.turns /\ rec'.seq = q
    BY ONLY <1>0, <2>2, q \in Nat, z \in Nat DEF RecSet
  <2>. QED
    BY <1>5, <2>3
<1>6. CASE StopWritten
  <2>. PICK q \in Nat, st \in {"on", "full", "failed"} :
          q = rec.seq + 1 /\ st = IF rec.state = "on" THEN "full" ELSE rec.state
    BY <1>0 DEF RecSet
  <2>1. rec' = [rec EXCEPT !.state = st, !.seq = q]
    BY <1>6 DEF StopWritten
  <2>2. /\ rec' \in RecSet /\ rec'.header = rec.header /\ rec'.guard = rec.guard /\ rec'.state = st
        /\ rec'.tail = rec.tail /\ rec'.turns = rec.turns /\ rec'.seq = q
    BY ONLY <1>0, <2>1, q \in Nat, st \in {"on", "full", "failed"} DEF RecSet
  <2>. QED
    BY <1>6, <2>2
<1>7. CASE \E o \in left.opens : Begin(o[1], o[2])
  <2>1. PICK o \in left.opens : Begin(o[1], o[2])
    BY <1>7
  <2>2. rec' = IF rec.state = "on" THEN [rec EXCEPT !.turns = rec.turns + 1] ELSE rec
    BY <2>1 DEF Begin
  <2>. QED
    BY <1>0, <1>7, <2>2 DEF RecSet
<1>8. CASE Restart
  <2>1. Fresh \in RecSet
    BY DEF Fresh, RecSet
  <2>. QED
    BY <1>8, <2>1 DEF Restart
<1>. QED
  BY <1>1, <1>2, <1>3, <1>4, <1>5, <1>6, <1>7, <1>8 DEF Next, Record, Memory, Turn, Life

\* What can happen once the process is down.
LEMMA WhenDown ==
    ASSUME IInv, Next, phase = "down"
    PROVE  \/ Restart
           \/ UNCHANGED <<rec, pending, chain, io, mem, commits, commit, run, phase, detached, waits,
                retired, owed,
                          turn, catalogue>>
<1>1. chain = <<>> /\ turn.at = "idle" /\ commits = <<>>
  BY DEF IInv, Down
<1>2. CASE Memory
  <2>1. ~CommitReads /\ ~CommitWrites /\ \A f \in Fact : ~Stage(f)
    BY <1>1 DEF CommitReads, CommitWrites, Stage
  <2>2. \/ \E f \in Fact : SourceMoves(f)
        \/ \E key \in Key : Forget(key)
        \/ \E key \in Key, f \in Fact : Edit(key, f)
    BY <1>2, <2>1 DEF Memory
  <2>. QED
    BY Zenon, <2>2 DEF SourceMoves, Forget, Edit, recorder, life
<1>3. CASE Record
  BY <1>3 DEF Record, SkipBatch, BeginWrite, OpenFails, WriteSucceeds, WriteFails, StopWritten, StopFails,
     Note, Running
<1>4. CASE Turn
  BY <1>1, <1>4 DEF Turn, Begin, BarrierPasses, BarrierTimesOut, Emit, RecordFails, StreamEnds, Seal,
     Catalogue, Unwind
<1>5. CASE Life
  <2>1. StrayLands \/ Restart
    BY <1>5 DEF Life, TailLands, Opens, Close, Drained, Leave, Crash
  <2>. QED
    BY <2>1 DEF StrayLands, memory
<1>. QED
  BY <1>2, <1>3, <1>4, <1>5 DEF Next

LEMMA InFlightRun ==
    ASSUME Shape, Writing
    PROVE  \A y \in 1 .. Len(InFlight) : InFlight[y].run = run
<1>1. SUFFICES ASSUME NEW y \in 1 .. Len(InFlight) PROVE InFlight[y].run = run
  OBVIOUS
<1>2. io \in {"idle", "writing", "stopping"}
  BY DEF Shape
<1>3. CASE io = "writing"
  <2>1. chain # <<>> /\ InFlight = Payload /\ 1 \in 1 .. Len(chain)
    BY <1>3, InFlightIs, SeqIs DEF Writing, Shape
  <2>. PICK p : p = Payload
    OBVIOUS
  <2>2. \A x \in 1 .. Len(chain[1].lines) : chain[1].lines[x].run = run
    BY <2>1, BatchIs
  <2>. PICK ls \in Seq(LineSet) : ls = chain[1].lines
    BY <2>1, BatchIs
  <2>. PICK q \in Nat, hd \in BOOLEAN : q = rec.seq /\ hd = rec.header
    BY DEF Shape, RecSet
  <2>3. Sent(p, hd, ls, run, q) /\ y \in 1 .. Len(p)
    BY <1>1, <2>1, PayloadIs
  <2>4. \/ hd /\ y = 1 /\ p[y].kind = "header" /\ p[y].of = 0 /\ p[y].turn = 0 /\ p[y].run = run
        \/ \E x \in 1 .. Len(ls) : Copies(p[y], ls[x])
    BY ONLY <2>3, q \in Nat, hd \in BOOLEAN, ls \in Seq(LineSet), SentIs
  <2>. QED
    BY <2>1, <2>2, <2>4 DEF Copies
<1>4. CASE io = "stopping"
  <2>1. InFlight = <<StopLine>> /\ Len(<<StopLine>>) = 1 /\ <<StopLine>>[1] = StopLine /\ StopLine.run = run
    BY <1>4, InFlightIs, StopIs
  <2>2. y = 1
    BY <1>1, <2>1
  <2>. QED
    BY <2>1, <2>2
<1>5. CASE io = "idle"
  <2>1. InFlight = <<>>
    BY <1>5, InFlightIs
  <2>. QED
    BY <1>1, <2>1
<1>. QED
  BY <1>2, <1>3, <1>4, <1>5

LEMMA NumberedOn ==
    ASSUME NEW m \in Seq(MemSet), NEW n, Grown(m, n), Len(n) = Len(m),
           NEW r \in Nat, NEW t \in Nat, Numbered(m, r, t), NEW u \in Nat, t <= u, u <= Len(m)
    PROVE  Numbered(n, r, u)
<1>1. n \in Seq(MemSet) /\ \A k \in 1 .. Len(m) : n[k].turn = m[k].turn /\ n[k].run = m[k].run
  BY DEF Grown
<1>2. Len(m) \in Nat /\ \A k \in 1 .. Len(m) : m[k].turn \in Nat /\ m[k].run \in Nat
  BY SeqIs, MemIs
<1>3. \A k \in 1 .. Len(m) : m[k].run <= r /\ m[k].turn <= Len(m) /\ (m[k].run = r => m[k].turn <= u)
  BY <1>2 DEF Numbered
<1>4. /\ \A k, l \in 1 .. Len(m) : k < l => m[k].run <= m[l].run
      /\ \A k, l \in 1 .. Len(m) :
            k < l /\ m[k].run = r /\ m[l].run = r /\ m[k].turn # 0 /\ m[l].turn # 0 => m[k].turn < m[l].turn
  BY DEF Numbered
<1>5. /\ \A k \in 1 .. Len(n) : n[k].run <= r /\ n[k].turn <= Len(n) /\ (n[k].run = r => n[k].turn <= u)
      /\ \A k, l \in 1 .. Len(n) : k < l => n[k].run <= n[l].run
      /\ \A k, l \in 1 .. Len(n) :
            k < l /\ n[k].run = r /\ n[l].run = r /\ n[k].turn # 0 /\ n[l].turn # 0 => n[k].turn < n[l].turn
  BY <1>1, <1>3, <1>4
<1>. QED
  BY <1>5 DEF Numbered

LEMMA NumbersKept ==
    ASSUME IInv, Next
    PROVE  Numbers'
<1>. PICK m \in Seq(MemSet) : m = mem
  BY DEF IInv, Shape
<1>. PICK n : n = mem'
  OBVIOUS
<1>. PICK t \in Nat : t = rec.turns
  BY DEF IInv, Shape, RecSet
<1>. PICK r \in Nat : r = run
  BY DEF IInv, Shape
<1>0. /\ Numbered(m, r, t) /\ Len(m) \in Nat /\ t <= Len(m)
      /\ \A k \in 1 .. Len(m) : m[k].turn \in Nat /\ m[k].run \in Nat
  BY SeqIs, MemIs DEF IInv, Numbers, Numbered
<1>1. CASE \E o \in left.opens : Begin(o[1], o[2])
  <2>1. PICK o \in left.opens : Begin(o[1], o[2])
    BY <1>1
  <2>2. PICK p \in BOOLEAN, q \in BOOLEAN : p = o[1] /\ q = o[2]
    BY LeftIs DEF IInv
  <2>. PICK on \in BOOLEAN : on = (rec.state = "on")
    OBVIOUS
  <2>. PICK u \in Nat : u = IF on THEN t + 1 ELSE 0
    OBVIOUS
  <2>3. /\ NewTurn(mem, mem', rec.state = "on", IF rec.state = "on" THEN rec.turns + 1 ELSE 0, run)
        /\ rec' = IF rec.state = "on" THEN [rec EXCEPT !.turns = rec.turns + 1] ELSE rec
    BY <2>1, <2>2, BeginIs DEF IInv, Ledger
  <2>4. NewTurn(m, n, on, u, r)
    BY <2>3
  <2>. PICK v \in Nat : v = IF on THEN t + 1 ELSE t
    OBVIOUS
  <2>5. rec'.turns = v /\ run' = r
    <3>1. rec \in RecSet
      BY DEF IInv, Shape
    <3>. QED
      BY <2>1, <2>3, <3>1 DEF Begin, life, RecSet
  <2>6. /\ Len(n) = Len(m) + 1 /\ (\A k \in 1 .. Len(m) : n[k] = m[k])
        /\ n[Len(m) + 1].turn = u /\ n[Len(m) + 1].run = r
    BY <2>4 DEF NewTurn
  <2>. PICK l \in Nat : l = Len(m) + 1
    BY <1>0
  <2>7. \A k \in 1 .. Len(n) : k \in 1 .. Len(m) \/ k = l
    BY <1>0, <2>6
  <2>8. \A k \in 1 .. Len(m) :
           /\ n[k].run = m[k].run /\ n[k].turn = m[k].turn
           /\ m[k].run <= r /\ m[k].turn <= Len(m) /\ (m[k].run = r => m[k].turn <= t)
    BY <1>0, <2>6 DEF Numbered
  <2>9. \A k \in 1 .. Len(n) : n[k].run <= r /\ n[k].turn <= Len(n) /\ (n[k].run = r => n[k].turn <= v)
    <3>1. SUFFICES ASSUME NEW k \in 1 .. Len(n)
                   PROVE  n[k].run <= r /\ n[k].turn <= Len(n) /\ (n[k].run = r => n[k].turn <= v)
      OBVIOUS
    <3>2. CASE k \in 1 .. Len(m)
      <4>1. /\ n[k].run = m[k].run /\ n[k].turn = m[k].turn /\ m[k] \in MemSet
            /\ m[k].run <= r /\ m[k].turn <= Len(m) /\ (m[k].run = r => m[k].turn <= t)
        BY <1>0, <2>8, <3>2
      <4>2. t <= v /\ Len(m) \in Nat /\ Len(n) \in Nat /\ Len(m) <= Len(n)
        BY <1>0, <2>6
      <4>3. n[k].run \in Nat /\ n[k].turn \in Nat
        BY <1>0, <3>2, <4>1
      <4>. QED
        BY ONLY <4>1, <4>2, <4>3, t \in Nat, v \in Nat, r \in Nat
    <3>3. CASE k = l
      BY <1>0, <2>6, <3>3
    <3>. QED
      BY <2>7, <3>2, <3>3
  <2>10. \A k, j \in 1 .. Len(n) : k < j => n[k].run <= n[j].run
    <3>1. SUFFICES ASSUME NEW k \in 1 .. Len(n), NEW j \in 1 .. Len(n), k < j PROVE n[k].run <= n[j].run
      OBVIOUS
    <3>2. k \in 1 .. Len(m)
      BY <1>0, <2>6, <3>1
    <3>3. CASE j \in 1 .. Len(m)
      BY <1>0, <2>6, <3>1, <3>2, <3>3 DEF Numbered
    <3>4. CASE j = l
      BY <2>6, <2>8, <3>2, <3>4
    <3>. QED
      BY <2>7, <3>3, <3>4
  <2>11. \A k, j \in 1 .. Len(n) :
            k < j /\ n[k].run = r /\ n[j].run = r /\ n[k].turn # 0 /\ n[j].turn # 0 => n[k].turn < n[j].turn
    <3>1. SUFFICES ASSUME NEW k \in 1 .. Len(n), NEW j \in 1 .. Len(n), k < j, n[k].run = r, n[j].run = r,
                          n[k].turn # 0, n[j].turn # 0
                   PROVE  n[k].turn < n[j].turn
      OBVIOUS
    <3>2. k \in 1 .. Len(m)
      BY <1>0, <2>6, <3>1
    <3>3. CASE j \in 1 .. Len(m)
      BY <1>0, <2>6, <3>1, <3>2, <3>3, SMTT(30) DEF Numbered
    <3>4. CASE j = l
      <4>1. n[j].turn = t + 1
        BY <2>6, <3>1, <3>4
      <4>2. n[k].turn <= t /\ n[k].turn \in Nat
        BY <1>0, <2>8, <3>1, <3>2
      <4>. QED
        BY <4>1, <4>2
    <3>. QED
      BY <2>7, <3>3, <3>4
  <2>12. Numbered(n, r, v)
    BY <1>0, <2>6, <2>9, <2>10, <2>11 DEF Numbered
  <2>. QED
    BY <2>5, <2>12 DEF Numbers
<1>2. CASE Restart
  <2>1. n = m /\ run' = r + 1 /\ rec'.turns = 0
    BY <1>2 DEF Restart, memory, Fresh
  <2>2. \A k \in 1 .. Len(m) : m[k].run <= r
    BY <1>0 DEF Numbered
  <2>3. Numbered(m, r + 1, 0)
    BY <1>0, <2>2 DEF Numbered
  <2>. QED
    BY <2>1, <2>3 DEF Numbers
<1>3. CASE ~Restart /\ ~\E o \in left.opens : Begin(o[1], o[2])
  <2>1. Grown(m, n) /\ Len(n) = Len(m) /\ run' = r
    BY <1>3, StepMem, StepRun
  <2>2. rec'.turns \in Nat /\ t <= rec'.turns /\ rec'.turns <= Len(m)
    <3>1. rec \in RecSet /\ rec' \in RecSet
      BY StepRec DEF IInv, Shape
    <3>2. rec'.turns = t \/ (t = 0 /\ rec'.turns = LastTurn)
      BY <1>3, <3>1, StepRec DEF Failed, RecSet
    <3>. QED
      BY <1>0, <3>2, TailIs DEF IInv
  <2>. PICK u \in Nat : u = rec'.turns
    BY <2>2
  <2>3. Numbered(n, r, u)
    BY <1>0, <2>1, <2>2, NumberedOn
  <2>. QED
    BY <2>1, <2>3 DEF Numbers
<1>. QED
  BY <1>1, <1>2, <1>3

LEMMA StraysKept ==
    ASSUME IInv, Next
    PROVE  Strays'
<1>0. /\ \A s \in stray : Given(s) /\ (Last(s.lines).run = run => phase = "down" /\ owed = {})
      /\ \A s, t \in stray : Last(s.lines).run = run /\ Last(t.lines).run = run => s = t
  BY DEF IInv, Strays
<1>1. CASE stray' \subseteq stray
  <2>1. ASSUME NEW s \in stray, Last(s.lines).run = run'
        PROVE  run' = run /\ phase' = "down" /\ owed' = {}
    <3>1. s.lines \in Seq(LineSet) /\ s.lines # <<>>
      BY <1>0 DEF IInv, Shape, StraySet, Given
    <3>2. PICK x \in 1 .. Len(s.lines) : Last(s.lines) = s.lines[x] /\ s.lines[x] \in LineSet
      BY <3>1, SeqIs
    <3>3. Last(s.lines).run <= run /\ run \in Nat
      BY <3>2 DEF IInv, Shape, Lines, Known
    <3>4. run' = run /\ ~Restart
      <4>1. Restart => run' = run + 1
        BY DEF Restart
      <4>. QED
        BY <2>1, <3>3, <4>1, StepRun
    <3>5. phase = "down" /\ owed = {}
      BY <1>0, <2>1, <3>4
    <3>. QED
      BY <3>4, <3>5, WhenDown
  <2>. QED
    BY <1>0, <1>1, <2>1 DEF Strays
<1>2. CASE /\ Leave /\ retired /\ io # "idle"
           /\ stray' = stray \cup {[lines |-> InFlight, guard |-> Guarded]}
  <2>1. phase = "committing" /\ phase' = "down" /\ owed' = owed /\ run' = run
    BY <1>2 DEF Leave, Gone
  <2>2. owed = {}
    BY <1>2 DEF IInv, Promised
  <2>3. \A s \in stray : Given(s) /\ Last(s.lines).run # run
    BY <1>0, <2>1
  <2>. PICK ls \in Seq(LineSet) : ls = InFlight
    BY InFlightIs DEF IInv
  <2>4. ls # <<>> /\ \A y \in 1 .. Len(ls) : Whole(ls[y]) /\ ls[y].run = run
    BY <1>2, InFlightIs, InFlightRun DEF IInv
  <2>. PICK s : s = [lines |-> ls, guard |-> Guarded]
    OBVIOUS
  <2>5. Given(s)
    <3>1. Len(ls) \in 1 .. Len(ls) /\ Last(ls) = ls[Len(ls)]
      BY <2>4, SeqIs
    <3>2. run # 0
      BY DEF IInv, Shape
    <3>. QED
      BY <2>4, <3>1, <3>2 DEF Given
  <2>. QED
    BY <1>2, <2>1, <2>2, <2>3, <2>5 DEF Strays
<1>. QED
  BY <1>1, <1>2, StepStray

LEMMA WritingKept ==
    ASSUME IInv, Next
    PROVE  Writing'
<1>. PICK c \in Seq(BatchSet) : c = chain
  BY DEF IInv, Shape
<1>. PICK d \in Seq(BatchSet) : d = chain'
  BY StepChain
<1>0. Len(c) \in Nat /\ Len(d) \in Nat /\ (c # <<>> <=> Len(c) > 0) /\ (d # <<>> <=> Len(d) > 0)
  BY SeqIs
<1>1. ASSUME Restart PROVE phase = "down" /\ c = <<>> /\ d = <<>> /\ io = "idle" /\ io' = "idle" /\ waits' = 0
                           /\ ~detached'
  BY <1>1 DEF Restart, IInv, Down
<1>2. \A b \in 1 .. Len(d) : Batch(d[b], run')
  <2>1. SUFFICES ASSUME NEW b \in 1 .. Len(d) PROVE Batch(d[b], run')
    OBVIOUS
  <2>2. run' = run
    <3>1. ~Restart
      BY <1>0, <1>1, <2>1
    <3>. QED
      BY <3>1, StepRun
  <2>3. \A e \in 1 .. Len(c) : Batch(c[e], run)
    BY DEF IInv, Writing
  <2>. QED
    BY <2>2, <2>3, ChainLines, KnownAdded
<1>3. rec \in RecSet /\ rec' \in RecSet /\ io \in {"idle", "writing", "stopping"}
  BY StepRec DEF IInv, Shape
<1>4. /\ io # "idle" => c # <<>> /\ rec.tail /\ rec.state # "full"
      /\ io = "stopping" => ~rec.header /\ ~rec.guard
      /\ ~rec.header => rec.seq # 0 /\ rec.tail
      /\ waits <= Len(c) /\ (waits # 0 => phase = "flushing")
      /\ detached => rec.state # "on"
  BY DEF IInv, Writing
<1>5. Failed.tail = rec.tail /\ Failed.header = rec.header /\ Failed.seq = rec.seq /\ Failed.guard = rec.guard
      /\ Failed.state = (IF rec.state = "on" THEN "failed" ELSE rec.state)
  BY <1>3 DEF Failed, RecSet
<1>6. ASSUME io' = io, io # "idle"
      PROVE  d # <<>> /\ rec'.tail /\ rec'.state # "full" /\ rec'.header = rec.header
             /\ rec'.guard = rec.guard
  <2>1. ~Restart /\ ~WriteSucceeds /\ ~StopWritten
    BY <1>1, <1>6 DEF WriteSucceeds, StopWritten, BatchDone
  <2>2. rec'.tail /\ rec'.state # "full" /\ rec'.header = rec.header /\ rec'.guard = rec.guard
    BY <1>3, <1>4, <1>5, <1>6, <2>1, StepRec DEF RecSet
  <2>3. d # <<>>
    BY <1>0, <1>4, <1>6, StepChain DEF More
  <2>. QED
    BY <2>2, <2>3
<1>7. io' # "idle" => d # <<>> /\ rec'.tail /\ rec'.state # "full"
  <2>1. CASE io' = io
    BY <1>6, <2>1
  <2>2. CASE BeginWrite /\ d = c
    BY <1>0, <2>2 DEF BeginWrite, Running
  <2>3. CASE WriteSucceeds /\ d = c
    <3>1. io = "writing"
      BY <2>3 DEF WriteSucceeds
    <3>2. rec'.tail = rec.tail /\ rec'.state = rec.state
      BY <1>5, <2>3, <3>1, StepRec DEF Failed, WriteSucceeds, BeginWrite, TailLands, OpenFails, WriteFails,
            StopFails, BarrierTimesOut, RecordFails, StopWritten
    <3>. QED
      BY <1>4, <2>3, <3>1, <3>2
  <2>. QED
    BY <2>1, <2>2, <2>3, StepChain
<1>8. io' = "stopping" => ~rec'.header /\ ~rec'.guard
  <2>1. CASE io' = io
    BY <1>4, <1>6, <2>1
  <2>2. CASE WriteSucceeds
    BY <1>3, <2>2 DEF WriteSucceeds, RecSet
  <2>. QED
    BY <2>1, <2>2, StepChain
<1>9. ~rec'.header => rec'.seq # 0 /\ rec'.tail
  <2>1. CASE WriteSucceeds /\ rec'.tail = rec.tail /\ rec'.seq = rec.seq + Len(Payload)
    <3>1. Len(Payload) \in Nat /\ Len(Payload) > 0 /\ rec.seq \in Nat /\ io = "writing"
      BY <1>3, <2>1, PayloadSource, SeqIs DEF IInv, RecSet, WriteSucceeds, Running
    <3>. QED
      BY <1>4, <2>1, <3>1
  <2>2. CASE StopWritten /\ rec'.header = rec.header /\ rec'.tail = rec.tail /\ rec'.seq = rec.seq + 1
    <3>1. rec.seq \in Nat
      BY <1>3 DEF RecSet
    <3>. QED
      BY <1>4, <2>2, <3>1
  <2>. QED
    BY <1>3, <1>4, <1>5, <2>1, <2>2, StepRec DEF RecSet, Fresh
<1>10. waits' <= Len(d) /\ (waits' # 0 => phase' = "flushing")
  <2>0. waits \in Nat /\ 0 <= Len(d)
    BY <1>0 DEF IInv, Shape
  <2>1. CASE UNCHANGED <<waits, phase>> /\ (d = c \/ \E b : More(c, d, b))
    <3>1. Len(c) <= Len(d)
      BY <1>0, <2>1 DEF More
    <3>. QED
      BY <1>0, <1>4, <2>0, <2>1, <3>1
  <2>2. CASE waits' = 0
    BY <2>0, <2>2
  <2>3. Opens \/ BarrierTimesOut \/ Drained \/ Leave \/ Crash \/ Restart => waits' = 0
    BY <1>1, <1>4 DEF Opens, BarrierTimesOut, Drained, Leave, Crash, Gone
  <2>4. CASE \E retire \in BOOLEAN : Close(retire)
    <3>1. phase' = "flushing" /\ (waits' = 0 \/ waits' = Len(d))
      BY <2>4 DEF Close
    <3>. QED
      BY <1>0, <3>1
  <2>5. CASE SkipBatch \/ OpenFails \/ WriteSucceeds \/ WriteFails \/ StopWritten \/ StopFails
    <3>1. phase' = phase
      BY <2>5 DEF SkipBatch, OpenFails, WriteSucceeds, WriteFails, StopWritten, StopFails, unwritten
    <3>2. \/ UNCHANGED waits /\ d = c
          \/ d = Tail(c) /\ c # <<>> /\ waits' = IF waits = 0 THEN 0 ELSE waits - 1
      BY <2>5, HeadDone DEF IInv, BatchDone
    <3>3. c # <<>> => Len(Tail(c)) = Len(c) - 1
      BY LessIs DEF Less
    <3>. QED
      BY <1>0, <1>4, <2>0, <2>1, <3>1, <3>2, <3>3
  <2>6. CASE BeginWrite \/ Note \/ Memory \/ Emit \/ RecordFails \/ TailLands \/ StrayLands
             \/ (\E o \in left.opens : Begin(o[1], o[2])) \/ BarrierPasses
             \/ (\E o \in left.ends : StreamEnds(o[1], o[2])) \/ Seal \/ Catalogue \/ Unwind
    <3>1. UNCHANGED <<waits, phase>>
      BY Zenon, <2>6 DEF BeginWrite, Memory, Note, CommitReads, CommitWrites, Stage, SourceMoves, Forget,
         Edit,
         Emit, RecordFails, TailLands, StrayLands, Begin, BarrierPasses, StreamEnds, Seal, Catalogue, Unwind,
         life, unwritten
    <3>2. Gone => waits' = 0
      BY DEF Gone
    <3>. QED
      BY <2>1, <2>2, <2>5, <3>1, <3>2, StepChain
  <2>. QED
    BY <2>2, <2>3, <2>4, <2>5, <2>6 DEF Next, Record, Turn, Life
<1>11. detached' => rec'.state # "on"
  <2>1. CASE detached' = detached
    <3>1. ~Restart => (rec'.state = "on" => rec.state = "on")
      BY <1>3, <1>5, StepRec DEF RecSet
    <3>. QED
      BY <1>1, <1>4, <2>1, <3>1
  <2>2. CASE BarrierTimesOut
    BY <1>5, <2>2 DEF BarrierTimesOut
  <2>3. CASE Leave \/ Crash
    BY <2>3 DEF Leave, Crash, Gone
  <2>4. Record \/ Memory \/ (Turn /\ ~BarrierTimesOut) \/ (Life /\ ~Leave /\ ~Crash) => detached' = detached
    BY Zenon DEF Record, Turn, Life, SkipBatch, BeginWrite, OpenFails, WriteSucceeds, WriteFails, Memory,
       StopWritten, StopFails, Note, CommitReads, CommitWrites, Stage, SourceMoves, Forget, Edit,
       Emit, RecordFails, TailLands, StrayLands, Begin, BarrierPasses, StreamEnds, Seal, Catalogue, Unwind,
       Opens, Close, Drained, Restart, unwritten, life
  <2>. QED
    BY <2>1, <2>2, <2>3, <2>4 DEF Next, Life
<1>. QED
  BY <1>2, <1>7, <1>8, <1>9, <1>10, <1>11 DEF Writing

-----------------------------------------------------------------------------
(* The send() that runs *)

LEMMA StepTurn ==
    ASSUME IInv, Next
    PROVE  /\ turn' \in TurnSet /\ catalogue' \subseteq CatSet
           /\ \/ turn' = turn /\ catalogue' = catalogue /\ ~Seal
              \/ \E o \in left.opens : Begin(o[1], o[2])
              \/ /\ turn' = NoTurn /\ (catalogue' = catalogue \/ Catalogue)
                 /\ turn.at # "streaming" \/ Leave \/ Crash
              \/ /\ turn'.of = turn.of /\ turn'.n = turn.n /\ catalogue' = catalogue
                 /\ \/ turn.at = "barrier" /\ turn'.at \in {"streaming", "unwinding"}
                       /\ (BarrierPasses \/ BarrierTimesOut)
                    \/ /\ turn.at = "streaming" /\ turn'.at \in {"sealing", "unwinding"}
                       /\ \E o \in left.ends : StreamEnds(o[1], o[2])
                    \/ /\ turn.at = "sealing" /\ turn'.at = "cataloguing" /\ Seal
                       /\ turn'.how \in {"ok", "refusal"} /\ turn'.how = turn.how
<1>0. turn \in TurnSet /\ catalogue \subseteq CatSet /\ NoTurn \in TurnSet
  BY DEF IInv, Shape, NoTurn, TurnSet, Ats, Hows
<1>1. CASE turn' = turn /\ catalogue' = catalogue /\ ~Seal
  BY <1>0, <1>1
<1>2. Record \/ Memory \/ Emit \/ RecordFails \/ (Life /\ ~Leave /\ ~Crash)
      => turn' = turn /\ catalogue' = catalogue
  BY Zenon DEF Record, Life, SkipBatch, BeginWrite, OpenFails, WriteSucceeds, WriteFails, Memory,
     StopWritten, StopFails, Note, CommitReads, CommitWrites, Stage, SourceMoves, Forget, Edit,
     Emit, RecordFails, TailLands, StrayLands, Opens, Close, Drained, Restart, unwritten
<1>3. CASE Seal
  <2>1. \/ turn' = NoTurn
        \/ turn.how \in {"ok", "refusal"} /\ turn' = [turn EXCEPT !.at = "cataloguing"]
    BY <1>3 DEF Seal
  <2>2. turn.at = "sealing" /\ catalogue' = catalogue
    BY <1>3 DEF Seal
  <2>. QED
    BY <1>0, <1>3, <2>1, <2>2 DEF TurnSet, Ats
<1>4. CASE BarrierPasses \/ BarrierTimesOut
  <2>1. PICK at \in {"streaming", "unwinding"} : turn' = [turn EXCEPT !.at = at]
    BY <1>4 DEF BarrierPasses, BarrierTimesOut
  <2>2. turn.at = "barrier" /\ catalogue' = catalogue
    BY <1>4 DEF BarrierPasses, BarrierTimesOut
  <2>. QED
    BY <1>0, <1>4, <2>1, <2>2 DEF TurnSet, Ats
<1>5. CASE \E o \in left.ends : StreamEnds(o[1], o[2])
  <2>1. PICK o \in left.ends : StreamEnds(o[1], o[2])
    BY <1>5
  <2>2. PICK h \in Hows, n \in BOOLEAN : h = o[1] /\ n = o[2]
    BY LeftIs DEF IInv
  <2>3. catalogue' = catalogue
    BY <2>1 DEF StreamEnds
  <2>. QED
    BY <1>0, <1>5, <2>1, <2>2, <2>3, StreamEndsIs DEF IInv
<1>6. CASE \E o \in left.opens : Begin(o[1], o[2])
  <2>1. PICK o \in left.opens : Begin(o[1], o[2])
    BY <1>6
  <2>2. PICK p \in BOOLEAN, q \in BOOLEAN : p = o[1] /\ q = o[2]
    BY LeftIs DEF IInv
  <2>3. catalogue' = catalogue
    BY <2>1 DEF Begin
  <2>. QED
    BY <1>0, <1>6, <2>1, <2>2, <2>3, BeginIs DEF IInv, Ledger
<1>7. CASE Catalogue
  <2>0. turn.at = "cataloguing"
    BY <1>7 DEF Catalogue
  <2>1. turn' = NoTurn /\ catalogue' \subseteq catalogue \cup {[of |-> turn.of, turn |-> turn.n]}
    BY <1>7 DEF Catalogue
  <2>2. [of |-> turn.of, turn |-> turn.n] \in CatSet
    BY <1>0 DEF TurnSet, CatSet
  <2>. QED
    BY <1>0, <1>7, <2>0, <2>1, <2>2
<1>8. CASE Unwind \/ Leave \/ Crash
  BY <1>0, <1>8 DEF Unwind, Leave, Crash, Gone
<1>. QED
  BY <1>1, <1>2, <1>3, <1>4, <1>5, <1>6, <1>7, <1>8 DEF Next, Turn, Life

LEMMA StepPhase ==
    ASSUME IInv, Next
    PROVE  /\ phase' \in Phases
           /\ phase' = "starting" => phase = "starting" \/ Restart
           /\ phase' = "down" => phase = "down" \/ Leave \/ Crash
           /\ phase' = "up" => phase = "up" \/ (Opens /\ phase = "starting")
           /\ phase' = "flushing" => phase = "flushing" \/ \E retire \in BOOLEAN : Close(retire)
           /\ phase' = "committing" => phase = "committing" \/ (Drained /\ waits = 0)
<1>1. phase \in Phases
  BY DEF IInv, Shape
<1>2. UNCHANGED phase \/ Opens \/ (\E retire \in BOOLEAN : Close(retire)) \/ Drained \/ Leave \/ Crash
        \/ Restart
  BY Zenon DEF Next, Record, Turn, Life, SkipBatch, BeginWrite, OpenFails, WriteSucceeds, WriteFails, Memory,
     StopWritten, StopFails, Note, CommitReads, CommitWrites, Stage, SourceMoves, Forget, Edit,
     Emit, RecordFails, TailLands, StrayLands, Begin, BarrierPasses, BarrierTimesOut, StreamEnds, Seal,
     Catalogue, Unwind, unwritten, life
<1>3. /\ Opens => phase' = "up" /\ phase = "starting"
      /\ \A retire \in BOOLEAN : Close(retire) => phase' = "flushing"
      /\ Drained => phase' = "committing" /\ waits = 0
      /\ Leave \/ Crash => phase' = "down"
      /\ Restart => phase' = "starting"
  BY DEF Opens, Close, Drained, Leave, Crash, Gone, Restart
<1>. QED
  BY <1>1, <1>2, <1>3 DEF Phases

\* What is buffered.
LEMMA StepPending ==
    ASSUME IInv, Next
    PROVE  \/ pending' = <<>>
           \/ pending' = pending /\ ~(Leave \/ Crash \/ \E o \in left.ends : StreamEnds(o[1], o[2]))
           \/ /\ pending' = <<Line("event", turn.of, turn.n, None)>> /\ turn.at = "streaming" /\ turn.n # 0
              /\ turn' = turn
<1>1. CASE \E o \in left.ends : StreamEnds(o[1], o[2])
  <2>1. turn.at = "streaming" /\ (pending' = <<>> \/ (turn.n = 0 /\ pending' = pending))
    BY <1>1 DEF StreamEnds
  <2>2. turn.n = 0 => pending = <<>>
    BY DEF IInv, Sending
  <2>. QED
    BY <2>1, <2>2
<1>2. CASE Emit
  BY <1>2 DEF Emit
<1>3. CASE Leave \/ Crash
  BY <1>3 DEF Leave, Crash, Gone
<1>4. pending' = <<>> \/ pending' = pending \/ Emit
  BY Zenon DEF Next, Record, Turn, Life, SkipBatch, BeginWrite, OpenFails, WriteSucceeds, WriteFails, Memory,
     StopWritten, StopFails, Note, CommitReads, CommitWrites, Stage, SourceMoves, Forget, Edit,
     Emit, RecordFails, TailLands, StrayLands, Begin, BarrierPasses, BarrierTimesOut, StreamEnds, Seal,
     Catalogue, Unwind, Opens, Close, Drained, Leave, Crash, Gone, Restart, recorder
<1>. QED
  BY <1>1, <1>2, <1>3, <1>4

LEMMA SendingKept ==
    ASSUME IInv, Next
    PROVE  Sending'
<1>. PICK m \in Seq(MemSet) : m = mem
  BY DEF IInv, Shape
<1>. PICK n \in Seq(MemSet) : n = mem'
  BY StepMem DEF Grown
<1>. PICK t \in TurnSet : t = turn
  BY DEF IInv, Shape
<1>. PICK u \in TurnSet : u = turn'
  BY StepTurn
<1>0. Len(m) \in Nat /\ Len(n) \in Nat /\ t.of \in Nat /\ t.n \in Nat
  BY SeqIs DEF TurnSet
<1>1. /\ t.at # "idle" => /\ t.of = Len(m) /\ t.of # 0 /\ m[t.of].run = run /\ t.n = m[t.of].turn
                          /\ phase \notin {"starting", "down"}
                          /\ (rec.state = "on" \/ t.at = "barrier" => t.n # 0)
                          /\ \A c \in catalogue : c.of < t.of
      /\ t.at = "cataloguing" => t.how \in {"ok", "refusal"}
      /\ t.at \in {"barrier", "streaming", "sealing", "unwinding"} => ~m[t.of].sealed
      /\ pending = <<>> \/ /\ t.at = "streaming" /\ t.n # 0
                           /\ pending = <<Line("event", t.of, t.n, None)>>
      /\ \A c \in catalogue : c.of \in 1 .. Len(m) /\ c.turn = m[c.of].turn
  BY DEF IInv, Sending
<1>2. Grown(m, n) /\ (Len(n) = Len(m) \/ \E o \in left.opens : Begin(o[1], o[2]))
  BY StepMem
<1>3. ASSUME NEW k \in 1 .. Len(m) PROVE k \in 1 .. Len(n) /\ n[k].turn = m[k].turn /\ n[k].run = m[k].run
  BY <1>2 DEF Grown
<1>4. ASSUME ~Restart PROVE run' = run /\ (rec'.state = "on" => rec.state = "on")
  <2>1. rec \in RecSet /\ rec' \in RecSet
    BY StepRec DEF IInv, Shape
  <2>. QED
    BY <1>4, <2>1, StepRec, StepRun DEF Failed, RecSet
\* The turns that the catalogue names.
<1>5. \A c \in catalogue' : c.of \in 1 .. Len(n) /\ c.turn = n[c.of].turn
  <2>1. \A c \in catalogue : c.of \in 1 .. Len(n) /\ c.turn = n[c.of].turn
    BY <1>1, <1>3
  <2>2. ASSUME Catalogue, NEW c \in catalogue' PROVE c.of \in 1 .. Len(n) /\ c.turn = n[c.of].turn
    <3>1. t.at = "cataloguing" /\ (c \in catalogue \/ c = [of |-> t.of, turn |-> t.n])
      BY <2>2 DEF Catalogue
    <3>2. t.of \in 1 .. Len(m) /\ t.n = m[t.of].turn
      BY <1>0, <1>1, <3>1
    <3>. QED
      BY <1>3, <2>1, <3>1, <3>2
  <2>3. (\E o \in left.opens : Begin(o[1], o[2])) => catalogue' = catalogue
    BY DEF Begin
  <2>. QED
    BY <2>1, <2>2, <2>3, StepTurn
\* Another turn begins.
<1>6. CASE \E o \in left.opens : Begin(o[1], o[2])
  <2>1. PICK o \in left.opens : Begin(o[1], o[2])
    BY <1>6
  <2>2. PICK p \in BOOLEAN, q \in BOOLEAN : p = o[1] /\ q = o[2]
    BY LeftIs DEF IInv
  <2>3. /\ t.at = "idle" /\ phase = "up"
        /\ NewTurn(m, n, rec.state = "on", IF rec.state = "on" THEN rec.turns + 1 ELSE 0, run)
        /\ u.at = (IF rec.state = "on" THEN "barrier" ELSE "streaming") /\ u.of = Len(m) + 1
        /\ u.n = (IF rec.state = "on" THEN rec.turns + 1 ELSE 0)
    BY <2>1, <2>2, BeginIs DEF IInv, Ledger
  <2>4. /\ Len(n) = Len(m) + 1 /\ ~n[Len(n)].sealed /\ n[Len(n)].run = run /\ n[Len(n)].turn = u.n
    BY <2>3 DEF NewTurn
  <2>5. phase' = phase /\ catalogue' = catalogue /\ pending' = pending /\ run' = run
        /\ (rec'.state = "on" => rec.state = "on")
    <3>1. rec \in RecSet
      BY DEF IInv, Shape
    <3>. QED
      BY <2>1, <3>1 DEF Begin, life, RecSet
  <2>6. rec.state = "on" => u.n # 0
    <3>1. rec.turns \in Nat
      BY DEF IInv, Shape, RecSet
    <3>. QED
      BY <2>3, <3>1
  <2>7. \A c \in catalogue : c.of < u.of
    BY <1>0, <1>1, <2>3
  <2>. QED
    BY <1>0, <1>1, <1>5, <2>3, <2>4, <2>5, <2>6, <2>7 DEF Sending
<1>7. ASSUME t.at # "idle" PROVE ~Restart
  BY <1>1, <1>7 DEF Restart
<1>8. ASSUME run' = run PROVE Line("event", t.of, t.n, None)' = Line("event", t.of, t.n, None)
  BY <1>8 DEF Line
\* The turn is the same, or it is further on.
<1>9. ASSUME u.of = t.of, u.n = t.n, t.at # "idle", Len(n) = Len(m), catalogue' = catalogue,
             u.at = "barrier" => t.at = "barrier", ~Leave, ~Crash
      PROVE  /\ u.of = Len(n) /\ u.of # 0 /\ n[u.of].run = run' /\ u.n = n[u.of].turn
             /\ phase' \notin {"starting", "down"}
             /\ (rec'.state = "on" \/ u.at = "barrier" => u.n # 0)
             /\ \A c \in catalogue' : c.of < u.of
  <2>1. t.of \in 1 .. Len(m) /\ run' = run /\ (rec'.state = "on" => rec.state = "on")
    BY <1>0, <1>1, <1>4, <1>7, <1>9
  <2>2. phase' \notin {"starting", "down"}
    BY <1>1, <1>7, <1>9, StepPhase
  <2>. QED
    BY <1>1, <1>3, <1>9, <2>1, <2>2
\* Only its end seals it.
<1>10. ASSUME t.at # "idle", ~Seal PROVE n[t.of].sealed = m[t.of].sealed
  <2>. PICK k \in 1 .. Len(m) : k = t.of
    BY <1>0, <1>1, <1>10
  <2>. PICK a \in MemSet, b \in MemSet : a = m[k] /\ b = n[k]
    BY <1>3, SeqIs
  <2>1. TurnMoves(k)
    BY StepMem, SMTT(30)
  <2>2. \/ b = a \/ SettledTo(a, b, TRUE, b.seq) \/ b.sealed = a.sealed
    BY <1>10, <2>1 DEF TurnMoves, SettledTo, DiscardedTo, ClosedTo, GoneTo, MemSet
  <2>. QED
    BY <2>2 DEF SettledTo
<1>11. CASE u = t /\ catalogue' = catalogue /\ ~Seal /\ Len(n) = Len(m)
  <2>1. pending' = <<>> \/ /\ u.at = "streaming" /\ u.n # 0
                           /\ pending' = <<Line("event", u.of, u.n, None)'>>
    BY <1>1, <1>4, <1>7, <1>8, <1>11, StepPending
  <2>2. CASE t.at = "idle"
    BY <1>5, <1>11, <2>1, <2>2 DEF Sending
  <2>3. CASE t.at # "idle"
    <3>1. ~Leave /\ ~Crash
      BY <1>11, <2>3 DEF Leave, Crash, Gone, NoTurn
    <3>. QED
      BY <1>1, <1>5, <1>9, <1>10, <1>11, <2>1, <2>3, <3>1 DEF Sending
  <2>. QED
    BY <2>2, <2>3
\* It is over.
<1>12. CASE u = NoTurn /\ (t.at # "streaming" \/ Leave \/ Crash)
  <2>1. u.at = "idle"
    BY <1>12 DEF NoTurn
  <2>2. pending' = <<>>
    BY <1>1, <1>12, <2>1, StepPending
  <2>. QED
    BY <1>5, <2>1, <2>2 DEF Sending
\* It is a step further.
<1>13. CASE /\ u.of = t.of /\ u.n = t.n /\ catalogue' = catalogue /\ Len(n) = Len(m)
            /\ \/ t.at = "barrier" /\ u.at \in {"streaming", "unwinding"}
                    /\ (BarrierPasses \/ BarrierTimesOut)
               \/ /\ t.at = "streaming" /\ u.at \in {"sealing", "unwinding"}
                  /\ \E o \in left.ends : StreamEnds(o[1], o[2])
               \/ t.at = "sealing" /\ u.at = "cataloguing" /\ Seal /\ u.how \in {"ok", "refusal"}
  <2>1. pending' = <<>>
    <3>1. u # t
      BY <1>13
    <3>. QED
      BY <1>1, <1>13, <3>1, StepPending
  <2>2. ~Leave /\ ~Crash
    BY <1>13 DEF Leave, Crash, Gone, NoTurn
  <2>3. u.at # "cataloguing" => ~Seal
    BY <1>13 DEF Seal
  <2>. QED
    BY <1>1, <1>5, <1>9, <1>10, <1>13, <2>1, <2>2, <2>3 DEF Sending
<1>. QED
  BY <1>2, <1>6, <1>11, <1>12, <1>13, StepTurn

LEMMA DownKept ==
    ASSUME IInv, Next
    PROVE  Down'
<1>. SUFFICES ASSUME phase' = "down" PROVE Down'
  BY DEF Down
<1>1. CASE phase = "down"
  <2>1. ~Restart
    BY DEF Restart
  <2>. QED
    BY <1>1, <2>1, WhenDown DEF IInv, Down
<1>2. CASE Leave \/ Crash
  <2>1. Gone
    BY <1>2 DEF Leave, Crash
  <2>2. /\ chain' = <<>> /\ io' = "idle" /\ pending' = <<>> /\ turn'.at = "idle" /\ waits' = 0 /\ ~detached'
        /\ commits' = <<>> /\ commit' = Idle
    BY <2>1 DEF Gone, NoTurn
  <2>. PICK m \in Seq(MemSet) : m = mem
    BY DEF IInv, Shape
  <2>. PICK n : n = mem'
    OBVIOUS
  <2>3. Moved(m, n) /\ \A k \in 1 .. Len(m) : GoneTo(m[k], n[k])
    BY <2>1, GoneIs DEF IInv
  <2>4. \A k \in 1 .. Len(n) : n[k].state \in {"gone", "done"}
    BY <2>3 DEF Moved, GoneTo
  <2>. QED
    BY <2>2, <2>4 DEF Down
<1>. QED
  BY <1>1, <1>2, StepPhase

-----------------------------------------------------------------------------
(* The store *)

\* What a commit writes under a key: nothing, what it read, or a fact of its turn.
LEMMA CommittedIs ==
    ASSUME Shape, NEW k \in 1 .. Len(mem), NEW F \in SUBSET Fact
    PROVE  /\ Committed(k, F) \in StoreSet
           /\ \A key \in Key : LET e == Committed(k, F)[key] IN
                 \/ e = None
                 \/ e = commit.store[key]
                 \/ /\ e.of = k /\ e.turn = mem[k].turn /\ e.seq = mem[k].seq /\ e.fact \in F
                    /\ KeyOf[e.fact] = key /\ e \in EntrySet
<1>. PICK st \in StoreSet : st = commit.store
  BY DEF Shape, CommitSet
<1>. PICK a \in MemSet : a = mem[k]
  BY SeqIs DEF Shape
<1>. PICK n \in Nat, q \in Nat : n = a.turn /\ q = a.seq
  BY MemIs
<1>0. k \in Nat
  BY SeqIs DEF Shape
<1>1. ASSUME NEW key \in Key
      PROVE  LET e == Committed(k, F)[key] IN
                /\ e \in EntrySet \cup {None}
                /\ \/ e = None
                   \/ e = st[key]
                   \/ /\ e.of = k /\ e.turn = n /\ e.seq = q /\ e.fact \in F
                      /\ KeyOf[e.fact] = key /\ e \in EntrySet
  <2>. PICK new : new = {f \in F : KeyOf[f] = key}
    OBVIOUS
  <2>. PICK e : e = Committed(k, F)[key]
    OBVIOUS
  <2>. PICK f : f = CHOOSE g \in new : TRUE
    OBVIOUS
  <2>1. \/ e = None \/ e = st[key]
        \/ new # {} /\ e = [fact |-> f, of |-> k, turn |-> n, seq |-> q, edited |-> FALSE, evidence |-> f]
    BY Zenon DEF Committed
  <2>2. new # {} => f \in F /\ KeyOf[f] = key
    OBVIOUS
  <2>3. st[key] \in EntrySet \cup {None}
    BY DEF StoreSet
  <2>4. new # {} /\ e = [fact |-> f, of |-> k, turn |-> n, seq |-> q, edited |-> FALSE, evidence |-> f] =>
           /\ e.of = k /\ e.turn = n /\ e.seq = q /\ e.fact \in F /\ KeyOf[e.fact] = key /\ e \in EntrySet
    BY <1>0, <2>2 DEF EntrySet
  <2>. QED
    BY <2>1, <2>3, <2>4
<1>2. Committed(k, F) = [key \in Key |-> Committed(k, F)[key]]
  BY DEF Committed
<1>3. Committed(k, F) \in StoreSet
  BY <1>1, <1>2 DEF StoreSet
<1>. QED
  BY <1>1, <1>3

\* What becomes of the entry under a key.
EntryMoves(key) ==
    \/ store'[key] = None
    \/ store'[key] = store[key]
    \/ /\ \E k \in Key, f \in Fact : Edit(k, f)
       /\ store[key] # None /\ store'[key].of = store[key].of /\ store'[key].turn = store[key].turn
       /\ store'[key].seq = store[key].seq /\ KeyOf[store'[key].fact] = key
    \/ CommitWrites /\ store'[key] = commit.store[key]
    \/ /\ CommitWrites /\ store'[key].of = commit.of /\ store'[key].turn = mem[commit.of].turn
       /\ store'[key].seq = mem[commit.of].seq /\ KeyOf[store'[key].fact] = key
LEMMA StepStore ==
    ASSUME IInv, Next
    PROVE  /\ store' \in StoreSet /\ suppressed' \subseteq Fact /\ forgotten' \subseteq Fact
                /\ sound' \subseteq Fact
           /\ \A key \in Key : EntryMoves(key)
<1>. PICK st \in StoreSet : st = store
  BY DEF IInv, Shape
<1>0. suppressed \subseteq Fact /\ forgotten \subseteq Fact /\ sound \subseteq Fact /\ commit \in CommitSet
  BY DEF IInv, Shape
<1>1. CASE UNCHANGED <<store, suppressed, forgotten, sound>>
  BY <1>0, <1>1 DEF EntryMoves
<1>2. Record \/ Turn \/ Life \/ CommitReads \/ (\E f \in Fact : Stage(f)) =>
         UNCHANGED <<store, suppressed, forgotten, sound>>
  BY Zenon DEF Record, Turn, Life, SkipBatch, BeginWrite, OpenFails, WriteSucceeds, WriteFails,
     StopWritten, StopFails, Note, CommitReads, Stage,
     Emit, RecordFails, TailLands, StrayLands, Begin, BarrierPasses, BarrierTimesOut, StreamEnds, Seal,
     Catalogue, Unwind, Opens, Close, Drained, Leave, Crash, Gone, Restart, memory, remembered, unwritten
<1>3. CASE \E f \in Fact : SourceMoves(f)
  BY <1>0, <1>3 DEF SourceMoves, EntryMoves
<1>4. CASE \E key \in Key : Forget(key)
  <2>1. PICK key \in Key : Forget(key)
    BY <1>4
  <2>2. st[key] # None /\ st[key] \in EntrySet \cup {None}
    BY <2>1 DEF Forget, StoreSet
  <2>. PICK f : f = st[key].fact
    OBVIOUS
  <2>3. f \in Fact
    BY <2>2 DEF EntrySet
  <2>4. /\ store' = [st EXCEPT ![key] = None] /\ suppressed' = suppressed \cup {f}
        /\ forgotten' = forgotten \cup {f} /\ sound' = sound
    BY <2>1 DEF Forget
  <2>5. store' \in StoreSet /\ \A k \in Key : EntryMoves(k)
    BY <2>4 DEF StoreSet, EntryMoves
  <2>. QED
    BY <1>0, <2>3, <2>4, <2>5
<1>5. CASE \E key \in Key, g \in Fact : Edit(key, g)
  <2>1. PICK key \in Key, g \in Fact : Edit(key, g)
    BY <1>5
  <2>2. st[key] # None /\ KeyOf[g] = key /\ st[key] \in EntrySet \cup {None}
    BY <2>1 DEF Edit, StoreSet
  <2>. PICK e \in EntrySet : e = st[key]
    BY <2>2
  <2>. PICK f : f = e.fact
    OBVIOUS
  <2>. PICK d : d = [e EXCEPT !.fact = g, !.edited = TRUE]
    OBVIOUS
  <2>3. f \in Fact /\ d \in EntrySet /\ d.of = e.of /\ d.turn = e.turn /\ d.seq = e.seq /\ d.fact = g
    BY DEF EntrySet
  <2>4. /\ store' = [st EXCEPT ![key] = d] /\ suppressed' = suppressed \cup {f}
        /\ forgotten' \subseteq forgotten \cup {f} /\ sound' = sound
    BY <2>1 DEF Edit
  <2>5. store' \in StoreSet
    BY <2>3, <2>4 DEF StoreSet
  <2>6. \A k \in Key : EntryMoves(k)
    <3>1. \A k \in Key : k # key => store'[k] = st[k]
      BY <2>4 DEF StoreSet
    <3>2. store'[key] = d
      BY <2>4 DEF StoreSet
    <3>3. EntryMoves(key)
      BY <1>5, <2>2, <2>3, <3>2 DEF EntryMoves
    <3>. QED
      BY <3>1, <3>3 DEF EntryMoves
  <2>. QED
    BY <1>0, <2>3, <2>4, <2>5, <2>6
<1>6. CASE CommitWrites
  <2>. PICK k \in 1 .. Len(mem) : k = commit.of
    BY <1>6, WritesIs DEF IInv
  <2>. PICK F \in SUBSET Fact : F = mem[k].facts
    <3>1. mem[k] \in MemSet
      BY SeqIs DEF IInv, Shape
    <3>. QED
      BY <3>1, MemIs
  <2>1. \/ UNCHANGED <<store, suppressed, forgotten, sound>>
        \/ store' = Committed(k, F) /\ suppressed' = commit.suppressed /\ UNCHANGED <<forgotten, sound>>
    BY <1>6 DEF CommitWrites
  <2>2. commit.suppressed \subseteq Fact
    BY <1>0 DEF CommitSet
  <2>3. ASSUME store' = Committed(k, F) PROVE store' \in StoreSet /\ \A key \in Key : EntryMoves(key)
    <3>1. /\ store' \in StoreSet
          /\ \A key \in Key : 
                 \/ store'[key] = None
                 \/ store'[key] = commit.store[key]
                 \/ /\ store'[key].of = k /\ store'[key].turn = mem[k].turn /\ store'[key].seq = mem[k].seq
                    /\ KeyOf[store'[key].fact] = key
      BY <2>3, CommittedIs DEF IInv
    <3>. QED
      BY <1>6, <3>1 DEF EntryMoves
  <2>. QED
    BY <1>0, <1>1, <2>1, <2>2, <2>3
<1>. QED
  BY <1>1, <1>2, <1>3, <1>4, <1>5, <1>6 DEF Next, Memory

\* What becomes of the commit that holds the lock, and of those that wait.
LEMMA StepCommit ==
    ASSUME IInv, Next
    PROVE  /\ commit' \in CommitSet
           /\ \/ commit' = commit /\ commits' = commits
              \/ commit' = commit /\ \E k \in Nat : commits' = Append(commits, k)
              \/ commit' = Idle /\ (CommitWrites \/ Leave \/ Crash)
              \/ /\ CommitReads /\ commit = Idle /\ commits # <<>> /\ commits' = commits
                 /\ commit'.of = commits[1] /\ commit'.store = store /\ commit'.suppressed = suppressed
<1>0. Idle \in CommitSet /\ commit \in CommitSet
  BY DEF IInv, Shape, Idle, CommitSet, StoreSet
<1>1. CASE commit' = commit /\ commits' = commits
  BY <1>0, <1>1
<1>2. CASE CommitReads
  <2>1. /\ commit = Idle /\ commits # <<>> /\ commits' = commits
        /\ commit' = [of |-> Head(commits), store |-> store, suppressed |-> suppressed]
    BY <1>2 DEF CommitReads
  <2>2. Head(commits) = commits[1] /\ commits[1] \in Nat
    BY <2>1, SeqIs DEF IInv, Shape
  <2>. QED
    BY <1>2, <2>1, <2>2 DEF CommitSet, IInv, Shape
<1>3. CASE CommitWrites \/ Leave \/ Crash
  BY <1>0, <1>3 DEF CommitWrites, Leave, Crash, Gone
<1>4. CASE SkipBatch \/ OpenFails \/ WriteSucceeds \/ WriteFails \/ StopWritten \/ StopFails
  <2>1. commit' = commit
    BY <1>4 DEF SkipBatch, OpenFails, WriteSucceeds, WriteFails, StopWritten, StopFails, unwritten
  <2>2. \/ commits' = commits
        \/ chain # <<>> /\ \E kept \in BOOLEAN, q \in Nat : BatchDone(kept, q)
    BY <1>4, HeadDone DEF IInv
  <2>3. ASSUME chain # <<>>, NEW kept \in BOOLEAN, NEW q \in Nat, BatchDone(kept, q)
        PROVE  commits' = commits \/ \E k \in Nat : commits' = Append(commits, k)
    <3>1. commits' = commits \/ commits' = Append(commits, chain[1].closes)
      BY <2>3, BatchDoneIs DEF IInv, Ledger
    <3>2. 1 \in 1 .. Len(chain)
      BY <2>3, SeqIs DEF IInv, Shape
    <3>3. chain[1].closes \in Nat
      BY <3>2, BatchIs DEF IInv
    <3>. QED
      BY <3>1, <3>3
  <2>. QED
    BY <1>0, <2>1, <2>2, <2>3
<1>5. CASE Seal
  <2>1. turn.at # "idle" /\ commit' = commit /\ SealTurn(turn.of, turn.how = "ok" /\ rec.state = "on")
    BY <1>5 DEF Seal
  <2>2. PICK k \in 1 .. Len(mem) : k = turn.of
    BY <2>1, OfIs DEF IInv
  <2>3. PICK s \in BOOLEAN : s = (turn.how = "ok" /\ rec.state = "on")
    OBVIOUS
  <2>4. SealTurn(k, s)
    BY <2>1, <2>2, <2>3
  <2>5. commits' = commits \/ commits' = Append(commits, k)
    BY <2>4, SealIs DEF IInv, Ledger
  <2>6. k \in Nat
    BY SeqIs DEF IInv, Shape
  <2>. QED
    BY <1>0, <2>1, <2>5, <2>6
<1>6. BeginWrite \/ Note \/ (Memory /\ ~CommitReads /\ ~CommitWrites) \/ (Turn /\ ~Seal)
        \/ (Life /\ ~Leave /\ ~Crash)
      => commit' = commit /\ commits' = commits
  BY Zenon DEF Turn, Life, BeginWrite, Note, Memory, Stage, SourceMoves, Forget, Edit,
     Emit, RecordFails, TailLands, StrayLands, Begin, BarrierPasses, BarrierTimesOut, StreamEnds, Discard,
     Catalogue, Unwind, Opens, Close, Drained, Restart, memory, unwritten
<1>. QED
  BY <1>1, <1>2, <1>3, <1>4, <1>5, <1>6 DEF Next, Record

LEMMA LedgerKept ==
    ASSUME IInv, Next
    PROVE  Ledger'
<1>. PICK c \in Seq(Nat) : c = commits
  BY DEF IInv, Shape
<1>. PICK d \in Seq(Nat) : d = commits'
  BY StepMem
<1>0. Keyed(store) /\ Keyed(commit.store) /\ (commit # Idle => c # <<>> /\ commit.of = c[1])
  BY DEF IInv, Ledger
<1>1. Book(mem', d)
  BY StepMem
<1>2. Keyed(store')
  <2>1. SUFFICES ASSUME NEW key \in Key, store'[key] # None PROVE KeyOf[store'[key].fact] = key
    BY DEF Keyed
  <2>2. EntryMoves(key)
    BY StepStore
  <2>. QED
    BY <1>0, <2>1, <2>2 DEF EntryMoves, Keyed
<1>3. Keyed(commit'.store)
  <2>1. Keyed(Idle.store)
    BY DEF Idle, Keyed
  <2>. QED
    BY <1>0, <2>1, StepCommit
<1>4. commit' # Idle => d # <<>> /\ commit'.of = d[1]
  <2>1. ASSUME NEW k \in Nat, d = Append(c, k), c # <<>> PROVE d # <<>> /\ d[1] = c[1]
    <3>1. Len(c) \in Nat /\ Len(c) > 0
      BY <2>1, SeqIs
    <3>. QED
      BY <2>1, <3>1
  <2>. QED
    BY <1>0, <2>1, StepCommit
<1>. QED
  BY <1>1, <1>2, <1>3, <1>4 DEF Ledger

LEMMA StepLeft ==
    ASSUME IInv, Next
    PROVE  left' \in LeftSet
<1>0. left \in LeftSet
  BY DEF IInv, Shape
<1>1. /\ Spend("sends") => left' \in LeftSet
      /\ Spend("runs") => left' \in LeftSet
      /\ Spend("exits") => left' \in LeftSet
      /\ Spend("crash") => left' \in LeftSet
      /\ Spend("events") => left' \in LeftSet
      /\ Spend("notes") => left' \in LeftSet
      /\ Spend("faults") => left' \in LeftSet
      /\ Spend("saves") => left' \in LeftSet
      /\ Spend("commands") => left' \in LeftSet
      /\ Spend("moves") => left' \in LeftSet
  BY <1>0 DEF Spend, LeftSet
<1>2. ASSUME NEW f \in Fact, Stage(f) PROVE left' \in LeftSet
  <2>1. CASE Spend("saves")
    BY <1>1, <2>1
  <2>2. CASE left.saves > 0 /\ left.faults > 0 /\ left' = [left EXCEPT !.saves = @ - 1, !.faults = @ - 1]
    <3>1. \A l \in LeftSet, x \in Nat : [l EXCEPT !.saves = x] \in LeftSet /\ [l EXCEPT !.faults = x] \in LeftSet
      BY DEF LeftSet
    <3>2. PICK x \in Nat, y \in Nat : x = left.saves - 1 /\ y = left.faults - 1
      BY <1>0, <2>2 DEF LeftSet
    <3>3. PICK l \in LeftSet : l = [left EXCEPT !.saves = x]
      BY <1>0, <3>1
    <3>4. left' = [l EXCEPT !.faults = y]
      BY <2>2, <3>2, <3>3
    <3>. QED
      BY <3>1, <3>4
  <2>. QED
    BY <1>2, <2>1, <2>2 DEF Stage
<1>. QED
  BY Zenon, <1>0, <1>1, <1>2 DEF Next, Record, Turn, Life, SkipBatch, BeginWrite, OpenFails, WriteSucceeds,
     WriteFails,
     StopWritten, StopFails, Note, CommitReads, CommitWrites, SourceMoves, Forget, Edit, Memory,
     Emit, RecordFails, TailLands, StrayLands, Begin, BarrierPasses, BarrierTimesOut, StreamEnds, Seal,
     Catalogue, Unwind, Opens, Close, Drained, Leave, Crash, Restart

LEMMA ShapeKept ==
    ASSUME IInv, Next
    PROVE  Shape'
<1>1. /\ file' \in Seq(LineSet) /\ chain' \in Seq(BatchSet) /\ rec' \in RecSet /\ mem' \in Seq(MemSet)
      /\ commits' \in Seq(Nat) /\ turn' \in TurnSet /\ catalogue' \subseteq CatSet
           /\ stray' \subseteq StraySet
      /\ phase' \in Phases /\ commit' \in CommitSet /\ store' \in StoreSet /\ suppressed' \subseteq Fact
      /\ forgotten' \subseteq Fact /\ sound' \subseteq Fact /\ left' \in LeftSet
  BY StepFile, StepChain, StepRec, StepMem, StepTurn, StepStray, StepPhase, StepCommit, StepStore,
     StepLeft DEF Grown
<1>2. run' \in Nat \ {0}
  <2>1. run \in Nat \ {0}
    BY DEF IInv, Shape
  <2>. QED
    BY <2>1, StepRun
<1>3. io' \in {"idle", "writing", "stopping"}
  BY StepChain DEF IInv, Shape
<1>4. pending' \in Seq(LineSet)
  <2>1. ASSUME pending' = <<Line("event", turn.of, turn.n, None)>> PROVE pending' \in Seq(LineSet)
    <3>1. turn.of \in Nat /\ turn.n \in Nat /\ "event" \in Kinds /\ None \in Hows
      BY DEF IInv, Shape, TurnSet, Kinds, OfTurns, Hows
    <3>2. Line("event", turn.of, turn.n, None) \in LineSet
      BY <3>1, LinesAre DEF IInv
    <3>. QED
      BY <2>1, <3>2
  <2>2. <<>> \in Seq(LineSet) /\ pending \in Seq(LineSet)
    BY DEF IInv, Shape
  <2>. QED
    BY <2>1, <2>2, StepPending
<1>5. detached' \in BOOLEAN /\ retired' \in BOOLEAN /\ guessed' \in BOOLEAN
  <2>1. detached \in BOOLEAN /\ retired \in BOOLEAN /\ guessed \in BOOLEAN
    BY DEF IInv, Shape
  <2>. QED
    BY ZenonT(40), <2>1 DEF Next, Record, Turn, Life, SkipBatch, BeginWrite, OpenFails, WriteSucceeds, WriteFails,
       StopWritten, StopFails, Note, CommitReads, CommitWrites, Stage, SourceMoves, Forget, Edit, Memory,
       Emit, RecordFails, TailLands, StrayLands, Begin, BarrierPasses, BarrierTimesOut, StreamEnds, Seal,
       Catalogue, Unwind, Opens, Close, Drained, Leave, Crash, Gone, Restart, life, unwritten
<1>6. waits' \in Nat
  <2>1. waits \in Nat /\ Len(chain') \in Nat
    BY <1>1, SeqIs DEF IInv, Shape
  <2>2. waits' = waits \/ waits' = 0 \/ (waits' = waits - 1 /\ waits # 0) \/ waits' = Len(chain')
    BY Zenon DEF Next, Record, Turn, Life, SkipBatch, BeginWrite, OpenFails, WriteSucceeds, WriteFails,
       BatchDone,
       StopWritten, StopFails, Note, CommitReads, CommitWrites, Stage, SourceMoves, Forget, Edit, Memory,
       Emit, RecordFails, TailLands, StrayLands, Begin, BarrierPasses, BarrierTimesOut, StreamEnds, Seal,
       Catalogue, Unwind, Opens, Close, Drained, Leave, Crash, Gone, Restart, life, unwritten
  <2>. QED
    BY <2>1, <2>2
<1>7. owed' \subseteq Nat
  <2>1. owed \subseteq Nat /\ Sends \subseteq Nat
    BY SeqIs DEF IInv, Shape, Sends
  <2>2. owed' \subseteq owed \/ owed' \subseteq Sends
    BY Zenon DEF Next, Record, Turn, Life, SkipBatch, BeginWrite, OpenFails, WriteSucceeds, WriteFails,
       StopWritten, StopFails, Note, CommitReads, CommitWrites, Stage, SourceMoves, Forget, Edit, Memory,
       Emit, RecordFails, TailLands, StrayLands, Begin, BarrierPasses, BarrierTimesOut, StreamEnds, Seal,
       Catalogue, Unwind, Opens, Close, Drained, Leave, Crash, Gone, Restart, life, unwritten
  <2>. QED
    BY <2>1, <2>2
<1>. QED
  BY <1>1, <1>2, <1>3, <1>4, <1>5, <1>6, <1>7 DEF Shape

-----------------------------------------------------------------------------
(* The lines to come *)

\* What is of an earlier process is of an earlier turn.
LEMMA EarlierRun ==
    ASSUME IInv, NEW a \in LineSet, NEW b, Known(a, mem, run), Known(b, mem, run), a.run # run, b.run = run
    PROVE  /\ a.of # 0 /\ b.of # 0 => a.of < b.of
           /\ a.run < run
<1>1. Len(mem) \in Nat /\ \A k \in 1 .. Len(mem) : mem[k] \in MemSet
  BY SeqIs DEF IInv, Shape
<1>2. run \in Nat /\ a.run <= run /\ a.run \in Nat
  BY LineIs DEF IInv, Shape, Known
<1>3. \A k, l \in 1 .. Len(mem) : k < l => mem[k].run <= mem[l].run
  BY DEF IInv, Numbers, Numbered
<1>4. ASSUME a.of # 0, b.of # 0 PROVE a.of < b.of
  <2>1. PICK k \in 1 .. Len(mem), l \in 1 .. Len(mem) : k = a.of /\ l = b.of /\ a.run = mem[k].run
             /\ b.run = mem[l].run
    BY <1>4 DEF Known
  <2>2. mem[k].run \in Nat
    BY <1>1, <2>1, MemIs
  <2>3. ~(mem[l].run <= mem[k].run)
    BY <1>2, <2>1, <2>2
  <2>4. k # l /\ ~(l < k)
    BY <1>3, <2>1, <2>3
  <2>. QED
    BY <1>1, <2>1, <2>4
<1>5. a.run < run
  BY <1>2
<1>. QED
  BY <1>4, <1>5

\* What was given up is of an earlier process.
LEMMA StrayRun ==
    ASSUME IInv, NEW s \in stray, NEW x \in 1 .. Len(s.lines), phase # "down"
    PROVE  s.lines[x].run # run /\ s.lines[x] \in LineSet /\ Known(s.lines[x], mem, run)
<1>1. Given(s) /\ Last(s.lines).run # run /\ s.lines \in Seq(LineSet)
  BY DEF IInv, Strays, Shape, StraySet
<1>2. s.lines[x].run = Last(s.lines).run
  BY <1>1 DEF Given
<1>. QED
  BY <1>1, <1>2, SeqIs DEF IInv, Lines

\* A new line of the file comes before the lines behind the first batch.
LEMMA SourceBefore ==
    ASSUME IInv, NEW l, Source(l), NEW b \in 1 .. Len(chain), NEW y \in 1 .. Len(chain[b].lines),
           b # 1 \/ \E s \in stray : \E x \in 1 .. Len(s.lines) : l = s.lines[x]
    PROVE  Later(l, chain[b].lines[y])
<1>. PICK e : e = chain[b].lines[y]
  OBVIOUS
<1>1. Known(e, mem, run) /\ e.run = run
  BY BatchIs DEF IInv, Lines
<1>2. CASE \E s \in stray : \E x \in 1 .. Len(s.lines) : l = s.lines[x]
  <2>1. PICK s \in stray : \E x \in 1 .. Len(s.lines) : l = s.lines[x]
    BY <1>2
  <2>2. phase # "down"
    <3>1. Len(chain) \in Nat /\ Len(chain) > 0
      BY SeqIs DEF IInv, Shape
    <3>2. Len(<<>>) = 0
      OBVIOUS
    <3>. QED
      BY <3>1, <3>2 DEF IInv, Down
  <2>3. l.run # run /\ Known(l, mem, run) /\ l \in LineSet
    BY <2>1, <2>2, StrayRun
  <2>. QED
    BY <1>1, <2>3, EarlierRun DEF Later
<1>3. CASE io = "writing" /\ (\E x \in 1 .. Len(chain[1].lines) : Copies(l, chain[1].lines[x])) /\ b # 1
  <2>1. 1 \in Upcoming /\ b \in Upcoming /\ 1 < b
    <3>1. Len(chain) \in Nat
      BY SeqIs DEF IInv, Shape
    <3>. QED
      BY <1>3, <3>1 DEF Upcoming
  <2>2. \A x \in 1 .. Len(chain[1].lines) : Later(chain[1].lines[x], e)
    BY <2>1 DEF IInv, Order
  <2>. QED
    BY <1>3, <2>2 DEF Copies, Later
<1>4. l.of = 0 => Later(l, e)
  BY DEF Later
<1>. QED
  BY <1>2, <1>3, <1>4, StopIs DEF Source, IInv

\* A new batch comes after what is in the file and in the chain.
LEMMA AddedLater ==
    ASSUME IInv, NEW b, Added(b), NEW y \in 1 .. Len(b.lines), NEW a \in LineSet, Known(a, mem, run),
           EndKnown(a, turn, mem, catalogue)
    PROVE  Later(a, b.lines[y])
<1>0. /\ Len(mem) \in Nat /\ a.of \in Nat /\ (a.of # 0 => a.of <= Len(mem) /\ a.kind \in OfTurns)
      /\ rec.turns \in Nat /\ turn.of \in Nat
  <2>1. Len(mem) \in Nat /\ turn.of \in Nat /\ rec.turns \in Nat
    BY SeqIs DEF IInv, Shape, TurnSet, RecSet
  <2>. QED
    BY <2>1, LineIs DEF Known
<1>1. "note" \in Kinds /\ "event" \in Kinds /\ "end" \in Kinds /\ Opening \subseteq Kinds
  BY DEF Kinds, OfTurns, Opening
<1>2. ASSUME NEW l, l.of = 0 \/ l.of = Len(mem) + 1 PROVE Later(a, l)
  BY <1>0, <1>2 DEF Later
<1>3. ASSUME NEW kind \in Kinds, NEW k \in {0, Len(mem) + 1}, NEW n, NEW how, OneLine(b, kind, k, n, how, run)
      PROVE  Later(a, b.lines[y])
  <2>0. k \in Nat
    BY <1>0
  <2>1. IsLine(b.lines[y], kind, k, n, how, run)
    BY <1>3, <2>0, OneLineHas
  <2>. QED
    BY <1>2, <2>1 DEF IsLine
<1>4. ASSUME turn.at = "streaming", NEW l, l.of = turn.of, l.kind \in {"event", "end"} PROVE Later(a, l)
  <2>1. turn.of = Len(mem) /\ (a.kind = "end" => a.of # turn.of)
    BY <1>4 DEF IInv, Sending, EndKnown
  <2>2. Rank["input"] = 1 /\ Rank["wake"] = 1 /\ Rank["event"] = 2 /\ Rank["end"] = 3
    BY DEF Rank
  <2>3. a.of = turn.of /\ a.of # 0 => a.kind \in {"input", "wake", "event"}
    BY <1>0, <2>1 DEF OfTurns
  <2>4. a.of # 0 /\ a.of # turn.of => a.of < turn.of
    BY <1>0, <2>1
  <2>. QED
    BY <1>4, <2>2, <2>3, <2>4 DEF Later
<1>5. ASSUME turn.at = "streaming", NEW kind \in {"event", "end"}, NEW n, NEW how,
             OneLine(b, kind, turn.of, n, how, run)
      PROVE  Later(a, b.lines[y])
  <2>1. IsLine(b.lines[y], kind, turn.of, n, how, run)
    BY <1>0, <1>1, <1>5, OneLineHas
  <2>. QED
    BY <1>4, <1>5, <2>1 DEF IsLine
<1>6. ASSUME turn.at = "streaming", NEW n, NEW how, TwoLines(b, turn.of, n, how, run)
      PROVE  Later(a, b.lines[y])
  <2>1. b.lines[y].of = turn.of /\ b.lines[y].kind \in {"event", "end"}
    BY <1>6, TwoLinesHave DEF IsLine
  <2>. QED
    BY <1>4, <1>6, <2>1
<1>. QED
  BY <1>1, <1>3, <1>5, <1>6 DEF Added

\* The batches of the next chain that are still to come, but for a new one, were.
LEMMA UpcomingIs ==
    ASSUME IInv, Next, NEW b \in Upcoming'
    PROVE  /\ b \in 1 .. Len(chain')
           /\ \/ b \in Upcoming /\ chain'[b] = chain[b] /\ chain' = chain
                 /\ (io' = io \/ (BeginWrite /\ file' = file) \/ (WriteSucceeds /\ b # 1))
                 /\ (io' = io => file' = file \/ StrayLands)
              \/ b \in Upcoming /\ chain'[b] = chain[b] /\ io' = io /\ file' = file
                 /\ \E e : More(chain, chain', e) /\ Added(e)
              \/ Added(chain'[b]) /\ b = Len(chain') /\ More(chain, chain', chain'[b]) /\ io' = io
                   /\ file' = file
              \/ b + 1 \in Upcoming /\ chain'[b] = chain[b + 1] /\ Less(chain, chain') /\ io' = "idle"
                   /\ chain # <<>>
                 /\ (SkipBatch \/ OpenFails \/ WriteSucceeds \/ WriteFails \/ StopWritten \/ StopFails)
<1>. PICK c \in Seq(BatchSet) : c = chain
  BY DEF IInv, Shape
<1>. PICK d \in Seq(BatchSet) : d = chain'
  BY StepChain
<1>0. Len(c) \in Nat /\ Len(d) \in Nat
  BY SeqIs
<1>1. b \in 1 .. Len(d) /\ (io' = "stopping" => b # 1)
  BY DEF Upcoming
<1>2. CASE d = c /\ io' = io /\ (file' = file \/ StrayLands)
  BY <1>1, <1>2 DEF Upcoming
<1>3. CASE d = c /\ io' = "writing" /\ BeginWrite
  BY <1>1, <1>3 DEF Upcoming, BeginWrite
<1>4. CASE d = c /\ io' = "stopping" /\ WriteSucceeds
  BY <1>1, <1>4 DEF Upcoming, WriteSucceeds
<1>5. CASE io' = io /\ file' = file /\ \E e : More(c, d, e) /\ Added(e)
  <2>1. PICK e : More(c, d, e) /\ Added(e)
    BY <1>5
  <2>2. CASE b \in 1 .. Len(c)
    BY <1>1, <1>5, <2>1, <2>2 DEF More, Upcoming
  <2>3. CASE b \notin 1 .. Len(c)
    <3>1. b = Len(d) /\ d[Len(d)] = e
      BY <1>0, <1>1, <2>1, <2>3 DEF More
    <3>. QED
      BY <1>1, <1>5, <2>1, <3>1
  <2>. QED
    BY <2>2, <2>3
<1>6. CASE c # <<>> /\ Less(c, d) /\ io' = "idle"
           /\ (SkipBatch \/ OpenFails \/ WriteSucceeds \/ WriteFails \/ StopWritten \/ StopFails)
  <2>2. Len(d) = Len(c) - 1 /\ d[b] = c[b + 1]
    BY <1>1, <1>6 DEF Less
  <2>1. b + 1 \in 1 .. Len(c) /\ b + 1 # 1
    BY <1>0, <1>1, <2>2
  <2>. QED
    BY <1>1, <1>6, <2>1, <2>2 DEF Upcoming
<1>7. CASE d = <<>>
  BY <1>0, <1>1, <1>7
<1>. QED
  BY <1>2, <1>3, <1>4, <1>5, <1>6, <1>7, StepChain

LEMMA OrderKept ==
    ASSUME IInv, Next
    PROVE  Order'
<1>0. ASSUME NEW i \in Places(file)
      PROVE file[i] \in LineSet /\ Known(file[i], mem, run) /\ EndKnown(file[i], turn, mem, catalogue)
  BY <1>0, PlacesAre DEF IInv, Shape, Lines, Ends
<1>1. ASSUME NEW b \in 1 .. Len(chain), NEW x \in 1 .. Len(chain[b].lines)
      PROVE  /\ chain[b].lines[x] \in LineSet /\ Known(chain[b].lines[x], mem, run)
             /\ EndKnown(chain[b].lines[x], turn, mem, catalogue)
  BY <1>1, BatchIs DEF IInv, Lines, Ends
<1>2. ASSUME NEW i \in Places(file'), NEW b \in Upcoming', NEW y \in 1 .. Len(chain'[b].lines)
      PROVE  Later(file'[i], chain'[b].lines[y])
  <2>. PICK l : l = file'[i]
    OBVIOUS
  <2>. PICK B : B = chain'[b]
    OBVIOUS
  <2>1. (i \in Places(file) /\ l = file[i]) \/ Source(l)
    BY StepFile
  <2>2. ASSUME NEW e \in Upcoming, B = chain[e], i \in Places(file), l = file[i]
        PROVE  Later(l, B.lines[y])
    BY <2>2 DEF IInv, Order
  <2>3. ASSUME NEW e \in Upcoming, B = chain[e], Source(l),
               e # 1 \/ \E s \in stray : \E x \in 1 .. Len(s.lines) : l = s.lines[x]
        PROVE  Later(l, B.lines[y])
    BY <2>3, SourceBefore DEF Upcoming
  <2>4. CASE Added(B) /\ file' = file
    BY <1>0, <2>4, AddedLater
  <2>5. CASE b \in Upcoming /\ B = chain[b] /\ file' = file
    BY <2>2, <2>5
  <2>6. CASE b \in Upcoming /\ B = chain[b] /\ b # 1
    BY <2>1, <2>2, <2>3, <2>6
  <2>7. CASE b + 1 \in Upcoming /\ B = chain[b + 1]
    <3>1. b + 1 # 1
      <4>1. b \in 1 .. Len(chain')
        BY UpcomingIs
      <4>. QED
        BY <4>1
    <3>. QED
      BY <2>1, <2>2, <2>3, <2>7, <3>1
  <2>8. CASE StrayLands /\ b \in Upcoming /\ B = chain[b]
    <3>1. (i \in Places(file) /\ l = file[i]) \/ \E s \in stray : \E x \in 1 .. Len(s.lines) : l = s.lines[x]
      <4>1. \A ls, e : WroteAll(file, file', ls, e) => Wrote(file, file', ls)
        BY Zenon DEF WroteAll
      <4>2. \E s \in stray : Wrote(file, file', s.lines)
        <5>1. (~WriteSucceeds /\ ~StopWritten /\ ~WriteFails /\ ~StopFails /\ ~Leave /\ ~Crash)
              \/ \E s \in stray : Wrote(file, file', s.lines)
          BY <2>8 DEF StrayLands, WriteSucceeds, StopWritten, WriteFails, StopFails, Leave, Crash, Gone,
             unwritten
        <5>. QED
          BY <2>8, <4>1, <5>1, StepFileMoves DEF FileMoves
      <4>. QED
        BY <4>2 DEF Wrote
    <3>. QED
      BY <2>2, <2>3, <2>8, <3>1 DEF Source
  <2>. QED
    BY <2>4, <2>5, <2>6, <2>7, <2>8, UpcomingIs
<1>3. ASSUME NEW b \in Upcoming', NEW d \in Upcoming', b < d,
             NEW x \in 1 .. Len(chain'[b].lines), NEW y \in 1 .. Len(chain'[d].lines)
      PROVE  Later(chain'[b].lines[x], chain'[d].lines[y])
  <2>1. \A e, f \in Upcoming : e < f =>
           \A u \in 1 .. Len(chain[e].lines), v \in 1 .. Len(chain[f].lines) :
              Later(chain[e].lines[u], chain[f].lines[v])
    BY DEF IInv, Order
  <2>2. b \in 1 .. Len(chain') /\ d \in 1 .. Len(chain') /\ Len(chain') \in Nat /\ Len(chain) \in Nat
    BY UpcomingIs, StepChain, SeqIs DEF IInv, Shape
  <2>3. CASE Added(chain'[d]) /\ d = Len(chain') /\ More(chain, chain', chain'[d])
    <3>1. b \in 1 .. Len(chain) /\ chain'[b] = chain[b]
      BY <1>3, <2>2, <2>3 DEF More
    <3>. QED
      BY <1>1, <1>3, <2>3, <3>1, AddedLater
  <2>4. CASE d \in Upcoming /\ chain'[d] = chain[d] /\ (chain' = chain \/ \E e : More(chain, chain', e))
    <3>1. Len(chain) <= Len(chain')
      BY <2>2, <2>4 DEF More
    <3>2. b \in Upcoming /\ chain'[b] = chain[b]
      <4>1. ~Less(chain, chain')
        BY <2>2, <3>1 DEF Less
      <4>2. b # Len(chain')
        BY <1>3, <2>2
      <4>. QED
        BY <4>1, <4>2, UpcomingIs
    <3>. QED
      BY <1>3, <2>1, <2>4, <3>2
  <2>5. CASE d + 1 \in Upcoming /\ chain'[d] = chain[d + 1] /\ Less(chain, chain')
    <3>1. Len(chain') < Len(chain)
      BY <2>2, <2>5 DEF Less
    <3>2. b + 1 \in Upcoming /\ chain'[b] = chain[b + 1]
      BY <2>2, <3>1, UpcomingIs DEF More
    <3>3. b + 1 < d + 1
      BY <1>3, <2>2
    <3>. QED
      BY <1>3, <2>1, <2>5, <3>2, <3>3
  <2>. QED
    BY <2>3, <2>4, <2>5, UpcomingIs
<1>. QED
  BY <1>2, <1>3 DEF Order

LEMMA SwallowKept ==
    ASSUME IInv, Next
    PROVE  Swallow'
<1>1. SUFFICES ASSUME phase' # "down", rec'.state = "on" \/ io' # "idle", EndsTorn(file'), ~rec'.guard
      PROVE  rec'.header
  BY DEF Swallow
<1>2. rec \in RecSet /\ rec' \in RecSet
  BY StepRec DEF IInv, Shape
<1>3. CASE Restart
  BY <1>3 DEF Restart, Fresh
<1>4. CASE ~Restart
  <2>1. phase # "down"
    BY <1>1, <1>4, StepPhase, WhenDown
  <2>2. ~WriteSucceeds
    <3>1. SUFFICES ASSUME WriteSucceeds PROVE ~EndsTorn(file')
      BY <1>1
    <3>2. io = "writing" /\ file' = Joined(Payload, rec.guard) /\ rec.guard \in BOOLEAN
      BY <1>2, <3>1 DEF WriteSucceeds, RecSet
    <3>3. WroteAll(file, file', Payload, rec.guard)
      <4>. PICK g : g = file'
        OBVIOUS
      <4>1. WroteAll(file, g, Payload, rec.guard)
        BY <3>2, PayloadSource, FullWrite DEF IInv
      <4>. QED
        BY <4>1
    <3>. QED
      BY <3>3, Zenon DEF WroteAll
  <2>3. ~StrayLands
    <3>1. SUFFICES ASSUME StrayLands PROVE ~EndsTorn(file')
      BY <1>1
    <3>2. PICK s \in stray : file' = Joined(s.lines, s.guard)
      BY <3>1 DEF StrayLands
    <3>3. s.lines \in Seq(LineSet) /\ s.guard \in BOOLEAN /\ s.lines # <<>>
          /\ \A y \in 1 .. Len(s.lines) : Whole(s.lines[y])
      BY DEF IInv, Shape, StraySet, Strays, Given
    <3>4. WroteAll(file, file', s.lines, s.guard)
      <4>. PICK g : g = file'
        OBVIOUS
      <4>1. WroteAll(file, g, s.lines, s.guard)
        BY <3>2, <3>3, FullWrite DEF IInv
      <4>. QED
        BY <4>1
    <3>. QED
      BY <3>4, Zenon DEF WroteAll
  <2>4. ~WriteFails /\ ~StopFails /\ ~StopWritten
    <3>1. SUFFICES ASSUME WriteFails \/ StopFails \/ StopWritten PROVE io' = "idle" /\ rec'.state # "on"
      BY <1>1
    <3>2. io' = "idle"
      BY <3>1 DEF WriteFails, StopFails, StopWritten, BatchDone
    <3>3. rec' = Failed \/ rec' = [rec EXCEPT !.state = IF @ = "on" THEN "full" ELSE @, !.seq = @ + 1]
      BY <3>1 DEF WriteFails, StopFails, StopWritten
    <3>. QED
      BY <1>2, <3>2, <3>3 DEF Failed, RecSet
  <2>5. ~Leave /\ ~Crash
    BY <1>1 DEF Leave, Crash, Gone
  <2>6. file' = file
    BY <2>2, <2>3, <2>4, <2>5, StepFileMoves DEF FileMoves
  <2>7. io' # "idle" => io # "idle" \/ rec.state = "on"
    <3>1. BeginWrite => rec.state = "on"
      BY DEF BeginWrite
    <3>. QED
      BY <2>2, <3>1, StepChain
  <2>8. rec'.state = "on" => rec.state = "on"
    BY <1>2, <1>4, StepRec DEF Failed, RecSet
  <2>9. rec.state = "on" \/ io # "idle"
    BY <1>1, <2>7, <2>8
  <2>10. CASE TailLands
    <3>1. ~rec.tail /\ rec'.header = rec.header
      BY <1>2, <2>10 DEF TailLands, RecSet
    <3>2. rec.header
      BY <3>1 DEF IInv, Writing
    <3>. QED
      BY <3>1, <3>2
  <2>11. CASE ~TailLands
    <3>1. rec'.header = rec.header /\ rec'.guard = rec.guard
      BY <1>2, <1>4, <2>2, <2>4, <2>11, StepRec DEF Failed, RecSet
    <3>. QED
      BY <1>1, <2>1, <2>6, <2>9, <3>1 DEF IInv, Swallow
  <2>. QED
    BY <2>10, <2>11
<1>. QED
  BY <1>3, <1>4

\* A write that succeeds leaves every line of the batch in the file, the last as the last.
LEMMA HeadWritten ==
    ASSUME IInv, WriteSucceeds
    PROVE  /\ chain # <<>> /\ 1 \in 1 .. Len(chain) /\ chain[1].lines # <<>> /\ io = "writing"
           /\ \A x \in 1 .. Len(chain[1].lines) : \E i \in Places(file') :
                 /\ Copies(file'[i], chain[1].lines[x])
                 /\ x = Len(chain[1].lines) => file'[i].seq = rec.seq + (Len(Payload) - 1)
<1>1. /\ chain # <<>> /\ phase # "down" /\ io = "writing" /\ rec.guard \in BOOLEAN /\ rec.header \in BOOLEAN
      /\ rec.seq \in Nat /\ file' = Joined(Payload, rec.guard)
  BY DEF WriteSucceeds, Running, IInv, Shape, RecSet
<1>2. 1 \in 1 .. Len(chain)
  BY <1>1, SeqIs DEF IInv, Shape
<1>. PICK g : g = file'
  OBVIOUS
<1>. PICK p : p = Payload
  OBVIOUS
<1>. PICK ls \in Seq(LineSet) : ls = chain[1].lines /\ ls # <<>>
  BY <1>2, BatchIs DEF IInv
<1>. PICK hd \in BOOLEAN, q \in Nat : hd = rec.header /\ q = rec.seq
  BY <1>1
<1>3. WroteAll(file, g, p, rec.guard)
  BY <1>1, PayloadSource, FullWrite DEF IInv
<1>4. \A y \in 1 .. Len(p) : y # 1 \/ (EndsTorn(file) => rec.guard) => \E i \in Places(g) : g[i] = p[y]
  BY <1>3, Zenon DEF WroteAll
<1>5. ~hd => (EndsTorn(file) => rec.guard)
  BY <1>1 DEF IInv, Swallow
<1>6. Sent(p, hd, ls, run, q)
  BY <1>1, PayloadIs DEF IInv
<1>7. Len(ls) \in Nat /\ Len(p) \in Nat
  BY <1>6, SeqIs DEF Sent
<1>8. ASSUME NEW y \in 1 .. Len(p), hd => y # 1 PROVE \E i \in Places(g) : g[i] = p[y]
  BY <1>4, <1>5, <1>8
<1>9. ASSUME NEW x \in 1 .. Len(ls)
      PROVE  \E i \in Places(g) : Copies(g[i], ls[x]) /\ (x = Len(ls) => g[i].seq = q + (Len(p) - 1))
  <2>1. CASE hd
    <3>1. x + 1 \in 1 .. Len(p) /\ x + 1 # 1 /\ (x = Len(ls) => x + 1 = Len(p)) /\ Copies(p[x + 1], ls[x])
      <4>1. Len(p) = Len(ls) + 1 /\ \A z \in 1 .. Len(ls) : Copies(p[z + 1], ls[z])
        BY <1>6, <2>1, Zenon DEF Sent
      <4>2. x + 1 \in 1 .. Len(p) /\ x + 1 # 1 /\ (x = Len(ls) => x + 1 = Len(p))
        BY ONLY <1>7, <4>1, x \in 1 .. Len(ls)
      <4>. QED
        BY <4>1, <4>2
    <3>. PICK y \in 1 .. Len(p) : y = x + 1
      BY <3>1
    <3>2. p[y].seq = q + (y - 1)
      BY <1>6 DEF Sent
    <3>3. PICK i \in Places(g) : g[i] = p[y]
      BY <1>8, <3>1
    <3>. QED
      BY <3>1, <3>2, <3>3
  <2>2. CASE ~hd
    <3>1. x \in 1 .. Len(p) /\ Len(p) = Len(ls) /\ Copies(p[x], ls[x]) /\ p[x].seq = q + (x - 1)
      BY <1>6, <1>7, <2>2 DEF Sent
    <3>2. PICK i \in Places(g) : g[i] = p[x]
      BY <1>8, <2>2, <3>1
    <3>. QED
      BY <3>1, <3>2
  <2>. QED
    BY <2>1, <2>2
<1>. QED
  BY <1>1, <1>2, <1>9

LEMMA OpenedKept ==
    ASSUME IInv, Next
    PROVE  Opened'
<1>0. rec \in RecSet /\ rec' \in RecSet /\ io \in {"idle", "writing", "stopping"} /\ turn \in TurnSet
  BY StepRec DEF IInv, Shape
<1>1. ASSUME NEW k, Found(file, Opening, k) PROVE Found(file', Opening, k)
  BY <1>1, StepFile DEF Found
<1>2. /\ turn.at = "streaming" /\ rec.state = "on" => Found(file, Opening, turn.of)
      /\ turn.at = "barrier" /\ rec.state = "on" =>
            \/ Found(file, Opening, turn.of)
            \/ \E b \in Upcoming : \E x \in 1 .. Len(chain[b].lines) :
                  chain[b].lines[x].kind \in Opening /\ chain[b].lines[x].of = turn.of
      /\ \A b \in Live : \A x \in 1 .. Len(chain[b].lines) :
            chain[b].lines[x].kind \in {"event", "end"} => Found(file, Opening, chain[b].lines[x].of)
  BY DEF IInv, Opened
<1>3. ~Restart => (rec'.state = "on" => rec.state = "on")
  BY <1>0, StepRec DEF Failed, RecSet
<1>4. ASSUME Restart
      PROVE  turn'.at = "idle" /\ chain' = <<>> /\ io' = "idle" /\ Len(<<>>) = 0
  BY <1>4 DEF Restart, IInv, Down
<1>5. SkipBatch => rec'.state # "on"
  BY DEF SkipBatch
<1>6. OpenFails \/ WriteFails \/ StopFails \/ BarrierTimesOut \/ RecordFails \/ StopWritten =>
        rec'.state # "on"
  <2>1. OpenFails \/ WriteFails \/ StopFails \/ BarrierTimesOut \/ RecordFails => rec' = Failed
    BY DEF OpenFails, WriteFails, StopFails, BarrierTimesOut, RecordFails
  <2>2. StopWritten => rec' = [rec EXCEPT !.state = IF @ = "on" THEN "full" ELSE @, !.seq = @ + 1]
    BY DEF StopWritten
  <2>. QED
    BY <1>0, <2>1, <2>2 DEF Failed, RecSet
\* What the model is called with.
<1>7. ASSUME turn'.at = "streaming", rec'.state = "on" PROVE Found(file', Opening, turn'.of)
  <2>1. rec.state = "on"
    BY <1>3, <1>4, <1>7
  <2>2. ~ \E o \in left.opens : Begin(o[1], o[2])
    <3>1. SUFFICES ASSUME NEW o \in left.opens, Begin(o[1], o[2]) PROVE turn'.at = "barrier"
      BY <1>7
    <3>. PICK p \in BOOLEAN, q \in BOOLEAN : p = o[1] /\ q = o[2]
      BY LeftIs DEF IInv
    <3>. QED
      BY <2>1, <3>1, BeginIs DEF IInv, Ledger
  <2>3. CASE turn' = turn
    BY <1>1, <1>2, <1>7, <2>1, <2>3
  <2>4. CASE turn.at = "barrier" /\ turn'.of = turn.of /\ (BarrierPasses \/ BarrierTimesOut)
    <3>1. BarrierPasses /\ chain = <<>>
      BY <1>6, <1>7, <2>4 DEF BarrierPasses
    <3>2. Upcoming = {}
      <4>1. Len(chain) = 0
        BY <3>1
      <4>. QED
        BY <4>1 DEF Upcoming
    <3>. QED
      BY <1>1, <1>2, <2>1, <2>4, <3>2
  <2>. QED
    BY <1>7, <2>2, <2>3, <2>4, StepTurn DEF NoTurn
\* What waits to be written is written.
<1>8. ASSUME NEW b \in Upcoming, NEW x \in 1 .. Len(chain[b].lines), rec'.state = "on", ~Gone,
             chain[b].lines[x].kind \in Opening
      PROVE  \/ Found(file', Opening, chain[b].lines[x].of)
             \/ \E d \in Upcoming' : chain'[d] = chain[b]
  <2>. PICK c \in Seq(BatchSet) : c = chain
    BY DEF IInv, Shape
  <2>. PICK d \in Seq(BatchSet) : d = chain'
    BY StepChain
  <2>0. Len(c) \in Nat /\ Len(d) \in Nat /\ b \in 1 .. Len(c) /\ (io = "stopping" => b # 1)
    BY SeqIs DEF Upcoming
  <2>1. ASSUME WriteSucceeds, b = 1 PROVE Found(file', Opening, chain[b].lines[x].of)
    BY <1>8, <2>1, HeadWritten DEF Found, Copies
  <2>2. CASE d = c /\ (io' = io \/ b # 1 \/ io' = "writing")
    <3>1. b \in Upcoming'
      BY <2>0, <2>2 DEF Upcoming
    <3>. QED
      BY <2>2, <3>1
  <2>3. CASE io' = io /\ \E e : More(c, d, e)
    <3>1. b \in 1 .. Len(d) /\ d[b] = c[b]
      BY <2>0, <2>3 DEF More
    <3>2. b \in Upcoming'
      BY <2>0, <2>3, <3>1 DEF Upcoming
    <3>. QED
      BY <3>1, <3>2
  <2>4. CASE Less(c, d) /\ io' = "idle" /\ b # 1
    <3>. PICK e \in Nat : e = b - 1
      BY <2>0, <2>4
    <3>1. e \in 1 .. Len(d) /\ e + 1 = b
      BY <2>0, <2>4 DEF Less
    <3>2. d[e] = c[e + 1]
      BY <2>4, <3>1 DEF Less
    <3>3. e \in Upcoming'
      BY <2>4, <3>1 DEF Upcoming
    <3>. QED
      BY <3>1, <3>2, <3>3
  <2>. QED
    BY <1>5, <1>6, <1>8, <2>1, <2>2, <2>3, <2>4, StepChain
<1>9. ASSUME turn'.at = "barrier", rec'.state = "on"
      PROVE  \/ Found(file', Opening, turn'.of)
             \/ \E b \in Upcoming' : \E x \in 1 .. Len(chain'[b].lines) :
                   chain'[b].lines[x].kind \in Opening /\ chain'[b].lines[x].of = turn'.of
  <2>1. rec.state = "on" /\ ~Gone
    BY <1>3, <1>4, <1>9 DEF Gone, NoTurn
  <2>2. CASE \E o \in left.opens : Begin(o[1], o[2])
    <3>1. PICK o \in left.opens : Begin(o[1], o[2])
      BY <2>2
    <3>. PICK p \in BOOLEAN, q \in BOOLEAN : p = o[1] /\ q = o[2]
      BY LeftIs DEF IInv
    <3>. PICK k \in Nat : k = Len(mem) + 1
      BY SeqIs DEF IInv, Shape
    <3>10. Begin(p, q)
      BY <3>1
    <3>11. /\ turn'.of = Len(mem) + 1
           /\ \E b : /\ More(chain, chain', b)
                     /\ \E kind \in Opening : OneLine(b, kind, Len(mem) + 1, rec.turns + 1, None, run)
      BY <2>1, <3>10, BeginIs DEF IInv, Ledger
    <3>12. PICK e : /\ More(chain, chain', e)
                    /\ \E kind \in Opening : OneLine(e, kind, Len(mem) + 1, rec.turns + 1, None, run)
      BY <3>11
    <3>13. PICK kind \in Opening : OneLine(e, kind, Len(mem) + 1, rec.turns + 1, None, run)
      BY <3>12
    <3>2. More(chain, chain', e) /\ turn'.of = k /\ OneLine(e, kind, k, rec.turns + 1, None, run)
      BY <3>11, <3>12, <3>13
    <3>. PICK d : d = chain'
      OBVIOUS
    <3>3. Len(chain) \in Nat /\ Len(d) \in Nat /\ d[Len(d)] = e /\ Len(d) = Len(chain) + 1
      BY <3>2, SeqIs DEF More, IInv, Shape
    <3>4. Len(e.lines) = 1 /\ e.lines[1].kind = kind /\ e.lines[1].of = k
      BY <3>2 DEF OneLine, IsLine
    <3>5. Len(d) \in Upcoming'
      <4>1. io' = io
        BY <3>1 DEF Begin
      <4>2. io = "stopping" => Len(chain) # 0
        BY SeqIs DEF IInv, Shape, Writing
      <4>. QED
        BY <3>3, <4>1, <4>2 DEF Upcoming
    <3>6. 1 \in 1 .. Len(e.lines)
      BY <3>4
    <3>7. d[Len(d)].lines[1].kind \in Opening /\ d[Len(d)].lines[1].of = turn'.of
            /\ 1 \in 1 .. Len(d[Len(d)].lines)
      BY <3>2, <3>3, <3>4, <3>6
    <3>. QED
      BY <3>5, <3>7
  <2>3. CASE turn' = turn
    <3>1. CASE Found(file, Opening, turn.of)
      BY <1>1, <2>3, <3>1
    <3>2. CASE \E b \in Upcoming : \E x \in 1 .. Len(chain[b].lines) :
                  chain[b].lines[x].kind \in Opening /\ chain[b].lines[x].of = turn.of
      <4>0. PICK b \in Upcoming : \E x \in 1 .. Len(chain[b].lines) :
                  chain[b].lines[x].kind \in Opening /\ chain[b].lines[x].of = turn.of
        BY <3>2
      <4>1. PICK x \in 1 .. Len(chain[b].lines) :
               chain[b].lines[x].kind \in Opening /\ chain[b].lines[x].of = turn.of
        BY <4>0
      <4>2. \/ Found(file', Opening, chain[b].lines[x].of)
            \/ \E d \in Upcoming' : chain'[d] = chain[b]
        BY <1>8, <1>9, <2>1, <4>1
      <4>. QED
        BY <2>3, <4>1, <4>2
    <3>. QED
      BY <1>2, <1>9, <2>1, <2>3, <3>1, <3>2
  <2>. QED
    BY <1>9, <2>2, <2>3, StepTurn DEF NoTurn
\* What may be written.
<1>10. ASSUME NEW b \in Live', NEW x \in 1 .. Len(chain'[b].lines),
              chain'[b].lines[x].kind \in {"event", "end"}
       PROVE  Found(file', Opening, chain'[b].lines[x].of)
  <2>. PICK e : e = chain'[b]
    OBVIOUS
  <2>0. b \in 1 .. Len(chain')
    BY DEF Live
  <2>1. ASSUME NEW d \in Live, e = chain[d] PROVE Found(file', Opening, e.lines[x].of)
    BY <1>1, <1>2, <1>10, <2>1
  <2>2. ~Restart
    BY <1>4, <2>0
  <2>3. CASE rec'.state = "on"
    <3>1. rec.state = "on" /\ b \in Upcoming' /\ Live = Upcoming
      BY <1>3, <2>2, <2>3 DEF Live, Upcoming
    <3>2. CASE Added(e) /\ io' = io
      <4>1. turn.at = "streaming" /\ e.lines[x].of = turn.of
        <5>1. "note" \in Kinds /\ "event" \in Kinds /\ "end" \in Kinds /\ Opening \subseteq Kinds
              /\ "note" \notin {"event", "end"} /\ Opening \cap {"event", "end"} = {}
          BY DEF Kinds, OfTurns, Opening
        <5>2. Len(mem) + 1 \in Nat /\ turn.of \in Nat
          BY <1>0, SeqIs DEF IInv, Shape, TurnSet
        <5>3. ASSUME NEW B, NEW kind \in Kinds, NEW k \in Nat, NEW n, NEW how,
                     OneLine(B, kind, k, n, how, run),
                     NEW u \in 1 .. Len(B.lines)
              PROVE  B.lines[u].kind = kind /\ B.lines[u].of = k
          <6>1. IsLine(B.lines[u], kind, k, n, how, run)
            BY ONLY <5>3, OneLineHas
          <6>. QED
            BY <6>1 DEF IsLine
        <5>4. ASSUME NEW B, NEW k, NEW n, NEW how, TwoLines(B, k, n, how, run), NEW u \in 1 .. Len(B.lines)
              PROVE  B.lines[u].of = k
          BY <5>4, TwoLinesHave DEF IsLine
        <5>5. x \in 1 .. Len(e.lines) /\ e.lines[x].kind \in {"event", "end"}
          BY <1>10
        <5>6. ~ OneLine(e, "note", 0, rec.turns, None, run)
          <6>1. SUFFICES ASSUME OneLine(e, "note", 0, rec.turns, None, run) PROVE FALSE
            OBVIOUS
          <6>2. e.lines[x].kind = "note"
            BY ONLY <5>1, <5>3, <5>5, <6>1
          <6>. QED
            BY <5>1, <5>5, <6>2
        <5>7. ASSUME NEW kind \in Opening, NEW n PROVE ~ OneLine(e, kind, Len(mem) + 1, n, None, run)
          <6>1. SUFFICES ASSUME OneLine(e, kind, Len(mem) + 1, n, None, run) PROVE FALSE
            OBVIOUS
          <6>. PICK k \in Nat : k = Len(mem) + 1
            BY <5>2
          <6>2. OneLine(e, kind, k, n, None, run) /\ kind \in Kinds
            BY <5>1, <6>1
          <6>3. e.lines[x].kind = kind
            BY ONLY <5>3, <5>5, <6>2
          <6>. QED
            BY <5>1, <5>5, <6>3
        <5>8. /\ turn.at = "streaming"
              /\ \/ OneLine(e, "event", turn.of, turn.n, None, run)
                 \/ OneLine(e, "end", turn.of, turn.n, turn'.how, run)
                 \/ TwoLines(e, turn.of, turn.n, turn'.how, run)
          BY <3>2, <5>6, <5>7 DEF Added
        <5>. PICK k \in Nat : k = turn.of
          BY <5>2
        <5>9. \/ OneLine(e, "event", k, turn.n, None, run)
              \/ OneLine(e, "end", k, turn.n, turn'.how, run)
              \/ TwoLines(e, k, turn.n, turn'.how, run)
          BY <5>8
        <5>10. e.lines[x].of = k
          BY ONLY <5>1, <5>3, <5>4, <5>5, <5>9
        <5>. QED
          BY <5>8, <5>10
      <4>. QED
        BY <1>1, <1>2, <3>1, <4>1
    <3>3. CASE (b \in Upcoming /\ e = chain[b]) \/ (b + 1 \in Upcoming /\ e = chain[b + 1])
      BY <2>1, <3>1, <3>3
    <3>. QED
      BY <3>1, <3>2, <3>3, UpcomingIs
  <2>4. CASE rec'.state # "on"
    <3>1. b = 1 /\ io' = "writing"
      BY <2>4 DEF Live
    <3>2. ~BeginWrite
      BY <2>4 DEF BeginWrite
    <3>3. io = "writing" /\ (chain' = chain \/ \E f : More(chain, chain', f))
      BY <3>1, <3>2, StepChain
    <3>4. 1 \in 1 .. Len(chain) /\ chain'[1] = chain[1]
      <4>1. 1 \in 1 .. Len(chain)
        BY <3>3, SeqIs DEF IInv, Shape, Writing
      <4>. QED
        BY <3>3, <4>1 DEF More
    <3>5. 1 \in Live
      BY <3>3, <3>4 DEF Live
    <3>. QED
      BY <2>1, <3>1, <3>4, <3>5
  <2>. QED
    BY <2>3, <2>4
<1>. QED
  BY <1>7, <1>9, <1>10 DEF Opened

-----------------------------------------------------------------------------
(* What is remembered names the record that ends its turn *)

LEMMA EarnedKept ==
    ASSUME IInv, Next
    PROVE  Earned'
<1>. PICK m \in Seq(MemSet) : m = mem
  BY DEF IInv, Shape
<1>. PICK n \in Seq(MemSet) : n = mem'
  BY StepMem DEF Grown
<1>0. Len(m) \in Nat /\ Len(n) \in Nat /\ rec \in RecSet /\ rec' \in RecSet /\ rec.seq \in Nat
  BY StepRec, SeqIs DEF IInv, Shape, RecSet
<1>1. ASSUME NEW k, NEW t, NEW q, EndIn(file, k, t, q) PROVE EndIn(file', k, t, q)
  BY <1>1, StepFile DEF EndIn
<1>2. /\ \A k \in 1 .. Len(m) : m[k].state \in {"settled", "committing"} =>
           EndIn(file, k, m[k].turn, m[k].seq)
      /\ io = "stopping" /\ chain[1].closes # 0 /\ Last(chain[1].lines).how = "ok" =>
            EndIn(file, chain[1].closes, m[chain[1].closes].turn, rec.seq - 1)
      /\ Rooted(file, store) /\ Rooted(file, commit.store)
  BY DEF IInv, Earned
<1>3. /\ \A k \in 1 .. Len(m) : k \in 1 .. Len(n) /\ n[k].turn = m[k].turn
      /\ Len(n) = Len(m) \/ \E o \in left.opens : Begin(o[1], o[2])
  BY StepMem DEF Grown
<1>4. ASSUME WriteSucceeds, chain[1].closes # 0, Last(chain[1].lines).how = "ok"
      PROVE  EndIn(file', chain[1].closes, m[chain[1].closes].turn, rec.seq + (Len(Payload) - 1))
  <2>. PICK c : c = chain[1]
    OBVIOUS
  <2>. PICK g : g = file'
    OBVIOUS
  <2>1. /\ 1 \in 1 .. Len(chain)
        /\ \A x \in 1 .. Len(c.lines) : \E i \in Places(g) :
              Copies(g[i], c.lines[x]) /\ (x = Len(c.lines) => g[i].seq = rec.seq + (Len(Payload) - 1))
    BY <1>4, HeadWritten
  <2>2. /\ Last(c.lines).kind = "end" /\ c.closes = Last(c.lines).of /\ Last(c.lines).turn = m[c.closes].turn
        /\ Len(c.lines) \in 1 .. Len(c.lines) /\ Last(c.lines) = c.lines[Len(c.lines)]
    BY <1>4, <2>1, ClosesIs DEF IInv
  <2>3. PICK i \in Places(g) : Copies(g[i], Last(c.lines)) /\ g[i].seq = rec.seq + (Len(Payload) - 1)
    BY ONLY <2>1, <2>2, SMTT(30)
  <2>4. EndIn(g, c.closes, m[c.closes].turn, rec.seq + (Len(Payload) - 1))
    BY <1>4, <2>2, <2>3 DEF EndIn, Copies
  <2>. QED
    BY <2>4
\* A turn that settles.
<1>5. ASSUME NEW k \in 1 .. Len(n), n[k].state \in {"settled", "committing"}
      PROVE  EndIn(file', k, n[k].turn, n[k].seq)
  <2>1. k \in 1 .. Len(m)
    <3>1. SUFFICES ASSUME k \notin 1 .. Len(m) PROVE FALSE
      OBVIOUS
    <3>2. PICK o \in left.opens : Begin(o[1], o[2])
      BY <1>3, <3>1
    <3>. PICK p \in BOOLEAN, q \in BOOLEAN : p = o[1] /\ q = o[2]
      BY LeftIs DEF IInv
    <3>3. NewTurn(m, n, rec.state = "on", IF rec.state = "on" THEN rec.turns + 1 ELSE 0, run)
      BY <3>2, BeginIs DEF IInv, Ledger
    <3>4. k = Len(n) /\ n[k].state \in {"open", "gone"}
      BY <1>0, <3>1, <3>3 DEF NewTurn
    <3>. QED
      BY <1>5, <3>4
  <2>. PICK a \in MemSet, b \in MemSet : a = m[k] /\ b = n[k]
    BY <2>1, SeqIs
  <2>2. b.turn = a.turn
    BY <1>3, <2>1
  <2>3. TurnMoves(k)
    BY <2>1, StepMem
  <2>4. CASE b.seq = a.seq /\ a.state \in {"settled", "committing"}
    BY <1>1, <1>2, <2>1, <2>2, <2>4
  <2>5. CASE /\ chain # <<>> /\ k = chain[1].closes
             /\ \E kept \in BOOLEAN, q \in Nat :
                   /\ SettledTo(a, b, kept /\ Last(chain[1].lines).how = "ok", q)
                   /\ kept => \/ WriteSucceeds /\ q = rec.seq + (Len(Payload) - 1)
                              \/ StopWritten /\ q = rec.seq - 1
    <3>1. PICK kept \in BOOLEAN, q \in Nat :
                   /\ SettledTo(a, b, kept /\ Last(chain[1].lines).how = "ok", q)
                   /\ kept => \/ WriteSucceeds /\ q = rec.seq + (Len(Payload) - 1)
                              \/ StopWritten /\ q = rec.seq - 1
      BY <2>5
    <3>2. CASE a.state \notin {"open", "sealed"}
      BY <1>5, <2>4, <3>1, <3>2 DEF SettledTo
    <3>3. CASE a.state \in {"open", "sealed"}
      <4>1. kept /\ Last(chain[1].lines).how = "ok" /\ b.seq = q
        BY <1>5, <3>1, <3>3 DEF SettledTo
      <4>2. k # 0
        BY <2>1
      <4>3. EndIn(file', k, a.turn, q)
        <5>1. CASE WriteSucceeds /\ q = rec.seq + (Len(Payload) - 1)
          BY <1>4, <2>5, <4>1, <4>2, <5>1
        <5>2. CASE StopWritten /\ q = rec.seq - 1
          <6>1. io = "stopping"
            BY <5>2 DEF StopWritten
          <6>. QED
            BY <1>1, <1>2, <2>5, <4>1, <4>2, <5>2, <6>1
        <5>. QED
          BY <3>1, <4>1, <5>1, <5>2
      <4>. QED
        BY <2>2, <4>1, <4>3
    <3>. QED
      BY <3>2, <3>3
  <2>6. CASE SealedTo(a, b, turn.how = "ok" /\ rec.state = "on")
    BY <1>5, <2>4, <2>6 DEF SealedTo
  <2>7. CASE DiscardedTo(a, b) \/ ClosedTo(a, b) \/ GoneTo(a, b)
    BY <1>5, <2>4, <2>7 DEF DiscardedTo, ClosedTo, GoneTo
  <2>8. CASE a.state = "open" /\ b = [a EXCEPT !.facts = b.facts]
    BY <1>5, <2>8 DEF MemSet
  <2>9. CASE b = [a EXCEPT !.state = "done"]
    BY <1>5, <2>9 DEF MemSet
  <2>10. CASE b = a
    BY <1>5, <2>4, <2>10
  <2>. QED
    BY <2>3, <2>5, <2>6, <2>7, <2>8, <2>9, <2>10 DEF TurnMoves
\* A turn that waits for the file to be closed for good.
<1>6. ASSUME io' = "stopping", chain'[1].closes # 0, Last(chain'[1].lines).how = "ok"
      PROVE  EndIn(file', chain'[1].closes, n[chain'[1].closes].turn, rec'.seq - 1)
  <2>1. CASE io = "stopping" /\ chain'[1] = chain[1] /\ chain # <<>>
    <3>1. rec'.seq = rec.seq
      <4>1. ~WriteSucceeds /\ ~StopWritten /\ ~TailLands /\ ~Restart
        <5>1. rec.tail /\ phase # "down"
          BY <2>1 DEF IInv, Writing, Down
        <5>. QED
          BY <1>6, <2>1, <5>1 DEF WriteSucceeds, StopWritten, BatchDone, TailLands, Restart
      <4>. QED
        BY <1>0, <4>1, StepRec DEF Failed, RecSet
    <3>2. chain[1].closes \in 1 .. Len(m)
      <4>1. 1 \in 1 .. Len(chain)
        BY <2>1, SeqIs DEF IInv, Shape
      <4>. QED
        BY <1>6, <2>1, <4>1, ClosesIs DEF IInv
    <3>. QED
      BY <1>1, <1>2, <1>3, <1>6, <2>1, <3>1, <3>2
  <2>2. CASE WriteSucceeds /\ chain' = chain
    <3>1. EndIn(file', chain[1].closes, m[chain[1].closes].turn, rec.seq + (Len(Payload) - 1))
      BY <1>4, <1>6, <2>2
    <3>2. Len(Payload) \in Nat /\ 1 \in 1 .. Len(chain)
      <4>1. io = "writing"
        BY <2>2 DEF WriteSucceeds
      <4>. QED
        BY <2>2, <4>1, HeadWritten, PayloadSource, SeqIs DEF IInv
    <3>3. rec'.seq - 1 = rec.seq + (Len(Payload) - 1)
      <4>1. rec' = [rec EXCEPT !.header = FALSE, !.guard = FALSE, !.seq = rec.seq + Len(Payload),
                               !.size = rec.size + Len(Payload)]
        BY <2>2 DEF WriteSucceeds
      <4>2. rec'.seq = rec.seq + Len(Payload)
        BY <1>0, <4>1 DEF RecSet
      <4>. QED
        BY <1>0, <3>2, <4>2
    <3>4. chain[1].closes \in 1 .. Len(m)
      BY <1>6, <2>2, <3>2, ClosesIs DEF IInv
    <3>. QED
      BY <1>3, <2>2, <3>1, <3>3, <3>4
  <2>3. CASE io' = io /\ (chain' = chain \/ \E b : More(chain, chain', b))
    <3>1. io = "stopping" /\ chain # <<>> /\ 1 \in 1 .. Len(chain)
      BY <1>6, <2>3, SeqIs DEF IInv, Shape, Writing
    <3>2. chain'[1] = chain[1]
      BY <2>3, <3>1 DEF More
    <3>. QED
      BY <2>1, <3>1, <3>2
  <2>. QED
    BY <1>6, <2>2, <2>3, StepChain
\* The state files.
<1>7. ASSUME NEW st, Rooted(file, st) PROVE Rooted(file', st)
  BY <1>1, <1>7 DEF Rooted
<1>8. Rooted(file', store')
  <2>1. SUFFICES ASSUME NEW key \in Key, store'[key] # None
        PROVE  EndIn(file', store'[key].of, store'[key].turn, store'[key].seq)
    BY DEF Rooted
  <2>2. ASSUME CommitWrites
        PROVE  EndIn(file', commit.of, m[commit.of].turn, m[commit.of].seq)
    BY <1>1, <1>2, <2>2, WritesIs DEF IInv
  <2>3. EntryMoves(key)
    BY StepStore
  <2>4. Rooted(file', store) /\ Rooted(file', commit.store)
    BY <1>2, <1>7
  <2>. QED
    BY <2>1, <2>2, <2>3, <2>4 DEF EntryMoves, Rooted
<1>9. Rooted(file', commit'.store)
  <2>1. \A key \in Key : Idle.store[key] = None
    BY DEF Idle
  <2>2. Rooted(file', Idle.store)
    BY <2>1 DEF Rooted
  <2>. QED
    BY <1>2, <1>7, <2>2, StepCommit
<1>. QED
  BY <1>5, <1>6, <1>8, <1>9 DEF Earned

-----------------------------------------------------------------------------
(* A turn whose end waits in the chain *)

\* No end of the turn that runs waits before it is added.
LEMMA NoEndYet ==
    ASSUME IInv, turn.at \in {"barrier", "streaming"}, NEW b \in 1 .. Len(chain)
    PROVE  chain[b].closes # turn.of
<1>0. turn.of # 0
  BY OfIs DEF IInv
<1>1. SUFFICES ASSUME chain[b].closes = turn.of PROVE FALSE
  OBVIOUS
<1>. PICK c : c = chain[b]
  OBVIOUS
<1>2. /\ Last(c.lines).kind = "end" /\ c.closes = Last(c.lines).of
      /\ Len(c.lines) \in 1 .. Len(c.lines) /\ Last(c.lines) = c.lines[Len(c.lines)]
  BY <1>0, <1>1, ClosesIs DEF IInv
<1>3. EndKnown(c.lines[Len(c.lines)], turn, mem, catalogue)
  BY <1>2 DEF IInv, Ends
<1>. QED
  BY <1>1, <1>2, <1>3 DEF EndKnown

\* The batch that is added closes nothing, or the turn that runs.
LEMMA AddedCloses ==
    ASSUME IInv, NEW b, Added(b), b.closes # 0
    PROVE  /\ b.closes = turn.of /\ turn.at = "streaming" /\ UNCHANGED mem
           /\ \A e \in 1 .. Len(chain) : chain[e].closes # b.closes
<1>1. /\ turn.at = "streaming" /\ turn'.at \in {"sealing", "unwinding"} /\ UNCHANGED mem
      /\ OneLine(b, "end", turn.of, turn.n, turn'.how, run) \/ TwoLines(b, turn.of, turn.n, turn'.how, run)
  BY DEF Added, OneLine, Opening
<1>2. b.closes = turn.of
  BY <1>1 DEF OneLine, TwoLines
<1>. QED
  BY <1>1, <1>2, NoEndYet

\* The batches keep their order.
LEMMA ChainPlaces ==
    ASSUME IInv, Next, NEW b \in 1 .. Len(chain')
    PROVE  \/ b \in 1 .. Len(chain) /\ chain'[b] = chain[b] /\ chain' = chain
           \/ /\ b \in 1 .. Len(chain) /\ chain'[b] = chain[b]
              /\ \E e : More(chain, chain', e) /\ Added(e)
           \/ Added(chain'[b]) /\ b = Len(chain') /\ More(chain, chain', chain'[b])
                /\ Len(chain') = Len(chain) + 1
           \/ b + 1 \in 1 .. Len(chain) /\ chain'[b] = chain[b + 1] /\ Less(chain, chain')
<1>0. Len(chain) \in Nat /\ Len(chain') \in Nat
  BY StepChain, SeqIs DEF IInv, Shape
<1>1. CASE chain' = chain
  BY <1>1
<1>2. CASE \E e : More(chain, chain', e) /\ Added(e)
  <2>1. PICK e : More(chain, chain', e) /\ Added(e)
    BY <1>2
  <2>2. CASE b \in 1 .. Len(chain)
    BY <2>1, <2>2 DEF More
  <2>3. CASE b \notin 1 .. Len(chain)
    BY <1>0, <2>1, <2>3 DEF More
  <2>. QED
    BY <2>2, <2>3
<1>3. CASE Less(chain, chain')
  BY <1>0, <1>3 DEF Less
<1>4. CASE chain' = <<>>
  BY <1>4
<1>. QED
  BY <1>1, <1>2, <1>3, <1>4, StepChain

\* What a shutdown sets.
LEMMA StepOwed ==
    ASSUME IInv, Next
    PROVE  \/ retired' = retired /\ owed' = owed /\ (\A r \in BOOLEAN : ~Close(r)) /\ ~Crash /\ ~Restart
           \/ /\ phase = "up" /\ phase' = "flushing" /\ owed' = {} /\ Close(TRUE)
           \/ /\ phase = "up" /\ phase' = "flushing" /\ ~retired' /\ Close(FALSE) /\ UNCHANGED mem
              /\ \A k \in owed' : Mine(k)
              /\ (\E b \in 1 .. Len(chain') : b > waits') => detached
           \/ owed' = {} /\ (Restart \/ Crash)
<1>1. CASE \E r \in BOOLEAN : Close(r)
  <2>1. CASE Close(TRUE)
    BY <2>1 DEF Close
  <2>2. CASE Close(FALSE)
    <3>1. /\ phase = "up" /\ phase' = "flushing" /\ ~retired' /\ UNCHANGED mem
          /\ owed' = {k \in Sends : mem[k].sealed /\ mem[k].run = run}
          /\ waits' = (IF detached THEN 0 ELSE Len(chain'))
      BY <2>2 DEF Close
    <3>2. Sends = 1 .. Len(mem)
      BY SeqIs DEF Sends, IInv, Shape
    <3>3. Len(chain') \in Nat
      BY StepChain, SeqIs
    <3>4. \A k \in owed' : Mine(k)
      BY <3>1, <3>2 DEF Mine
    <3>5. (\E b \in 1 .. Len(chain') : b > waits') => detached
      BY <3>1, <3>3
    <3>. QED
      BY <2>2, <3>1, <3>4, <3>5, PTL
  <2>. QED
    BY <1>1, <2>1, <2>2
<1>2. CASE Crash \/ Restart
  BY <1>2 DEF Crash, Restart
<1>3. CASE (\A r \in BOOLEAN : ~Close(r)) /\ ~Crash /\ ~Restart
  <2>1. Record => UNCHANGED <<retired, owed>>
    BY DEF Record, SkipBatch, BeginWrite, OpenFails, WriteSucceeds, WriteFails, StopWritten, StopFails,
       Note, unwritten, life
  <2>2. CommitReads \/ CommitWrites => UNCHANGED <<retired, owed>>
    BY DEF CommitReads, CommitWrites, life
  <2>3. \A f \in Fact : Stage(f) \/ SourceMoves(f) => UNCHANGED <<retired, owed>>
    BY DEF Stage, SourceMoves, life
  <2>4. \A key \in Key : Forget(key) => UNCHANGED <<retired, owed>>
    BY DEF Forget, life
  <2>5. \A key \in Key, f \in Fact : Edit(key, f) => UNCHANGED <<retired, owed>>
    BY DEF Edit, life
  <2>6. \A o \in left.opens : Begin(o[1], o[2]) => UNCHANGED <<retired, owed>>
    BY DEF Begin, life
  <2>7. Emit \/ RecordFails \/ BarrierPasses \/ BarrierTimesOut => UNCHANGED <<retired, owed>>
    BY DEF Emit, RecordFails, BarrierPasses, BarrierTimesOut, life
  <2>8. \A o \in left.ends : StreamEnds(o[1], o[2]) => UNCHANGED <<retired, owed>>
    BY DEF StreamEnds, life
  <2>9. Seal \/ Catalogue \/ Unwind => UNCHANGED <<retired, owed>>
    BY DEF Seal, Catalogue, Unwind, life
  <2>10. TailLands \/ StrayLands \/ Opens \/ Drained \/ Leave => UNCHANGED <<retired, owed>>
    BY DEF TailLands, StrayLands, Opens, Drained, Leave
  <2>. QED
    BY <1>3, <2>1, <2>2, <2>3, <2>4, <2>5, <2>6, <2>7, <2>8, <2>9, <2>10 DEF Next, Life, Turn, Memory
<1>. QED
  BY <1>1, <1>2, <1>3

\* A process that can still commit what settles.
Open == phase \in {"starting", "up"} \/ (phase = "flushing" /\ ~retired)

LEMMA StepOpen ==
    ASSUME IInv, Next, Open', chain' # <<>>
    PROVE  Open /\ ~Drained /\ ~Close(TRUE) /\ ~Leave /\ ~Crash
<1>1. ~Restart
  BY DEF Restart, IInv, Down
<1>2. ~Drained /\ ~Leave /\ ~Crash /\ ~Close(TRUE)
  BY DEF Open, Drained, Leave, Crash, Gone, Close
<1>3. retired' = retired \/ phase = "up"
  BY <1>1, <1>2, StepOwed
<1>4. (\E retire \in BOOLEAN : Close(retire)) => phase = "up"
  BY DEF Close
<1>5. Open
  <2>1. CASE phase' = "starting" \/ phase' = "up"
    BY <1>1, <2>1, StepPhase DEF Open
  <2>2. CASE phase' = "flushing" /\ ~retired'
    BY <1>1, <1>3, <1>4, <2>2, StepPhase DEF Open
  <2>. QED
    BY <2>1, <2>2 DEF Open
<1>. QED
  BY <1>2, <1>5, PTL

LEMMA AwaitedKept ==
    ASSUME IInv, Next
    PROVE  Awaited'
<1>. PICK m \in Seq(MemSet) : m = mem
  BY DEF IInv, Shape
<1>. PICK n \in Seq(MemSet) : n = mem'
  BY StepMem DEF Grown
<1>0. Len(m) \in Nat /\ Len(n) \in Nat /\ Len(chain) \in Nat /\ Len(chain') \in Nat
  BY SeqIs, StepChain DEF IInv, Shape
<1>1. /\ \A k \in 1 .. Len(m) : m[k].sealed => m[k].state \notin {"open", "settled"}
      /\ turn.at \in {"barrier", "streaming"} => m[turn.of].state \in {"open", "gone"}
      /\ \A b \in 1 .. Len(chain) : chain[b].closes # 0 =>
            /\ m[chain[b].closes].state \in {"open", "sealed", "gone"}
            /\ m[chain[b].closes].sealed /\ Open => m[chain[b].closes].state = "sealed"
            /\ \A e \in 1 .. Len(chain) : chain[e].closes = chain[b].closes => e = b
  BY DEF IInv, Awaited, Open
<1>2. ASSUME NEW k \in 1 .. Len(n)
      PROVE  \/ k \in 1 .. Len(m) /\ TurnMoves(k) /\ m[k] \in MemSet /\ n[k] \in MemSet
             \/ k = Len(n) /\ ~n[k].sealed /\ n[k].state \in {"open", "gone"}
  <2>1. CASE k \in 1 .. Len(m)
    BY <2>1, StepMem, SeqIs
  <2>2. CASE k \notin 1 .. Len(m)
    <3>2. PICK o \in left.opens : Begin(o[1], o[2])
      BY <2>2, StepMem
    <3>. PICK p \in BOOLEAN, q \in BOOLEAN : p = o[1] /\ q = o[2]
      BY LeftIs DEF IInv
    <3>3. NewTurn(m, n, rec.state = "on", IF rec.state = "on" THEN rec.turns + 1 ELSE 0, run)
      BY <3>2, BeginIs DEF IInv, Ledger
    <3>. QED
      BY <1>0, <2>2, <3>3 DEF NewTurn
  <2>. QED
    BY <2>1, <2>2
\* What is sealed has left "open" and "settled" behind.
<1>3. ASSUME NEW k \in 1 .. Len(n), n[k].sealed PROVE n[k].state \notin {"open", "settled"}
  <2>1. k \in 1 .. Len(m) /\ TurnMoves(k)
    BY <1>2, <1>3
  <2>. PICK a \in MemSet, b \in MemSet : a = m[k] /\ b = n[k]
    BY <2>1, SeqIs
  <2>2. a.sealed => a.state \notin {"open", "settled"}
    BY <1>1, <2>1
  <2>3. ASSUME NEW kept \in BOOLEAN, NEW q \in Nat, SettledTo(a, b, kept, q)
        PROVE  b.state \notin {"open", "settled"}
    BY <1>3, <2>2, <2>3 DEF SettledTo
  <2>4. ASSUME SealedTo(a, b, turn.how = "ok" /\ rec.state = "on") PROVE b.state \notin {"open", "settled"}
    BY <1>3, <2>2, <2>4 DEF SealedTo
  <2>5. ASSUME DiscardedTo(a, b) \/ ClosedTo(a, b) \/ GoneTo(a, b) PROVE b.state \notin {"open", "settled"}
    BY <1>3, <2>2, <2>5 DEF DiscardedTo, ClosedTo, GoneTo
  <2>6. ASSUME b = [a EXCEPT !.facts = b.facts] \/ b = [a EXCEPT !.state = "done"]
        PROVE  b.state \notin {"open", "settled"}
    BY <1>3, <2>2, <2>6 DEF MemSet
  <2>7. (Last(chain[1].lines).how = "ok") \in BOOLEAN
    OBVIOUS
  <2>. QED
    BY <1>3, <2>1, <2>2, <2>3, <2>4, <2>5, <2>6, <2>7 DEF TurnMoves
\* A turn moves as its send() does, until its end is there.
<1>4. ASSUME turn.at \in {"barrier", "streaming"} PROVE n[turn.of].state \in {"open", "gone"}
  <2>1. turn.of \in 1 .. Len(m)
    BY <1>4, OfIs DEF IInv
  <2>. PICK a \in MemSet, b \in MemSet : a = m[turn.of] /\ b = n[turn.of]
    BY <2>1, SeqIs, StepMem DEF Grown
  <2>2. a.state \in {"open", "gone"} /\ TurnMoves(turn.of)
    BY <1>1, <1>4, <2>1, StepMem
  <2>3. ~Seal
    BY <1>4 DEF Seal
  <2>4. chain # <<>> => chain[1].closes # turn.of
    BY <1>4, NoEndYet, SeqIs DEF IInv, Shape
  <2>5. ASSUME DiscardedTo(a, b) \/ ClosedTo(a, b) \/ GoneTo(a, b) PROVE b.state \in {"open", "gone"}
    BY <2>2, <2>5 DEF DiscardedTo, ClosedTo, GoneTo
  <2>6. ASSUME b = [a EXCEPT !.facts = b.facts] PROVE b.state \in {"open", "gone"}
    BY <2>2, <2>6 DEF MemSet
  <2>. QED
    BY <2>2, <2>3, <2>4, <2>5, <2>6 DEF TurnMoves
<1>5. ASSUME turn'.at \in {"barrier", "streaming"} PROVE n[turn'.of].state \in {"open", "gone"}
  <2>1. CASE \E o \in left.opens : Begin(o[1], o[2])
    <3>2. PICK o \in left.opens : Begin(o[1], o[2])
      BY <2>1
    <3>. PICK p \in BOOLEAN, q \in BOOLEAN : p = o[1] /\ q = o[2]
      BY LeftIs DEF IInv
    <3>3. /\ NewTurn(m, n, rec.state = "on", IF rec.state = "on" THEN rec.turns + 1 ELSE 0, run)
          /\ turn'.of = Len(m) + 1
      BY <3>2, BeginIs DEF IInv, Ledger
    <3>. QED
      BY <1>0, <3>3 DEF NewTurn
  <2>2. CASE turn' = turn \/ (turn'.of = turn.of /\ turn.at = "barrier")
    BY <1>4, <1>5, <2>2
  <2>. QED
    BY <1>5, <2>1, <2>2, StepTurn DEF NoTurn
\* A batch that stays in the chain.
<1>6. ASSUME NEW d \in 1 .. Len(chain), chain[d].closes # 0, chain' # <<>>,
             chain[1].closes = chain[d].closes => chain' # Tail(chain)
      PROVE  /\ n[chain[d].closes].state \in {"open", "sealed", "gone"}
             /\ n[chain[d].closes].sealed /\ Open' => n[chain[d].closes].state = "sealed"
  <2>. PICK k \in 1 .. Len(m) : k = chain[d].closes
    BY <1>6, ClosesIs DEF IInv
  <2>. PICK a \in MemSet, b \in MemSet : a = m[k] /\ b = n[k]
    BY SeqIs, StepMem DEF Grown
  <2>1. a.state \in {"open", "sealed", "gone"} /\ (a.sealed /\ Open => a.state = "sealed")
    BY <1>1, <1>6
  <2>2. TurnMoves(k)
    BY StepMem
  <2>3. Open' => Open /\ ~Drained /\ ~Close(TRUE) /\ ~Leave /\ ~Crash
    BY <1>6, StepOpen
  <2>4. CASE b = a
    BY <2>1, <2>3, <2>4
  <2>5. CASE Seal /\ SealedTo(a, b, turn.how = "ok" /\ rec.state = "on")
    BY <2>1, <2>3, <2>5 DEF SealedTo
  <2>6. CASE /\ (BarrierPasses /\ rec.state # "on") \/ BarrierTimesOut \/ Unwind
             /\ k = turn.of /\ DiscardedTo(a, b)
    <3>1. ~a.sealed
      BY <2>6 DEF IInv, Sending, BarrierPasses, BarrierTimesOut, Unwind
    <3>. QED
      BY <2>1, <2>6, <3>1 DEF DiscardedTo
  <2>7. CASE (Drained \/ Close(TRUE)) /\ ClosedTo(a, b)
    BY <2>1, <2>3, <2>7 DEF ClosedTo
  <2>8. CASE (Leave \/ Crash) /\ GoneTo(a, b)
    BY <2>1, <2>3, <2>8 DEF GoneTo
  <2>9. CASE b = [a EXCEPT !.facts = b.facts]
    BY <2>1, <2>3, <2>9 DEF MemSet
  <2>. QED
    BY <1>6, <2>1, <2>2, <2>4, <2>5, <2>6, <2>7, <2>8, <2>9 DEF TurnMoves
<1>7. ASSUME NEW b \in 1 .. Len(chain'), chain'[b].closes # 0
      PROVE  /\ n[chain'[b].closes].state \in {"open", "sealed", "gone"}
             /\ n[chain'[b].closes].sealed /\ Open' => n[chain'[b].closes].state = "sealed"
             /\ \A e \in 1 .. Len(chain') : chain'[e].closes = chain'[b].closes => e = b
  <2>0. chain' # <<>>
    BY <1>7
  <2>1. CASE b \in 1 .. Len(chain) /\ chain'[b] = chain[b] /\ chain' = chain
    <3>1. chain' # Tail(chain)
      <4>1. Len(Tail(chain)) = Len(chain) - 1
        BY <2>1, LessIs DEF Less, IInv, Shape
      <4>. QED
        BY <1>0, <2>1, <4>1
    <3>. QED
      BY <1>1, <1>6, <1>7, <2>0, <2>1, <3>1
  <2>2. CASE b \in 1 .. Len(chain) /\ chain'[b] = chain[b] /\ \E f : More(chain, chain', f) /\ Added(f)
    <3>0. PICK f : More(chain, chain', f) /\ Added(f)
      BY <2>2
    <3>1. chain' # Tail(chain)
      <4>1. Len(Tail(chain)) = Len(chain) - 1
        BY <2>2, LessIs DEF Less, IInv, Shape
      <4>2. Len(chain') = Len(chain) + 1
        BY <3>0 DEF More
      <4>3. ASSUME chain' = Tail(chain) PROVE FALSE
        BY ONLY <1>0, <4>1, <4>2, <4>3
      <4>. QED
        BY <4>3
    <3>2. ASSUME NEW e \in 1 .. Len(chain'), chain'[e].closes = chain'[b].closes PROVE e = b
      <4>1. CASE e \in 1 .. Len(chain)
        BY <1>1, <1>7, <2>2, <3>0, <3>2, <4>1 DEF More
      <4>2. CASE e \notin 1 .. Len(chain)
        <5>1. chain'[e] = f
          BY <1>0, <3>0, <4>2 DEF More
        <5>. QED
          BY <1>7, <2>2, <3>0, <3>2, <5>1, AddedCloses
      <4>. QED
        BY <4>1, <4>2
    <3>. QED
      BY <1>6, <1>7, <2>0, <2>2, <3>1, <3>2
  <2>3. CASE Added(chain'[b]) /\ b = Len(chain') /\ More(chain, chain', chain'[b])
             /\ Len(chain') = Len(chain) + 1
    <3>. PICK f : f = chain'[b]
      OBVIOUS
    <3>1. /\ f.closes = turn.of /\ turn.at = "streaming" /\ UNCHANGED mem
          /\ \A e \in 1 .. Len(chain) : chain[e].closes # f.closes
      BY <1>7, <2>3, AddedCloses
    <3>2. m[turn.of].state \in {"open", "gone"} /\ ~m[turn.of].sealed
      BY <1>1, <3>1 DEF IInv, Sending
    <3>3. ASSUME NEW e \in 1 .. Len(chain'), chain'[e].closes = f.closes PROVE e = b
      <4>1. e \notin 1 .. Len(chain)
        BY <2>3, <3>1, <3>3 DEF More
      <4>. QED
        BY <1>0, <2>3, <4>1
    <3>. QED
      BY <3>1, <3>2, <3>3
  <2>4. CASE b + 1 \in 1 .. Len(chain) /\ chain'[b] = chain[b + 1] /\ Less(chain, chain')
    <3>1. chain[1].closes # chain[b + 1].closes
      <4>1. 1 \in 1 .. Len(chain) /\ b + 1 # 1
        BY <1>0, <2>4
      <4>. QED
        BY <1>1, <1>7, <2>4, <4>1
    <3>2. ASSUME NEW e \in 1 .. Len(chain'), chain'[e].closes = chain'[b].closes PROVE e = b
      <4>1. e + 1 \in 1 .. Len(chain) /\ chain'[e] = chain[e + 1]
        BY <1>0, <2>4 DEF Less
      <4>2. e + 1 = b + 1
        BY <1>1, <1>7, <2>4, <3>2, <4>1
      <4>. QED
        BY <4>2
    <3>. QED
      BY <1>6, <1>7, <2>0, <2>4, <3>1, <3>2
  <2>. QED
    BY <2>1, <2>2, <2>3, <2>4, ChainPlaces
<1>. QED
  BY <1>3, <1>5, <1>7 DEF Awaited, Open

-----------------------------------------------------------------------------
(* A sealed turn whose end is on disk is committed *)

\* What sealed a turn stays.
LEMMA StaySealed ==
    ASSUME IInv, Next, NEW k \in 1 .. Len(mem), mem[k].sealed
    PROVE  k \in 1 .. Len(mem') /\ mem'[k].sealed
<1>. PICK a \in MemSet : a = mem[k]
  BY SeqIs DEF IInv, Shape
<1>. PICK b : b = mem'[k]
  OBVIOUS
<1>1. a.state \notin {"open", "settled"} /\ a.sealed
  BY DEF IInv, Awaited
<1>2. TurnMoves(k) /\ k \in 1 .. Len(mem')
  BY StepMem DEF Grown
<1>3. ASSUME NEW kept, NEW q, SettledTo(a, b, kept, q) PROVE b.sealed
  BY <1>1, <1>3 DEF SettledTo
<1>4. ASSUME SealedTo(a, b, turn.how = "ok" /\ rec.state = "on") PROVE b.sealed
  BY <1>1, <1>4 DEF SealedTo
<1>5. ASSUME DiscardedTo(a, b) \/ ClosedTo(a, b) \/ GoneTo(a, b) PROVE b.sealed
  BY <1>1, <1>5 DEF DiscardedTo, ClosedTo, GoneTo
<1>6. ASSUME b = [a EXCEPT !.facts = b.facts] \/ b = [a EXCEPT !.state = "done"] PROVE b.sealed
  BY <1>1, <1>6 DEF MemSet
<1>. QED
  BY <1>1, <1>2, <1>3, <1>4, <1>5, <1>6 DEF TurnMoves

\* The end of a turn of this process comes from the batch that closes it.
LEMMA NewEnd ==
    ASSUME IInv, Next, NEW k \in 1 .. Len(mem), mem[k].run = run,
           Found(file', {"end"}, k), ~Found(file, {"end"}, k)
    PROVE  \/ (WriteSucceeds \/ Leave \/ Crash) /\ io = "writing" /\ chain # <<>> /\ chain[1].closes = k
           \/ WriteFails \/ StopFails
           \/ phase = "down" /\ owed = {}
<1>. PICK g : g = file'
  OBVIOUS
<1>0. PICK i \in Places(g) : g[i].of = k /\ g[i].kind = "end"
  BY DEF Found
<1>. PICK l : l = g[i]
  OBVIOUS
<1>1. ASSUME NEW ls, Wrote(file, g, ls) PROVE \E y \in 1 .. Len(ls) : l = ls[y]
  BY <1>0, <1>1 DEF Wrote, Found
<1>2. ASSUME NEW ls, NEW e, WroteAll(file, g, ls, e) PROVE Wrote(file, g, ls)
  BY <1>2, Zenon DEF WroteAll
<1>3. g # file
  BY DEF Found
<1>4. ~Wrote(file, g, <<StopLine>>)
  BY <1>0, <1>1, StopIs DEF IInv
<1>5. ASSUME io = "writing", Wrote(file, g, Payload) PROVE chain # <<>> /\ chain[1].closes = k
  <2>1. chain # <<>> /\ 1 \in 1 .. Len(chain) /\ rec.header \in BOOLEAN /\ rec.seq \in Nat
    BY <1>5, SeqIs DEF IInv, Shape, Writing, RecSet
  <2>. PICK ls \in Seq(LineSet) : ls = chain[1].lines /\ ls # <<>>
    BY <2>1, BatchIs DEF IInv
  <2>. PICK p : p = Payload
    OBVIOUS
  <2>2. Sent(p, rec.header, ls, run, rec.seq)
    BY <2>1, PayloadIs DEF IInv
  <2>3. PICK y \in 1 .. Len(p) : l = p[y]
    BY <1>1, <1>5
  <2>4. \/ p[y].kind = "header"
        \/ \E x \in 1 .. Len(ls) : Copies(p[y], ls[x])
    BY <2>1, <2>2, SentIs
  <2>5. PICK x \in 1 .. Len(ls) : Copies(l, ls[x])
    BY <1>0, <2>3, <2>4
  <2>6. Batch(chain[1], run)
    BY <2>1, BatchIs DEF IInv
  <2>7. x = Len(ls)
    BY <1>0, <2>5, <2>6, SeqIs, SMTT(30) DEF Batch, Copies
  <2>8. Last(ls) = ls[Len(ls)]
    BY SeqIs
  <2>. QED
    BY <1>0, <2>1, <2>5, <2>6, <2>7, <2>8 DEF Batch, Copies
<1>6. ASSUME WriteSucceeds PROVE io = "writing" /\ chain # <<>> /\ chain[1].closes = k
  <2>1. io = "writing" /\ Wrote(file, g, Payload)
    <3>1. io = "writing" /\ file' = Joined(Payload, rec.guard) /\ rec.guard \in BOOLEAN
      BY <1>6 DEF WriteSucceeds, IInv, Shape, RecSet
    <3>2. WroteAll(file, g, Payload, rec.guard)
      BY <3>1, PayloadSource, FullWrite DEF IInv
    <3>. QED
      BY <1>2, <3>1, <3>2
  <2>. QED
    BY <1>5, <2>1
<1>7. ASSUME Wrote(file, g, InFlight) PROVE io = "writing" /\ chain # <<>> /\ chain[1].closes = k
  <2>1. InFlight # <<>>
    <3>1. ASSUME InFlight = <<>> PROVE FALSE
      <4>1. Len(<<>>) = 0
        OBVIOUS
      <4>. QED
        BY <1>1, <1>7, <3>1, <4>1
    <3>. QED
      BY <3>1
  <2>2. io \in {"writing", "stopping"}
    BY <2>1, InFlightIs DEF IInv, Shape
  <2>3. io = "writing"
    BY <1>4, <1>7, <2>2, InFlightIs DEF IInv
  <2>. QED
    BY <1>5, <1>7, <2>3, InFlightIs DEF IInv
<1>8. ASSUME NEW s \in stray, NEW e, WroteAll(file, g, s.lines, e) PROVE phase = "down" /\ owed = {}
  <2>1. PICK y \in 1 .. Len(s.lines) : l = s.lines[y]
    BY <1>1, <1>2, <1>8
  <2>2. Known(l, mem, run)
    BY <2>1 DEF IInv, Lines
  <2>3. l.run = run
    BY <1>0, <2>2 DEF Known
  <2>. QED
    BY <2>1, <2>3 DEF IInv, Strays, Given
<1>. QED
  BY <1>2, <1>3, <1>4, <1>6, <1>7, <1>8, StepFileMoves DEF FileMoves

\* What close() waits for.
LEMMA StepWaits ==
    ASSUME IInv, Next, phase' # "down"
    PROVE  \/ waits' = waits /\ (chain' = chain \/ \E e : More(chain, chain', e) /\ Added(e))
           \/ Less(chain, chain') /\ waits' = IF waits = 0 THEN 0 ELSE waits - 1
           \/ BarrierTimesOut
           \/ \E r \in BOOLEAN : Close(r)
<1>1. ~Leave /\ ~Crash
  BY DEF Leave, Crash, Gone
<1>2. CASE SkipBatch \/ OpenFails \/ WriteSucceeds \/ WriteFails \/ StopWritten \/ StopFails
  <2>1. CASE UNCHANGED <<chain, waits>>
    BY <2>1
  <2>2. CASE \E kept \in BOOLEAN, q \in Nat : BatchDone(kept, q)
    <3>1. chain # <<>> /\ chain \in Seq(BatchSet)
      BY <1>2, HeadDone DEF IInv, Shape
    <3>2. chain' = Tail(chain) /\ waits' = IF waits = 0 THEN 0 ELSE waits - 1
      BY <2>2 DEF BatchDone
    <3>. QED
      BY <3>1, <3>2, LessIs
  <2>. QED
    BY <1>2, <2>1, <2>2, HeadDone DEF IInv
<1>3. CASE UNCHANGED waits /\ ~(SkipBatch \/ OpenFails \/ WriteSucceeds \/ WriteFails \/ StopWritten
           \/ StopFails)
  <2>1. ~Gone
    BY DEF Gone
  <2>. QED
    BY <1>3, <2>1, StepChain
<1>4. BeginWrite \/ Note => UNCHANGED waits
  BY DEF BeginWrite, Note, life
<1>5. CommitReads \/ CommitWrites => UNCHANGED waits
  BY DEF CommitReads, CommitWrites, life
<1>6. \A f \in Fact : Stage(f) \/ SourceMoves(f) => UNCHANGED waits
  BY DEF Stage, SourceMoves, life
<1>7. \A key \in Key : Forget(key) => UNCHANGED waits
  BY DEF Forget, life
<1>8. \A key \in Key, f \in Fact : Edit(key, f) => UNCHANGED waits
  BY DEF Edit, life
<1>9. \A o \in left.opens : Begin(o[1], o[2]) => UNCHANGED waits
  BY DEF Begin, life
<1>10. Emit \/ RecordFails \/ BarrierPasses => UNCHANGED waits
  BY DEF Emit, RecordFails, BarrierPasses, life
<1>11. \A o \in left.ends : StreamEnds(o[1], o[2]) => UNCHANGED waits
  BY DEF StreamEnds, life
<1>12. Seal \/ Catalogue \/ Unwind => UNCHANGED waits
  BY DEF Seal, Catalogue, Unwind, life
<1>13. TailLands \/ StrayLands \/ Opens \/ Drained \/ Restart => UNCHANGED waits
  BY DEF TailLands, StrayLands, Opens, Drained, Restart
<1>. QED
  BY <1>1, <1>2, <1>3, <1>4, <1>5, <1>6, <1>7, <1>8, <1>9, <1>10, <1>11, <1>12, <1>13
  DEF Next, Record, Memory, Turn, Life

\* The turn k of this process, while it runs.
LEMMA SettledKept ==
    ASSUME IInv, Next, rec'.state # "failed", phase' # "down", NEW k \in 1 .. Len(mem'),
           mem'[k].run = run', Settled(k)'
    PROVE  /\ mem'[k].state # "open"
           /\ Watched(k)' => \/ mem'[k].state \in {"committing", "done"}
                             \/ mem'[k].state = "gone" /\ mem'[k].facts = {}
<1>. PICK m \in Seq(MemSet) : m = mem
  BY DEF IInv, Shape
<1>. PICK n \in Seq(MemSet) : n = mem'
  BY StepMem DEF Grown
<1>0. Len(m) \in Nat /\ Len(n) \in Nat /\ rec \in RecSet /\ rec' \in RecSet
  BY SeqIs, StepRec DEF IInv, Shape
<1>1. ~Restart /\ ~Leave /\ ~Crash
  <2>1. ASSUME Restart PROVE FALSE
    <3>1. n = m /\ run' = run + 1
      BY <2>1 DEF Restart, memory
    <3>2. k \in 1 .. Len(m) /\ m[k] \in MemSet /\ run \in Nat
      BY <3>1, SeqIs DEF IInv, Shape
    <3>3. m[k].run <= run /\ m[k].run \in Nat
      BY <3>2 DEF IInv, Numbers, Numbered, MemSet
    <3>. QED
      BY <3>1, <3>2, <3>3
  <2>. QED
    BY <2>1 DEF Leave, Crash, Gone
<1>2. run' = run /\ phase # "down"
  BY <1>1, StepRun, WhenDown
<1>3. rec.state # "failed" /\ ~WriteFails /\ ~StopFails
      /\ (io # "idle" => rec.state = "on")
  <2>1. rec'.state = "failed" \/ rec.state = "failed" => FALSE
    BY <1>0, <1>1, StepRec DEF Failed, RecSet
  <2>2. io # "idle" => rec.state # "full"
    BY DEF IInv, Writing
  <2>3. rec.state \in {"on", "full", "failed"}
    BY <1>0 DEF RecSet
  <2>4. WriteFails \/ StopFails => rec' = Failed /\ io # "idle"
    BY DEF WriteFails, StopFails
  <2>5. rec' = Failed /\ rec.state = "on" => rec'.state = "failed"
    BY <1>0 DEF Failed, RecSet
  <2>. QED
    BY <2>1, <2>2, <2>3, <2>4, <2>5
\* Nothing is written yet of a turn that begins.
<1>4. k \in 1 .. Len(m)
  <2>1. SUFFICES ASSUME k \notin 1 .. Len(m) PROVE FALSE
    OBVIOUS
  <2>2. PICK o \in left.opens : Begin(o[1], o[2])
    BY <2>1, StepMem
  <2>3. file' = file
    BY <2>2 DEF Begin
  <2>4. PICK i \in Places(file) : file[i].of = k
    BY <2>3 DEF Settled, Found
  <2>5. Known(file[i], mem, run)
    BY DEF IInv, Lines
  <2>. QED
    BY <1>0, <2>1, <2>4, <2>5 DEF Known
<1>. PICK a \in MemSet, b \in MemSet : a = m[k] /\ b = n[k]
  BY <1>4, SeqIs
<1>5. TurnMoves(k) /\ b.run = a.run /\ a.run = run
  BY <1>2, <1>4, StepMem DEF Grown
\* The promise about it.
<1>6. ASSUME Watched(k)'
      PROVE  \/ Watched(k)
             \/ /\ ~a.sealed /\ b.sealed /\ phase \in {"starting", "up"}
  <2>1. CASE phase' \in {"starting", "up"}
    <3>1. b.sealed /\ phase \in {"starting", "up"}
      BY <1>1, <1>6, <2>1, StepPhase DEF Watched, Mine
    <3>. QED
      BY <1>4, <1>5, <3>1 DEF Watched, Mine
  <2>2. CASE phase' \notin {"starting", "up"}
    <3>1. k \in owed'
      BY <1>6, <2>2 DEF Watched
    <3>2. CASE phase \in {"starting", "up"}
      <4>0. phase' \in Phases /\ ~Drained
        BY <3>2, StepPhase DEF Drained
      <4>1. phase' = "flushing" /\ \E r \in BOOLEAN : Close(r)
        BY <1>1, <2>2, <3>2, <4>0, StepPhase DEF Phases
      <4>2. Mine(k)
        BY <1>1, <3>1, <4>1, StepOwed
      <4>. QED
        BY <3>2, <4>2 DEF Watched
    <3>3. CASE phase \notin {"starting", "up"}
      <4>1. owed' = owed
        BY <1>1, <3>3, StepOwed
      <4>. QED
        BY <3>1, <3>3, <4>1 DEF Watched
    <3>. QED
      BY <3>2, <3>3
  <2>. QED
    BY <2>1, <2>2
\* It was settled before.
<1>7. CASE Settled(k)
  <2>1. /\ a.state # "open"
        /\ Watched(k) => a.state \in {"committing", "done"} \/ (a.state = "gone" /\ a.facts = {})
    BY <1>2, <1>3, <1>4, <1>5, <1>7 DEF IInv, Promised
  <2>2. a.sealed => a.state # "settled"
    BY <1>4 DEF IInv, Awaited
  <2>3. ASSUME NEW kept \in BOOLEAN, NEW q, SettledTo(a, b, kept, q)
        PROVE  b.state # "open" /\ b.sealed = a.sealed
               /\ (Watched(k) => b.state \in {"committing", "done"} \/ (b.state = "gone" /\ b.facts = {}))
    BY <2>1, <2>3 DEF SettledTo
  <2>4. ASSUME SealedTo(a, b, turn.how = "ok" /\ rec.state = "on")
        PROVE  b.state # "open"
               /\ (Watched(k) \/ (~a.sealed /\ b.sealed)
                   => b.state \in {"committing", "done"} \/ (b.state = "gone" /\ b.facts = {}))
    BY <2>1, <2>4 DEF SealedTo
  <2>5. ASSUME DiscardedTo(a, b) \/ ClosedTo(a, b)
        PROVE  b.state # "open" /\ b.sealed = a.sealed
               /\ (Watched(k) => b.state \in {"committing", "done"} \/ (b.state = "gone" /\ b.facts = {}))
    BY <2>1, <2>5 DEF DiscardedTo, ClosedTo
  <2>6. ASSUME b = [a EXCEPT !.state = "done"]
        PROVE  b.state # "open" /\ b.sealed = a.sealed
               /\ (Watched(k) => b.state \in {"committing", "done"} \/ (b.state = "gone" /\ b.facts = {}))
    BY <2>1, <2>6 DEF MemSet
  <2>7. (Last(chain[1].lines).how = "ok") \in BOOLEAN
    OBVIOUS
  <2>8. /\ b.state # "open"
        /\ Watched(k) \/ (~a.sealed /\ b.sealed)
           => b.state \in {"committing", "done"} \/ (b.state = "gone" /\ b.facts = {})
    BY <1>1, <1>5, <2>1, <2>3, <2>4, <2>5, <2>6, <2>7 DEF TurnMoves
  <2>. QED
    BY <1>6, <2>8
\* Its end has just been written.
<1>8. CASE ~Settled(k)
  <2>1. /\ WriteSucceeds \/ StopWritten
        /\ chain # <<>> /\ chain[1].closes = k
        /\ ~(io' = "stopping" /\ chain' = chain)
    <3>1. CASE io = "stopping" /\ chain[1].closes = k
      <4>1. chain # <<>> /\ 1 \in 1 .. Len(chain)
        BY <3>1, SeqIs DEF IInv, Shape, Writing
      <4>2. ~(io' = io /\ chain'[1] = chain[1])
        BY <3>1 DEF Settled
      <4>3. ~SkipBatch /\ ~OpenFails /\ ~WriteSucceeds /\ ~BeginWrite
        BY <3>1 DEF SkipBatch, OpenFails, WriteSucceeds, BeginWrite
      <4>4. ~Gone
        BY DEF Gone
      <4>5. ~(io' = io /\ \E e : More(chain, chain', e))
        BY <4>1, <4>2 DEF More
      <4>6. StopWritten /\ io' = "idle"
        BY <1>3, <4>2, <4>3, <4>4, <4>5, StepChain
      <4>. QED
        BY <3>1, <4>1, <4>6
    <3>2. CASE ~(io = "stopping" /\ chain[1].closes = k)
      <4>1. Found(file', {"end"}, k) /\ ~Found(file, {"end"}, k)
        BY <1>8, <3>2 DEF Settled
      <4>2. WriteSucceeds /\ chain # <<>> /\ chain[1].closes = k
        BY <1>1, <1>2, <1>3, <1>4, <1>5, <4>1, NewEnd
      <4>3. ~(io' = "stopping" /\ chain' = chain)
        BY <4>2 DEF Settled
      <4>. QED
        BY <4>2, <4>3
    <3>. QED
      BY <3>1, <3>2
  <2>2. 1 \in 1 .. Len(chain) /\ k # 0 /\ io # "idle"
    <3>1. io # "idle"
      BY <2>1 DEF WriteSucceeds, StopWritten
    <3>2. 1 \in 1 .. Len(chain)
      BY <2>1, SeqIs DEF IInv, Shape
    <3>. QED
      BY <1>4, <3>1, <3>2
  <2>3. SettledTo(a, b, Last(chain[1].lines).how = "ok", b.seq)
    <3>1. \/ io' = "stopping" /\ chain' = chain
          \/ \E q \in Nat : BatchDone(TRUE, q)
      <4>1. rec.seq \in Nat /\ Len(Payload) \in Nat /\ (io = "writing" => Len(Payload) # 0)
        <5>1. Payload \in Seq(LineSet)
          BY <2>1, PayloadIs DEF IInv, Sent
        <5>2. io = "writing" => Payload # <<>>
          BY PayloadSource DEF IInv
        <5>. QED
          BY <1>0, <5>1, <5>2, SeqIs DEF RecSet
      <4>2. CASE WriteSucceeds
        <5>1. rec.seq + (Len(Payload) - 1) \in Nat /\ io = "writing"
          BY <4>1, <4>2 DEF WriteSucceeds
        <5>2. rec.seq + Len(Payload) - 1 = rec.seq + (Len(Payload) - 1)
          BY <4>1
        <5>3. \/ io' = "stopping" /\ chain' = chain
              \/ BatchDone(TRUE, rec.seq + Len(Payload) - 1)
          BY <4>2 DEF WriteSucceeds
        <5>. QED
          BY <5>1, <5>2, <5>3
      <4>3. CASE StopWritten
        <5>1. rec.seq # 0
          BY <4>3 DEF StopWritten, IInv, Writing
        <5>2. rec.seq - 1 \in Nat
          BY <4>1, <5>1
        <5>3. BatchDone(TRUE, rec.seq - 1)
          BY <4>3 DEF StopWritten
        <5>. QED
          BY <5>2, <5>3
      <4>. QED
        BY <2>1, <4>2, <4>3
    <3>2. PICK q \in Nat : BatchDone(TRUE, q)
      BY <2>1, <3>1
    <3>3. Reported(chain[1], mem, mem', TRUE, q)
      BY <2>1, <3>2, BatchDoneIs DEF IInv, Ledger
    <3>4. SettledTo(a, b, Last(chain[1].lines).how = "ok", q)
      BY <2>1, <2>2, <3>3 DEF Reported
    <3>. QED
      BY <3>4 DEF SettledTo
  <2>4. a.state \in {"open", "sealed", "gone"} /\ (a.sealed /\ Open => a.state = "sealed")
    BY <1>4, <2>1, <2>2 DEF IInv, Awaited, Open
  <2>5. ASSUME a.sealed PROVE Last(chain[1].lines).how = "ok"
    <3>. PICK c : c = chain[1]
      OBVIOUS
    <3>1. /\ Last(c.lines).kind = "end" /\ Last(c.lines).of = k
          /\ Len(c.lines) \in 1 .. Len(c.lines) /\ Last(c.lines) = c.lines[Len(c.lines)]
      BY <2>1, <2>2, ClosesIs DEF IInv
    <3>2. EndKnown(c.lines[Len(c.lines)], turn, mem, catalogue)
      BY <2>2, <3>1 DEF IInv, Ends
    <3>. QED
      BY <2>5, <3>1, <3>2 DEF EndKnown
  <2>6. UNCHANGED <<phase, owed>>
    BY <2>1 DEF WriteSucceeds, StopWritten, unwritten
  <2>7. ASSUME Watched(k)' PROVE a.sealed /\ Open
    <3>1. CASE phase \in {"starting", "up"}
      <4>1. b.sealed
        BY <2>6, <2>7, <3>1 DEF Watched, Mine
      <4>2. a.sealed
        BY <2>3, <4>1 DEF SettledTo
      <4>. QED
        BY <3>1, <4>2 DEF Open
    <3>2. CASE phase \notin {"starting", "up"}
      <4>1. k \in owed
        BY <2>6, <2>7, <3>2 DEF Watched
      <4>2. a.sealed /\ ~retired /\ phase # "committing"
        <5>1. Mine(k) /\ ~retired
          BY <4>1 DEF IInv, Promised
        <5>2. ASSUME phase = "committing" PROVE FALSE
          <6>1. rec.state = "on" /\ chain[1].closes \in owed
            BY <1>3, <2>1, <2>2, <4>1
          <6>2. 1 <= waits /\ waits \in Nat
            BY <2>2, <5>2, <6>1 DEF IInv, Promised, Shape
          <6>3. waits = 0
            BY <5>2 DEF IInv, Writing
          <6>. QED
            BY <6>2, <6>3
        <5>. QED
          BY <5>1, <5>2 DEF Mine
      <4>3. phase = "flushing"
        BY <1>2, <3>2, <4>2 DEF IInv, Shape, Phases
      <4>. QED
        BY <4>2, <4>3 DEF Open
    <3>. QED
      BY <3>1, <3>2
  <2>8. ASSUME b = a PROVE a.state = "gone"
    <3>1. a.state \notin {"open", "sealed"}
      <4>1. SUFFICES ASSUME a.state \in {"open", "sealed"} PROVE FALSE
        OBVIOUS
      <4>. QED
        BY <2>3, <2>8, <4>1 DEF SettledTo
    <3>. QED
      BY <2>4, <3>1
  <2>. QED
    BY <2>3, <2>4, <2>5, <2>7, <2>8 DEF SettledTo
<1>. QED
  BY <1>7, <1>8

LEMMA PromisedKept ==
    ASSUME IInv, Next
    PROVE  Promised'
<1>. PICK m \in Seq(MemSet) : m = mem
  BY DEF IInv, Shape
<1>. PICK n \in Seq(MemSet) : n = mem'
  BY StepMem DEF Grown
<1>0. Len(m) \in Nat /\ Len(n) \in Nat /\ rec \in RecSet /\ rec' \in RecSet /\ waits \in Nat
      /\ Len(chain) \in Nat /\ Len(chain') \in Nat
  BY SeqIs, StepRec, StepChain DEF IInv, Shape
<1>1. /\ \A k \in owed : Mine(k)
      /\ retired \/ phase \in {"starting", "up"} => owed = {}
      /\ rec.state = "on" /\ phase \in {"flushing", "committing"} =>
            \A b \in 1 .. Len(chain) : chain[b].closes \in owed => b <= waits
      /\ rec.state # "failed" /\ phase = "down" =>
            \A k \in owed : Found(file, {"end"}, k) /\ m[k].facts # {} => m[k].state = "done"
  BY DEF IInv, Promised
<1>2. ~Restart => run' = run /\ (rec'.state = "on" => rec.state = "on")
        /\ (rec'.state # "failed" => rec.state # "failed")
  BY <1>0, StepRun, StepRec DEF Failed, RecSet
<1>3. ASSUME NEW k, Mine(k), ~Restart PROVE Mine(k)'
  BY <1>2, <1>3, StaySealed, StepMem DEF Mine, Grown
\* Who is owed.
<1>4. \A k \in owed' : Mine(k)'
  <2>1. SUFFICES ASSUME NEW k \in owed' PROVE Mine(k)'
    OBVIOUS
  <2>2. CASE owed' = owed /\ ~Restart
    BY <1>1, <1>3, <2>1, <2>2
  <2>3. CASE phase = "up" /\ (\A j \in owed' : Mine(j))
    <3>1. ~Restart
      BY <2>3 DEF Restart
    <3>. QED
      BY <1>3, <2>1, <2>3, <3>1
  <2>. QED
    BY <2>1, <2>2, <2>3, StepOwed
<1>5. retired' \/ phase' \in {"starting", "up"} => owed' = {}
  <2>1. CASE retired' = retired /\ owed' = owed /\ ~Restart
    BY <1>1, <2>1, StepPhase
  <2>2. CASE ~retired' /\ phase' = "flushing"
    BY <2>2
  <2>. QED
    BY <2>1, <2>2, StepOwed
\* What close() waits for.
<1>6. ASSUME rec'.state = "on", phase' \in {"flushing", "committing"},
             NEW b \in 1 .. Len(chain'), chain'[b].closes \in owed'
      PROVE  b <= waits'
  <2>0. rec.state = "on" /\ ~Crash /\ ~Restart
    BY <1>2, <1>6 DEF Restart, Crash, Gone
  <2>1. CASE \E r \in BOOLEAN : Close(r)
    <3>1. Close(FALSE) /\ ((\E d \in 1 .. Len(chain') : d > waits') => detached)
      BY <1>6, <2>0, <2>1, StepOwed
    <3>2. ~detached
      BY <2>0 DEF IInv, Writing
    <3>3. waits' \in Nat
      BY <1>0, <3>2, <2>1 DEF Close
    <3>. QED
      BY <1>0, <3>1, <3>2, <3>3
  <2>2. CASE \A r \in BOOLEAN : ~Close(r)
    <3>1. owed' = owed
      BY <2>0, <2>2, StepOwed
    <3>2. phase \in {"flushing", "committing"}
      BY <1>6, <2>2, StepPhase DEF Drained
    <3>3. ~BarrierTimesOut
      BY <1>0, <1>6, <2>0 DEF BarrierTimesOut, Failed, RecSet
    <3>4. \A d \in 1 .. Len(chain) : chain[d].closes \in owed => d <= waits
      BY <1>1, <2>0, <3>2
    <3>5. phase' # "down"
      BY <1>6
    <3>6. CASE waits' = waits /\ (chain' = chain \/ \E e : More(chain, chain', e) /\ Added(e))
      <4>1. CASE b \in 1 .. Len(chain) /\ chain'[b] = chain[b]
        BY <1>6, <3>1, <3>4, <3>6, <4>1
      <4>2. CASE Added(chain'[b])
        <5>. PICK f : f = chain'[b]
          OBVIOUS
        <5>1. Mine(f.closes) /\ f.closes \in owed
          BY <1>1, <1>6, <3>1
        <5>2. f.closes # 0
          BY <5>1 DEF Mine
        <5>3. f.closes = turn.of /\ turn.at = "streaming"
          BY <4>2, <5>2, AddedCloses
        <5>. QED
          BY <5>1, <5>3 DEF Mine, IInv, Sending
      <4>3. ~Less(chain, chain')
        BY <1>0, <3>6 DEF Less, More
      <4>. QED
        BY <4>1, <4>2, <4>3, ChainPlaces
    <3>7. CASE Less(chain, chain') /\ waits' = IF waits = 0 THEN 0 ELSE waits - 1
      <4>1. b + 1 \in 1 .. Len(chain) /\ chain'[b] = chain[b + 1]
        BY <1>0, <3>7 DEF Less
      <4>2. b + 1 <= waits
        BY <1>6, <3>1, <3>4, <4>1
      <4>. QED
        BY <1>0, <3>7, <4>2
    <3>. QED
      BY <2>2, <3>3, <3>5, <3>6, <3>7, StepWaits
  <2>. QED
    BY <2>1, <2>2
\* What is left when the process has gone.
<1>7. ASSUME rec'.state # "failed", phase' = "down", NEW k \in owed', Found(file', {"end"}, k),
             n[k].facts # {}
      PROVE  n[k].state = "done"
  <2>0. ~Restart /\ rec.state # "failed"
    BY <1>2, <1>7 DEF Restart
  <2>1. owed' = owed /\ retired' = retired /\ ~Crash
    BY <1>7, <2>0, StepOwed
  <2>2. Mine(k) /\ k \in 1 .. Len(m) /\ m[k].run = run
    BY <1>1, <1>7, <2>1 DEF Mine
  <2>3. CASE phase = "down"
    <3>1. n = m
      BY <2>0, <2>3, WhenDown
    <3>2. Found(file, {"end"}, k)
      <4>1. SUFFICES ASSUME ~Found(file, {"end"}, k) PROVE FALSE
        OBVIOUS
      <4>2. ~WriteSucceeds /\ ~Leave /\ ~Crash /\ ~WriteFails /\ ~StopFails
        BY <2>3 DEF WriteSucceeds, Leave, Crash, WriteFails, StopFails, Running
      <4>. QED
        BY <1>7, <2>1, <2>2, <4>1, <4>2, NewEnd
    <3>. QED
      BY <1>1, <1>7, <2>0, <2>1, <2>3, <3>1, <3>2
  <2>4. CASE phase # "down"
    <3>1. Leave /\ phase = "committing" /\ commits = <<>>
      BY <1>7, <2>1, <2>4, StepPhase DEF Leave
    <3>2. ~(chain # <<>> /\ chain[1].closes = k /\ io # "idle")
      <4>1. SUFFICES ASSUME chain # <<>>, chain[1].closes = k, io # "idle" PROVE FALSE
        OBVIOUS
      <4>2. 1 \in 1 .. Len(chain)
        BY <1>0, <4>1, SeqIs DEF IInv, Shape
      <4>3. rec.state = "on"
        BY <1>0, <2>0, <4>1 DEF IInv, Writing, RecSet
      <4>4. 1 <= waits
        BY <1>1, <1>7, <2>1, <3>1, <4>1, <4>2, <4>3
      <4>5. waits = 0
        BY <3>1 DEF IInv, Writing
      <4>. QED
        BY <4>4, <4>5
    <3>3. Settled(k)
      <4>1. ASSUME ~Found(file, {"end"}, k) PROVE FALSE
        <5>1. ~WriteFails /\ ~StopFails /\ ~WriteSucceeds
          BY <1>7, <3>1 DEF WriteFails, StopFails, WriteSucceeds, unwritten
        <5>2. io = "writing" /\ chain # <<>> /\ chain[1].closes = k
          BY <1>7, <2>2, <3>1, <4>1, <5>1, NewEnd
        <5>. QED
          BY <3>2, <5>2
      <4>2. ~(io = "stopping" /\ chain[1].closes = k)
        BY <3>2 DEF IInv, Writing
      <4>. QED
        BY <4>1, <4>2 DEF Settled
    <3>. PICK a \in MemSet, b \in MemSet : a = m[k] /\ b = n[k]
      BY <2>2, SeqIs, StepMem DEF Grown
    <3>4. a.state \in {"committing", "done"} \/ (a.state = "gone" /\ a.facts = {})
      <4>1. Watched(k)
        BY <1>7, <2>1, <3>1 DEF Watched
      <4>. QED
        BY <2>0, <2>2, <2>4, <3>3, <4>1 DEF IInv, Promised
    <3>5. a.state # "committing"
      <4>1. SUFFICES ASSUME a.state = "committing" PROVE FALSE
        OBVIOUS
      <4>2. PICK i \in 1 .. Len(commits) : commits[i] = k
        BY <2>2, <4>1 DEF IInv, Ledger, Book
      <4>3. Len(commits) = 0
        BY <3>1
      <4>. QED
        BY <4>2, <4>3
    <3>6. GoneTo(a, b)
      BY <2>2, <3>1, GoneIs DEF IInv, Leave
    <3>. QED
      BY <1>7, <3>4, <3>5, <3>6 DEF GoneTo
  <2>. QED
    BY <2>3, <2>4
<1>. QED
  BY <1>4, <1>5, <1>6, <1>7, SettledKept DEF Promised

-----------------------------------------------------------------------------
(* The file tells what happened *)

\* The lines p go on where the file f ends.
GoesOn(f, p) ==
    /\ \A y \in 1 .. Len(p) : Whole(p[y])
    /\ \A i \in Places(f) : \A y \in 1 .. Len(p) : InOrder(f[i], p[y])
    /\ \A y, z \in 1 .. Len(p) : y < z => InOrder(p[y], p[z])
    /\ \A y \in 1 .. Len(p) :
          /\ p[y].seq # 0 => \/ \E j \in Places(f) : f[j].seq = p[y].seq - 1
                             \/ \E z \in 1 .. Len(p) : z < y /\ p[z].seq = p[y].seq - 1
          /\ p[y].kind # "header" => \/ \E j \in Places(f) : f[j].run = p[y].run
                                     \/ \E z \in 1 .. Len(p) : z < y /\ p[z].run = p[y].run
          /\ p[y].of # 0 => \/ \E j \in Places(f) : f[j].of = p[y].of /\ f[j].kind \in Opening
                            \/ p[y].kind \in Opening

LEMMA StartTruth ==
    ASSUME NEW h \in Seq(LineSet), NEW g, Truth(h), StartOf(h, g)
    PROVE  Truth(g)
<1>1. ASSUME NEW i \in Places(g), NEW j \in Places(g), i < j PROVE InOrder(g[i], g[j])
  BY <1>1 DEF Truth, StartOf
<1>2. ASSUME NEW i \in Places(g) PROVE Traced(g, i)
  <2>1. i \in Places(h) /\ g[i] = h[i] /\ Traced(h, i)
    BY DEF Truth, StartOf
  <2>2. \A j \in Places(h) : j < i => j \in Places(g) /\ g[j] = h[j]
    BY DEF StartOf
  <2>3. ASSUME g[i].of # 0 PROVE \E j \in Places(g) : j <= i /\ g[j].of = g[i].of /\ g[j].kind \in Opening
    <3>1. PICK j \in Places(h) : j <= i /\ h[j].of = h[i].of /\ h[j].kind \in Opening
      BY <2>1, <2>3 DEF Traced
    <3>2. i \in Nat /\ j \in Nat
      BY <2>1, PlacesAre
    <3>3. j < i \/ j = i
      BY <3>1, <3>2
    <3>4. j \in Places(g) /\ g[j] = h[j]
      BY <2>1, <2>2, <3>3
    <3>. QED
      BY <2>1, <3>1, <3>4
  <2>. QED
    BY <2>1, <2>2, <2>3 DEF Traced
<1>. QED
  BY <1>1, <1>2 DEF Truth

LEMMA MoreTruth ==
    ASSUME NEW f \in Seq(LineSet), NEW p \in Seq(LineSet), Truth(f), GoesOn(f, p), NEW h, h = f \o p
    PROVE  Truth(h)
<1>0. Len(f) \in Nat /\ Len(p) \in Nat
  BY SeqIs
<1>1. /\ h \in Seq(LineSet) /\ Len(h) = Len(f) + Len(p)
      /\ \A i \in 1 .. Len(f) : h[i] = f[i]
      /\ \A y \in 1 .. Len(p) : h[Len(f) + y] = p[y]
  BY ConcatIs DEF Follows
<1>8. \A i : i \in Places(f) <=> i \in 1 .. Len(f) /\ Whole(f[i])
  BY PlacesAre
<1>9. \A i : i \in Places(h) <=> i \in 1 .. Len(h) /\ Whole(h[i])
  BY <1>1, PlacesAre
<1>2. ASSUME NEW i \in Places(f) PROVE i \in Places(h) /\ h[i] = f[i] /\ i \in 1 .. Len(f)
  <2>1. i \in 1 .. Len(f) /\ Whole(f[i])
    BY <1>8
  <2>2. i \in 1 .. Len(h) /\ h[i] = f[i]
    BY <1>0, <1>1, <2>1
  <2>. QED
    BY <1>9, <2>1, <2>2
<1>3. ASSUME NEW y \in 1 .. Len(p)
      PROVE Len(f) + y \in Places(h) /\ h[Len(f) + y] = p[y] /\ Len(f) + y > Len(f)
  <2>1. Whole(p[y]) /\ Len(f) + y \in 1 .. Len(h)
    BY <1>0, <1>1 DEF GoesOn
  <2>. QED
    BY <1>0, <1>1, <1>9, <2>1
<1>4. ASSUME NEW i \in Places(h)
      PROVE  i \in Places(f) \/ \E y \in 1 .. Len(p) : i = Len(f) + y
  <2>1. i \in 1 .. Len(h) /\ Whole(h[i])
    BY <1>9
  <2>2. CASE i <= Len(f)
    <3>1. i \in 1 .. Len(f) /\ h[i] = f[i]
      BY <1>0, <1>1, <2>1, <2>2
    <3>. QED
      BY <1>8, <2>1, <3>1
  <2>3. CASE i > Len(f)
    <3>1. i - Len(f) \in 1 .. Len(p) /\ i = Len(f) + (i - Len(f))
      BY <1>0, <1>1, <2>1, <2>3
    <3>. QED
      BY <3>1
  <2>. QED
    BY <1>0, <2>1, <2>2, <2>3
<1>5. ASSUME NEW i \in Places(h), NEW j \in Places(h), i < j PROVE InOrder(h[i], h[j])
  <2>1. CASE j \in Places(f)
    <3>1. i \in Places(f)
      BY <1>0, <1>2, <1>4, <1>5, <2>1
    <3>. QED
      BY <1>2, <1>5, <2>1, <3>1 DEF Truth
  <2>2. ASSUME NEW z \in 1 .. Len(p), j = Len(f) + z PROVE InOrder(h[i], h[j])
    <3>1. CASE i \in Places(f)
      BY <1>2, <1>3, <2>2, <3>1 DEF GoesOn
    <3>2. ASSUME NEW y \in 1 .. Len(p), i = Len(f) + y PROVE InOrder(h[i], h[j])
      <4>1. y < z
        BY <1>0, <1>5, <2>2, <3>2
      <4>. QED
        BY <1>3, <2>2, <3>2, <4>1 DEF GoesOn
    <3>. QED
      BY <1>4, <3>1, <3>2
  <2>. QED
    BY <1>4, <2>1, <2>2
<1>6. ASSUME NEW i \in Places(f) PROVE Traced(h, i)
  <2>1. Traced(f, i) /\ h[i] = f[i]
    BY <1>2 DEF Truth
  <2>. QED
    BY <1>2, <2>1 DEF Traced
<1>7. ASSUME NEW y \in 1 .. Len(p), NEW i, i = Len(f) + y PROVE Traced(h, i)
  <2>1. h[i] = p[y] /\ i \in Places(h)
    BY <1>3, <1>7
  <2>2. ASSUME NEW z \in 1 .. Len(p), z < y
        PROVE Len(f) + z \in Places(h) /\ h[Len(f) + z] = p[z] /\ Len(f) + z < i
    BY <1>0, <1>3, <1>7, <2>2
  <2>3. ASSUME NEW j \in Places(f) PROVE j \in Places(h) /\ h[j] = f[j] /\ j < i
    BY <1>0, <1>2, <1>7
  <2>4. /\ p[y].seq # 0 => \/ \E j \in Places(f) : f[j].seq = p[y].seq - 1
                           \/ \E z \in 1 .. Len(p) : z < y /\ p[z].seq = p[y].seq - 1
        /\ p[y].kind # "header" => \/ \E j \in Places(f) : f[j].run = p[y].run
                                   \/ \E z \in 1 .. Len(p) : z < y /\ p[z].run = p[y].run
        /\ p[y].of # 0 => \/ \E j \in Places(f) : f[j].of = p[y].of /\ f[j].kind \in Opening
                          \/ p[y].kind \in Opening
    BY DEF GoesOn
  <2>5. h[i].seq # 0 => \E j \in Places(h) : j < i /\ h[j].seq = h[i].seq - 1
    BY ONLY <2>1, <2>2, <2>3, <2>4
  <2>6. h[i].kind # "header" => \E j \in Places(h) : j < i /\ h[j].run = h[i].run
    BY ONLY <2>1, <2>2, <2>3, <2>4
  <2>7. h[i].of # 0 => \E j \in Places(h) : j <= i /\ h[j].of = h[i].of /\ h[j].kind \in Opening
    <3>1. i <= i
      BY <1>0, <1>7
    <3>2. \A j \in Places(f) : j <= i
      BY <1>0, <1>2, <1>7
    <3>. QED
      BY <2>1, <2>3, <2>4, <3>1, <3>2
  <2>. QED
    BY <2>5, <2>6, <2>7 DEF Traced
<1>. QED
  BY <1>4, <1>5, <1>6, <1>7 DEF Truth

\* What is being written, of the last process, in a file that was read.
LEMMA PayloadGoesOn ==
    ASSUME IInv, ~guessed, io = "writing"
    PROVE  GoesOn(file, Payload) /\ (EndsTorn(file) => rec.guard)
<1>1. /\ chain # <<>> /\ 1 \in 1 .. Len(chain) /\ phase # "down" /\ rec.tail /\ rec \in RecSet
      /\ rec.header \in BOOLEAN /\ rec.seq \in Nat /\ run \in Nat
  BY SeqIs DEF IInv, Shape, Writing, Down, RecSet
<1>2. Truth(file) /\ Ahead(file, run, rec.turns, mem) /\ Aligned(file, rec, run)
  BY <1>1 DEF IInv, Told
<1>. PICK ls \in Seq(LineSet) : ls = chain[1].lines /\ ls # <<>>
  BY <1>1, BatchIs DEF IInv
<1>. PICK p : p = Payload
  OBVIOUS
<1>. PICK hd \in BOOLEAN, q \in Nat : hd = rec.header /\ q = rec.seq
  BY <1>1
<1>3. Sent(p, hd, ls, run, q)
  BY <1>1, PayloadIs DEF IInv
<1>4. /\ p \in Seq(LineSet) /\ \A y \in 1 .. Len(p) : Whole(p[y]) /\ p[y].seq = q + (y - 1)
      /\ Len(p) \in Nat /\ Len(ls) \in Nat
  BY <1>3, SeqIs DEF Sent
<1>5. /\ Len(ls) = 1 \/ Len(ls) = 2
      /\ \A x \in 1 .. Len(ls) : ls[x].run = run /\ ls[x].kind \in OfTurns \cup {"note"}
      /\ Len(ls) = 2 => ls[1].kind = "event" /\ ls[2].kind = "end" /\ ls[1].of = ls[2].of
  BY <1>1, BatchIs DEF IInv, Batch
<1>6. \A x \in 1 .. Len(ls) : Known(ls[x], mem, run)
  BY <1>1 DEF IInv, Lines
\* Where a line of it comes from.
<1>7. ASSUME NEW y \in 1 .. Len(p)
      PROVE  \/ hd /\ y = 1 /\ p[y].kind = "header" /\ p[y].of = 0 /\ p[y].turn = 0 /\ p[y].run = run
             \/ \E x \in 1 .. Len(ls) : Copies(p[y], ls[x]) /\ (IF hd THEN y = x + 1 ELSE y = x)
  <2>1. CASE hd
    <3>1. /\ Len(p) = Len(ls) + 1
          /\ p[1].kind = "header" /\ p[1].of = 0 /\ p[1].turn = 0 /\ p[1].run = run
          /\ \A x \in 1 .. Len(ls) : Copies(p[x + 1], ls[x])
      BY <1>3, <2>1 DEF Sent
    <3>2. CASE y = 1
      BY <2>1, <3>1, <3>2
    <3>3. CASE y # 1
      <4>. PICK x \in Int : x = y - 1
        BY <1>7
      <4>1. x \in 1 .. Len(ls) /\ y = x + 1
        BY <1>4, <3>1, <3>3
      <4>. QED
        BY <2>1, <3>1, <4>1
    <3>. QED
      BY <3>2, <3>3
  <2>2. CASE ~hd
    BY <1>3, <2>2 DEF Sent
  <2>. QED
    BY <2>1, <2>2
<1>8. ASSUME NEW y \in 1 .. Len(p)
      PROVE p[y].run = run /\ p[y].kind # "stopped" /\ (p[y].kind = "header" => hd /\ y = 1)
  BY <1>5, <1>7, SMTT(30) DEF Copies, OfTurns
\* After the lines of the file.
<1>9. ASSUME NEW i \in Places(file), NEW y \in 1 .. Len(p) PROVE InOrder(file[i], p[y])
  <2>. PICK a \in LineSet : a = file[i]
    BY PlacesAre DEF IInv, Shape
  <2>. PICK b \in LineSet : b = p[y]
    BY <1>4, SeqIs
  <2>1. Known(a, mem, run)
    BY DEF IInv, Lines
  <2>2. /\ a.seq < q /\ (hd => a.run < run) /\ (a.kind = "stopped" => a.run < run)
    BY <1>2 DEF Aligned
  <2>3. a.seq < b.seq /\ a.run <= b.run /\ (b.kind = "header" \/ a.kind = "stopped" => a.run < b.run)
    <3>1. a.seq \in Nat /\ b.seq = q + (y - 1)
      BY <1>4, LineIs
    <3>2. b.run = run /\ (b.kind = "header" => hd) /\ a.run <= run
      BY <1>8, <2>1 DEF Known
    <3>. QED
      BY <2>2, <3>1, <3>2
  <2>4. ASSUME a.of # 0, b.of # 0
        PROVE  \/ a.of < b.of /\ a.turn < b.turn
               \/ /\ a.of = b.of /\ a.turn = b.turn
                  /\ Rank[a.kind] <= Rank[b.kind]
                  /\ Rank[a.kind] = Rank[b.kind] => a.kind = "event"
    <3>1. PICK x \in 1 .. Len(ls) : Copies(b, ls[x])
      BY <1>7, <2>4
    <3>2. Later(a, ls[x])
      <4>1. 1 \in Upcoming
        BY <1>1 DEF Upcoming
      <4>. QED
        BY <4>1 DEF IInv, Order
    <3>. PICK l \in LineSet : l = ls[x]
      BY SeqIs
    <3>3. Known(l, mem, run) /\ l.run = run
      BY <1>5, <1>6
    <3>4. l.of = b.of /\ l.turn = b.turn /\ l.kind = b.kind
      BY <3>1 DEF Copies
    <3>5. /\ a.of \in 1 .. Len(mem) /\ a.turn = mem[a.of].turn /\ a.turn # 0 /\ a.run = mem[a.of].run
          /\ l.of \in 1 .. Len(mem) /\ l.turn = mem[l.of].turn /\ l.turn # 0 /\ l.run = mem[l.of].run
          /\ a.kind \in OfTurns /\ l.kind \in OfTurns /\ a.run <= run
      BY <2>1, <2>4, <3>3, <3>4 DEF Known
    <3>6. CASE a.of < l.of
      <4>1. CASE a.run = run
        <5>0. \A k, j \in 1 .. Len(mem) :
                 k < j /\ mem[k].run = run /\ mem[j].run = run /\ mem[k].turn # 0 /\ mem[j].turn # 0
                 => mem[k].turn < mem[j].turn
          BY DEF IInv, Numbers, Numbered
        <5>1. mem[a.of].turn < mem[l.of].turn
          BY ONLY <3>3, <3>5, <3>6, <4>1, <5>0
        <5>. QED
          BY <3>4, <3>5, <3>6, <5>1
      <4>2. CASE a.run # run
        <5>1. a.run < run
          <6>1. a.run \in Nat /\ run \in Nat
            BY <1>1, LineIs
          <6>. QED
            BY ONLY <3>5, <4>2, <6>1
        <5>2. \A k \in 1 .. Len(mem) : mem[k].run = run /\ mem[k].turn # 0 => a.turn < mem[k].turn
          BY <1>2, <5>1 DEF Ahead
        <5>3. a.turn < mem[l.of].turn
          BY ONLY <3>3, <3>5, <5>2
        <5>. QED
          BY <3>4, <3>5, <3>6, <5>3
      <4>. QED
        BY <4>1, <4>2
    <3>7. CASE a.of = l.of /\ (Rank[a.kind] < Rank[l.kind] \/ (a.kind = "event" /\ l.kind = "event"))
      BY <3>4, <3>5, <3>7 DEF Rank, OfTurns
    <3>. QED
      BY <2>4, <3>2, <3>4, <3>6, <3>7 DEF Later
  <2>. QED
    BY <2>3, <2>4 DEF InOrder
\* Among themselves.
<1>10. ASSUME NEW y \in 1 .. Len(p), NEW z \in 1 .. Len(p), y < z PROVE InOrder(p[y], p[z])
  <2>. PICK a : a = p[y]
    OBVIOUS
  <2>. PICK b : b = p[z]
    OBVIOUS
  <2>1. a.seq < b.seq /\ a.run <= b.run /\ ~(b.kind = "header" \/ a.kind = "stopped")
    <3>1. a.seq = q + (y - 1) /\ b.seq = q + (z - 1)
      BY <1>4
    <3>2. a.run = run /\ b.run = run /\ b.kind # "header" /\ a.kind # "stopped"
      BY <1>8, <1>10
    <3>3. a.seq < b.seq
      BY <1>4, <1>10, <3>1
    <3>. QED
      BY <1>1, <3>2, <3>3
  <2>2. ASSUME a.of # 0, b.of # 0
        PROVE  /\ a.of = b.of /\ a.turn = b.turn
               /\ Rank[a.kind] <= Rank[b.kind]
               /\ Rank[a.kind] = Rank[b.kind] => a.kind = "event"
    <3>1. PICK u \in 1 .. Len(ls) : Copies(a, ls[u]) /\ (IF hd THEN y = u + 1 ELSE y = u)
      BY <1>7, <2>2
    <3>2. PICK v \in 1 .. Len(ls) : Copies(b, ls[v]) /\ (IF hd THEN z = v + 1 ELSE z = v)
      BY <1>7, <2>2
    <3>3. u = 1 /\ v = 2 /\ Len(ls) = 2
      <4>1. u < v
        BY <1>10, <3>1, <3>2
      <4>. QED
        BY <1>5, <4>1, SMTT(30)
    <3>4. Known(ls[1], mem, run) /\ Known(ls[2], mem, run) /\ ls[1].of = ls[2].of
      BY <1>5, <1>6, <3>3
    <3>5. a.kind = "event" /\ b.kind = "end" /\ a.of = b.of /\ a.of = ls[1].of /\ a.turn = ls[1].turn
            /\ b.turn = ls[2].turn
      BY <1>5, <3>1, <3>2, <3>3 DEF Copies
    <3>6. a.turn = b.turn
      BY <2>2, <3>4, <3>5 DEF Known
    <3>. QED
      BY <3>5, <3>6 DEF Rank
  <2>. QED
    BY <2>1, <2>2 DEF InOrder
\* Each has what it follows.
<1>11. ASSUME NEW y \in 1 .. Len(p)
       PROVE  /\ p[y].seq # 0 => \/ \E j \in Places(file) : file[j].seq = p[y].seq - 1
                                 \/ \E z \in 1 .. Len(p) : z < y /\ p[z].seq = p[y].seq - 1
              /\ p[y].kind # "header" => \/ \E j \in Places(file) : file[j].run = p[y].run
                                         \/ \E z \in 1 .. Len(p) : z < y /\ p[z].run = p[y].run
              /\ p[y].of # 0 => \/ \E j \in Places(file) : file[j].of = p[y].of /\ file[j].kind \in Opening
                                \/ p[y].kind \in Opening
  <2>1. ASSUME p[y].seq # 0
        PROVE  \/ \E j \in Places(file) : file[j].seq = p[y].seq - 1
               \/ \E z \in 1 .. Len(p) : z < y /\ p[z].seq = p[y].seq - 1
    <3>1. CASE y = 1
      <4>1. p[y].seq = q
        BY <1>4, <3>1
      <4>2. \E j \in Places(file) : file[j].seq = q - 1
        BY <1>2, <2>1, <4>1 DEF Aligned
      <4>. QED
        BY <4>1, <4>2
    <3>2. CASE y # 1
      <4>1. y - 1 \in 1 .. Len(p) /\ y - 1 < y
        BY <1>4, <3>2
      <4>. PICK z \in 1 .. Len(p) : z = y - 1
        BY <4>1
      <4>2. p[z].seq = q + (z - 1) /\ p[y].seq = q + (y - 1) /\ z = y - 1 /\ q \in Nat /\ y \in Int
        BY <1>4
      <4>3. p[z].seq = p[y].seq - 1
        BY ONLY <4>2
      <4>. QED
        BY <4>1, <4>3
    <3>. QED
      BY <3>1, <3>2
  <2>2. ASSUME p[y].kind # "header"
        PROVE  \/ \E j \in Places(file) : file[j].run = p[y].run
               \/ \E z \in 1 .. Len(p) : z < y /\ p[z].run = p[y].run
    <3>1. CASE hd
      <4>1. y # 1 /\ 1 \in 1 .. Len(p) /\ p[1].run = run
        BY <1>3, <1>4, <1>8, <2>2, <3>1 DEF Sent
      <4>2. 1 < y
        BY <4>1
      <4>. QED
        BY <1>8, <4>1, <4>2
    <3>2. CASE ~hd
      BY <1>2, <1>8, <3>2 DEF Aligned
    <3>. QED
      BY <3>1, <3>2
  <2>3. ASSUME p[y].of # 0, p[y].kind \notin Opening
        PROVE  \E j \in Places(file) : file[j].of = p[y].of /\ file[j].kind \in Opening
    <3>1. PICK x \in 1 .. Len(ls) : Copies(p[y], ls[x])
      BY <1>7, <2>3
    <3>2. ls[x].kind \in {"event", "end"} /\ ls[x].of = p[y].of
      <4>1. Known(ls[x], mem, run) /\ ls[x].kind = p[y].kind /\ ls[x].of = p[y].of
        BY <1>6, <3>1 DEF Copies
      <4>. QED
        BY <2>3, <4>1 DEF Known, OfTurns, Opening
    <3>3. 1 \in Live
      BY <1>1 DEF Live
    <3>4. Found(file, Opening, ls[x].of)
      BY <3>2, <3>3 DEF IInv, Opened
    <3>. QED
      BY <3>2, <3>4 DEF Found
  <2>. QED
    BY <2>1, <2>2, <2>3
<1>12. GoesOn(file, p)
  BY <1>4, <1>9, <1>10, <1>11, Zenon DEF GoesOn
<1>. QED
  BY <1>2, <1>12 DEF Aligned

LEMMA StopGoesOn ==
    ASSUME IInv, ~guessed, io = "stopping"
    PROVE  GoesOn(file, <<StopLine>>) /\ ~EndsTorn(file)
<1>1. /\ phase # "down" /\ rec.tail /\ ~rec.header /\ ~rec.guard /\ rec.seq # 0
      /\ rec.seq \in Nat /\ run \in Nat
  BY DEF IInv, Shape, Writing, Down, RecSet
<1>2. Truth(file) /\ Aligned(file, rec, run)
  BY <1>1 DEF IInv, Told
<1>. PICK p \in Seq(LineSet) : p = <<StopLine>> /\ Len(p) = 1
  BY StopIs DEF IInv
<1>. PICK b \in LineSet : b = p[1]
  BY SeqIs
<1>3. /\ Whole(b) /\ b.kind = "stopped" /\ b.of = 0 /\ b.run = run /\ b.seq = rec.seq
  BY StopIs DEF IInv
<1>4. \A y \in 1 .. Len(p) : y = 1 /\ p[y] = b
  OBVIOUS
<1>5. ASSUME NEW i \in Places(file) PROVE InOrder(file[i], b)
  <2>. PICK a \in LineSet : a = file[i]
    BY PlacesAre DEF IInv, Shape
  <2>1. Known(a, mem, run)
    BY DEF IInv, Lines
  <2>2. a.seq < rec.seq /\ (a.kind = "stopped" => a.run < run)
    BY <1>2 DEF Aligned
  <2>3. a.run <= run
    BY <2>1 DEF Known
  <2>. QED
    BY <1>3, <2>2, <2>3 DEF InOrder
<1>6. /\ \E j \in Places(file) : file[j].seq = rec.seq - 1
      /\ \E j \in Places(file) : file[j].run = run
      /\ ~EndsTorn(file)
  BY <1>1, <1>2 DEF Aligned
<1>7. \A y, z \in 1 .. Len(p) : ~(y < z)
  OBVIOUS
<1>8. GoesOn(file, p)
  BY <1>3, <1>4, <1>5, <1>6, <1>7 DEF GoesOn
<1>. QED
  BY <1>6, <1>8

\* What a process leaves behind goes on where its file ends.
LEMMA InFlightTruth ==
    ASSUME IInv, ~guessed, io # "idle"
    PROVE  Truth(file \o InFlight) /\ (EndsTorn(file) => Guarded) /\ rec.tail
<1>1. Truth(file) /\ rec.tail
  BY DEF IInv, Told, Writing
<1>2. GoesOn(file, InFlight) /\ (EndsTorn(file) => Guarded)
  BY PayloadGoesOn, StopGoesOn, InFlightIs DEF IInv, Shape
<1>. PICK p \in Seq(LineSet) : p = InFlight
  BY InFlightIs DEF IInv
<1>. PICK f \in Seq(LineSet) : f = file
  BY DEF IInv, Shape
<1>3. Truth(f \o p)
  BY <1>1, <1>2, MoreTruth
<1>. QED
  BY <1>1, <1>2, <1>3

\* What was guessed stays.
LEMMA StepGuessed ==
    ASSUME IInv, Next
    PROVE  \/ guessed' = guessed /\ ~TailLands /\ ~StrayLands
           \/ TailLands /\ (guessed => guessed')
           \/ StrayLands /\ (guessed => guessed')
<1>1. TailLands => (guessed => guessed')
  BY DEF TailLands
<1>2. StrayLands => (guessed => guessed')
  BY DEF StrayLands
<1>3. Record => UNCHANGED guessed
  BY DEF Record, SkipBatch, BeginWrite, OpenFails, WriteSucceeds, WriteFails, StopWritten, StopFails,
     Note, unwritten, life
<1>4. CommitReads \/ CommitWrites => UNCHANGED guessed
  BY DEF CommitReads, CommitWrites, life
<1>5. \A f \in Fact : Stage(f) \/ SourceMoves(f) => UNCHANGED guessed
  BY DEF Stage, SourceMoves, life
<1>6. \A key \in Key : Forget(key) => UNCHANGED guessed
  BY DEF Forget, life
<1>7. \A key \in Key, f \in Fact : Edit(key, f) => UNCHANGED guessed
  BY DEF Edit, life
<1>8. \A o \in left.opens : Begin(o[1], o[2]) => UNCHANGED guessed
  BY DEF Begin, life
<1>9. Emit \/ RecordFails \/ BarrierPasses \/ BarrierTimesOut => UNCHANGED guessed
  BY DEF Emit, RecordFails, BarrierPasses, BarrierTimesOut, life
<1>10. \A o \in left.ends : StreamEnds(o[1], o[2]) => UNCHANGED guessed
  BY DEF StreamEnds, life
<1>11. Seal \/ Catalogue \/ Unwind => UNCHANGED guessed
  BY DEF Seal, Catalogue, Unwind, life
<1>12. Opens \/ Drained \/ Restart \/ Leave \/ Crash => UNCHANGED guessed
  BY DEF Opens, Drained, Restart, Leave, Crash, Gone
<1>13. \A r \in BOOLEAN : Close(r) => UNCHANGED guessed
  BY DEF Close
<1>14. Record \/ Memory \/ Turn => UNCHANGED guessed
  BY <1>3, <1>4, <1>5, <1>6, <1>7, <1>8, <1>9, <1>10, <1>11 DEF Memory, Turn
<1>15. TailLands \/ StrayLands \/ UNCHANGED guessed
  BY <1>12, <1>13, <1>14 DEF Next, Life
<1>. QED
  BY <1>1, <1>2, <1>15

\* A file that told what happened does so after every step.
LEMMA TruthKept ==
    ASSUME IInv, Next, ~guessed, ~guessed'
    PROVE  Truth(file')
<1>. PICK f \in Seq(LineSet) : f = file
  BY DEF IInv, Shape
<1>. PICK g : g = file'
  OBVIOUS
<1>1. Truth(f)
  BY DEF IInv, Told
<1>2. ASSUME io = "writing"
      PROVE Payload \in Seq(LineSet) /\ Truth(f \o Payload) /\ (EndsTorn(f) => rec.guard)
                                  /\ f \o Payload \in Seq(LineSet)
  <2>. PICK p \in Seq(LineSet) : p = Payload
    BY <1>2, PayloadSource DEF IInv
  <2>1. GoesOn(f, p) /\ (EndsTorn(f) => rec.guard)
    BY <1>2, PayloadGoesOn
  <2>2. Truth(f \o p)
    BY <1>1, <2>1, MoreTruth
  <2>3. f \o p \in Seq(LineSet)
    BY ConcatIs DEF Follows
  <2>. QED
    BY <2>1, <2>2, <2>3
<1>3. ASSUME io = "stopping"
      PROVE Truth(f \o <<StopLine>>) /\ ~EndsTorn(f) /\ f \o <<StopLine>> \in Seq(LineSet)
  <2>. PICK p \in Seq(LineSet) : p = <<StopLine>>
    BY StopIs DEF IInv
  <2>1. GoesOn(f, p) /\ ~EndsTorn(f)
    BY <1>3, StopGoesOn
  <2>2. Truth(f \o p)
    BY <1>1, <2>1, MoreTruth
  <2>3. f \o p \in Seq(LineSet)
    BY ConcatIs DEF Follows
  <2>. QED
    BY <2>1, <2>2, <2>3
<1>4. ASSUME NEW ls, NEW e, WroteAll(f, g, ls, e), EndsTorn(f) => e PROVE g = f \o ls
  BY <1>4, Zenon DEF WroteAll
<1>5. CASE g = f
  BY <1>1, <1>5
<1>6. CASE WriteSucceeds /\ WroteAll(f, g, Payload, rec.guard)
  <2>1. io = "writing"
    BY <1>6 DEF WriteSucceeds
  <2>2. g = f \o Payload
    BY <1>2, <1>4, <1>6, <2>1
  <2>. QED
    BY <1>2, <2>1, <2>2
<1>7. CASE WriteFails /\ ((EndsTorn(f) => rec.guard) => StartOf(f \o Payload, g))
  <2>1. io = "writing"
    BY <1>7 DEF WriteFails
  <2>. PICK h \in Seq(LineSet) : h = f \o Payload
    BY <1>2, <2>1
  <2>2. Truth(h) /\ StartOf(h, g)
    BY <1>2, <1>7, <2>1
  <2>. QED
    BY <2>2, StartTruth
<1>8. CASE StopWritten /\ g = f \o <<StopLine>>
  <2>1. io = "stopping"
    BY <1>8 DEF StopWritten
  <2>. QED
    BY <1>3, <1>8, <2>1
<1>9. CASE StopFails /\ (~EndsTorn(f) => StartOf(f \o <<StopLine>>, g))
  <2>1. io = "stopping"
    BY <1>9 DEF StopFails
  <2>. PICK h \in Seq(LineSet) : h = f \o <<StopLine>>
    BY <1>3, <2>1
  <2>2. Truth(h) /\ StartOf(h, g)
    BY <1>3, <1>9, <2>1
  <2>. QED
    BY <2>2, StartTruth
<1>10. CASE ((EndsTorn(f) => Guarded) => StartOf(f \o InFlight, g)) /\ io # "idle"
  <2>. PICK p \in Seq(LineSet) : p = InFlight
    BY InFlightIs DEF IInv
  <2>. PICK h : h = f \o p
    OBVIOUS
  <2>1. Truth(h) /\ StartOf(h, g)
    BY <1>10, InFlightTruth
  <2>2. h \in Seq(LineSet)
    BY ConcatIs DEF Follows
  <2>. QED
    BY <2>1, <2>2, StartTruth
<1>11. ASSUME NEW s \in stray, guessed' = (guessed \/ Last(s.lines).run # run),
              WroteAll(f, g, s.lines, s.guard)
       PROVE  Truth(g)
  <2>1. Last(s.lines).run = run
    BY <1>11
  <2>2. Truth(f \o s.lines) /\ (EndsTorn(f) => s.guard)
    BY <2>1 DEF IInv, Strays, Told
  <2>3. g = f \o s.lines
    BY <1>4, <1>11, <2>2
  <2>. QED
    BY <2>2, <2>3
<1>. QED
  BY <1>5, <1>6, <1>7, <1>8, <1>9, <1>10, <1>11, StepFileMoves DEF FileMoves

\* What is written of a file that tells what happened is of the last process.
LEMMA NewLine ==
    ASSUME IInv, Next, ~guessed, ~guessed', NEW i \in Places(file')
    PROVE  \/ i \in Places(file) /\ file'[i] = file[i]
           \/ file'[i].run = run /\ rec.tail
<1>. PICK g : g = file'
  OBVIOUS
<1>1. SUFFICES ASSUME ~(i \in Places(file) /\ g[i] = file[i])
      PROVE  g[i].run = run /\ rec.tail
  OBVIOUS
<1>2. ASSUME NEW ls, Wrote(file, g, ls) PROVE \E y \in 1 .. Len(ls) : g[i] = ls[y]
  BY <1>1, <1>2 DEF Wrote
<1>3. ASSUME NEW ls, NEW e, WroteAll(file, g, ls, e) PROVE Wrote(file, g, ls)
  BY <1>3, Zenon DEF WroteAll
<1>4. g # file
  BY <1>1
<1>5. ASSUME io # "idle", Wrote(file, g, InFlight) PROVE g[i].run = run /\ rec.tail
  BY <1>2, <1>5, InFlightRun DEF IInv, Writing
<1>6. /\ io = "writing" => InFlight = Payload
      /\ io = "stopping" => InFlight = <<StopLine>>
      /\ WriteSucceeds \/ WriteFails => io = "writing"
      /\ StopWritten \/ StopFails => io = "stopping"
  BY InFlightIs DEF IInv, WriteSucceeds, WriteFails, StopWritten, StopFails
<1>7. ASSUME NEW s \in stray, guessed' = (guessed \/ Last(s.lines).run # run),
             WroteAll(file, g, s.lines, s.guard)
      PROVE  g[i].run = run /\ rec.tail
  <2>1. Last(s.lines).run = run
    BY <1>7
  <2>2. \A y \in 1 .. Len(s.lines) : s.lines[y].run = run
    BY <2>1 DEF IInv, Strays, Given
  <2>3. rec.tail
    BY <2>1 DEF IInv, Strays, Told
  <2>. QED
    BY <1>2, <1>3, <1>7, <2>2, <2>3
<1>. QED
  BY <1>3, <1>4, <1>5, <1>6, <1>7, StepFileMoves DEF FileMoves

\* The reading gives a process the number of its next turn and of its next line.
LEMMA TailReads ==
    ASSUME IInv, TailLands, ~guessed, ~guessed'
    PROVE  /\ ~rec.tail /\ rec.header /\ phase # "down" /\ file' = file /\ mem' = mem /\ run' = run
           /\ rec' \in RecSet => rec'.header /\ Ahead(file, run, rec'.turns, mem) /\ Aligned(file, rec', run)
<1>. PICK f \in Seq(LineSet) : f = file
  BY DEF IInv, Shape
<1>. PICK r \in RecSet : r = rec
  BY DEF IInv, Shape
<1>1. /\ ~r.tail /\ phase # "down" /\ file' = f /\ mem' = mem /\ run' = run
      /\ \/ /\ rec' = [r EXCEPT !.tail = TRUE, !.seq = NextSeq, !.size = Len(f), !.guard = NeedsNewline,
                                !.turns = IF r.turns = 0 THEN LastTurn ELSE r.turns]
            /\ guessed' = (guessed \/ (r.turns # 0 /\ LastTurn # 0))
         \/ /\ rec' = [r EXCEPT !.tail = TRUE]
            /\ guessed' = (guessed \/ f # <<>>)
  BY DEF TailLands, memory
<1>2. /\ r.header /\ r.seq = 0 /\ \A i \in Places(f) : f[i].run < run
      /\ Truth(f)
  BY <1>1 DEF IInv, Told
<1>3. /\ LastTurn \in Nat /\ \A i \in Places(f) : f[i].turn <= LastTurn
      /\ NextSeq \in Nat /\ (Places(f) = {} => NextSeq = 0)
      /\ Places(f) # {} =>
            \E i \in Places(f) : NextSeq = f[i].seq + 1 /\ \A j \in Places(f) : j <= i
      /\ NeedsNewline = EndsTorn(f) /\ Len(f) \in Nat
  BY TailIs DEF IInv
<1>4. /\ r.turns \in Nat /\ r.seq \in Nat /\ run \in Nat
      /\ \A i \in Places(f) : i \in Nat /\ f[i] \in LineSet /\ f[i].turn \in Nat /\ f[i].seq \in Nat
           /\ f[i].run \in Nat
  BY PlacesAre, LineIs DEF RecSet, IInv, Shape
<1>5. \A k \in 1 .. Len(mem) : mem[k].turn \in Nat /\ (mem[k].run = run => mem[k].turn <= r.turns)
  <2>1. \A k \in 1 .. Len(mem) : mem[k].turn \in Nat
    BY SeqIs, MemIs DEF IInv, Shape
  <2>. QED
    BY <2>1 DEF IInv, Numbers, Numbered
\* As read.
<1>6. CASE /\ rec' = [r EXCEPT !.tail = TRUE, !.seq = NextSeq, !.size = Len(f), !.guard = NeedsNewline,
                               !.turns = IF r.turns = 0 THEN LastTurn ELSE r.turns]
           /\ guessed' = (guessed \/ (r.turns # 0 /\ LastTurn # 0))
  <2>. PICK u \in Nat : u = IF r.turns = 0 THEN LastTurn ELSE r.turns
    BY <1>3, <1>4
  <2>1. rec'.seq = NextSeq /\ rec'.turns = u /\ (rec'.guard <=> EndsTorn(f)) /\ rec'.header
    <3>1. rec' = [r EXCEPT !.tail = TRUE, !.seq = NextSeq, !.size = Len(f), !.guard = NeedsNewline,
            !.turns = u]
      BY <1>6
    <3>2. rec'.seq = NextSeq /\ rec'.turns = u /\ rec'.guard = NeedsNewline /\ rec'.header = r.header
      BY <3>1 DEF RecSet
    <3>. QED
      BY <1>2, <1>3, <3>2
  <2>2. r.turns = 0 \/ LastTurn = 0
    BY <1>6
  <2>3. Ahead(f, run, u, mem)
    <3>1. ASSUME NEW i \in Places(f)
          PROVE  /\ f[i].turn <= u
                 /\ \A k \in 1 .. Len(mem) : mem[k].run = run /\ mem[k].turn # 0 => f[i].turn < mem[k].turn
      <4>. PICK t \in Nat : t = f[i].turn
        BY <1>4
      <4>1. t <= LastTurn
        BY <1>3
      <4>2. u \in Nat /\ u = IF r.turns = 0 THEN LastTurn ELSE r.turns
        OBVIOUS
      <4>3. CASE r.turns = 0
        BY ONLY <1>5, <4>1, <4>2, <4>3, t = f[i].turn
      <4>4. CASE LastTurn = 0
        <5>1. t = 0 /\ t = f[i].turn
          BY ONLY <4>1, <4>4, t \in Nat, t = f[i].turn
        <5>. QED
          BY ONLY <1>5, <4>2, <5>1
      <4>. QED
        BY <2>2, <4>3, <4>4
    <3>. QED
      BY <3>1 DEF Ahead
  <2>4. \A i \in Places(f) : f[i].seq < NextSeq
    <3>1. SUFFICES ASSUME NEW i \in Places(f) PROVE f[i].seq < NextSeq
      OBVIOUS
    <3>2. PICK j \in Places(f) : NextSeq = f[j].seq + 1 /\ i <= j
      BY <1>3
    <3>3. i = j \/ f[i].seq < f[j].seq
      BY <1>2, <1>4, <3>2 DEF Truth, InOrder
    <3>. QED
      BY <1>4, <3>2, <3>3
  <2>5. NextSeq = 0 \/ \E i \in Places(f) : f[i].seq = NextSeq - 1
    <3>1. CASE Places(f) = {}
      BY <1>3, <3>1
    <3>2. CASE Places(f) # {}
      <4>1. PICK i \in Places(f) : NextSeq = f[i].seq + 1
        BY <1>3, <3>2
      <4>. QED
        BY <1>4, <4>1
    <3>. QED
      BY <3>1, <3>2
  <2>6. Aligned(f, rec', run)
    BY <1>2, <2>1, <2>4, <2>5 DEF Aligned
  <2>. QED
    BY <1>1, <1>2, <2>1, <2>3, <2>6
\* Unreadable, which counts as none.
<1>7. CASE rec' = [r EXCEPT !.tail = TRUE] /\ guessed' = (guessed \/ f # <<>>)
  <2>1. f = <<>> /\ Places(f) = {} /\ ~EndsTorn(f)
    <3>1. f = <<>> /\ Len(f) = 0
      BY <1>7
    <3>2. \A i : i \in Places(f) <=> i \in 1 .. Len(f) /\ Whole(f[i])
      BY PlacesAre
    <3>3. Places(f) = {}
      BY <3>1, <3>2
    <3>4. ~EndsTorn(f)
      BY <3>1 DEF EndsTorn
    <3>. QED
      BY <3>1, <3>3, <3>4
  <2>2. rec'.seq = 0 /\ rec'.header
    BY <1>2, <1>7 DEF RecSet
  <2>3. Ahead(f, run, rec'.turns, mem) /\ Aligned(f, rec', run)
    BY <2>1, <2>2 DEF Ahead, Aligned
  <2>. QED
    BY <1>1, <1>2, <2>2, <2>3
<1>. QED
  BY <1>1, <1>6, <1>7

\* The numbers of the turns go on.
LEMMA AheadKept ==
    ASSUME IInv, Next, ~guessed, ~guessed', rec'.tail
    PROVE  Ahead(file', run', rec'.turns, mem')
<1>. PICK m \in Seq(MemSet) : m = mem
  BY DEF IInv, Shape
<1>. PICK n \in Seq(MemSet) : n = mem'
  BY StepMem DEF Grown
<1>0. /\ Len(m) \in Nat /\ Len(n) \in Nat /\ rec \in RecSet /\ rec' \in RecSet
      /\ rec.turns \in Nat /\ rec'.turns \in Nat
  BY SeqIs, StepRec DEF IInv, Shape, RecSet
<1>1. ~Restart /\ run' = run
  <2>1. ~Restart
    BY DEF Restart, Fresh
  <2>. QED
    BY <2>1, StepRun
<1>2. CASE TailLands
  <2>1. /\ file' = file /\ mem' = mem /\ run' = run
        /\ rec' \in RecSet => Ahead(file, run, rec'.turns, mem)
    BY <1>2, TailReads
  <2>. QED
    BY <1>0, <2>1
<1>3. CASE ~TailLands
  <2>1. rec.tail /\ rec.turns <= rec'.turns
        /\ (Len(n) # Len(m) => rec.state # "on" \/ rec'.turns = rec.turns + 1)
    <3>1. rec.tail
      BY <1>0, <1>1, <1>3, StepRec DEF Failed, RecSet
    <3>2. rec.turns <= rec'.turns
      <4>1. rec'.turns = rec.turns \/ rec'.turns = rec.turns + 1
        BY <1>0, <1>1, <1>3, StepRec DEF Failed, RecSet
      <4>. QED
        BY <1>0, <4>1
    <3>3. ASSUME Len(n) # Len(m), rec.state = "on" PROVE rec'.turns = rec.turns + 1
      <4>1. PICK o \in left.opens : Begin(o[1], o[2])
        BY <3>3, StepMem
      <4>. PICK p \in BOOLEAN, q \in BOOLEAN : p = o[1] /\ q = o[2]
        BY LeftIs DEF IInv
      <4>2. rec' = [rec EXCEPT !.turns = rec.turns + 1]
        BY <3>3, <4>1, BeginIs DEF IInv, Ledger
      <4>. QED
        BY <1>0, <4>2 DEF RecSet
    <3>. QED
      BY <3>1, <3>2, <3>3
  <2>2. Ahead(file, run, rec.turns, m)
    BY <2>1 DEF IInv, Told
  <2>3. ASSUME NEW i \in Places(file'), file'[i].run < run
        PROVE  /\ i \in Places(file) /\ file'[i] = file[i] /\ file[i].turn \in Nat
               /\ file[i].turn <= rec.turns
               /\ \A k \in 1 .. Len(m) : m[k].run = run /\ m[k].turn # 0 => file[i].turn < m[k].turn
    <3>1. i \in Places(file) /\ file'[i] = file[i]
      <4>1. run \in Nat
        BY DEF IInv, Shape
      <4>2. file'[i].run # run
        BY <2>3, <4>1
      <4>. QED
        BY <4>2, NewLine
    <3>2. file[i].turn \in Nat
      BY <3>1, PlacesAre, LineIs DEF IInv, Shape
    <3>. QED
      BY <2>2, <2>3, <3>1, <3>2 DEF Ahead
  <2>4. ASSUME NEW i \in Places(file'), file'[i].run < run, NEW k \in 1 .. Len(n), n[k].run = run,
               n[k].turn # 0
        PROVE  file'[i].turn < n[k].turn
    <3>1. CASE k \in 1 .. Len(m)
      <4>1. n[k].turn = m[k].turn /\ n[k].run = m[k].run
        BY <3>1, StepMem DEF Grown
      <4>. QED
        BY <2>3, <2>4, <3>1, <4>1
    <3>2. CASE k \notin 1 .. Len(m)
      <4>1. PICK o \in left.opens : Begin(o[1], o[2])
        BY <3>2, StepMem
      <4>. PICK p \in BOOLEAN, q \in BOOLEAN : p = o[1] /\ q = o[2]
        BY LeftIs DEF IInv
      <4>2. NewTurn(m, n, rec.state = "on", IF rec.state = "on" THEN rec.turns + 1 ELSE 0, run)
        BY <4>1, BeginIs DEF IInv, Ledger
      <4>3. k = Len(n) /\ n[k].turn = IF rec.state = "on" THEN rec.turns + 1 ELSE 0
        BY <1>0, <3>2, <4>2 DEF NewTurn
      <4>4. n[k].turn = rec.turns + 1
        BY <2>4, <4>3
      <4>. QED
        BY <1>0, <2>3, <2>4, <4>4
    <3>. QED
      BY <3>1, <3>2
  <2>5. ASSUME NEW i \in Places(file'), file'[i].run < run PROVE file'[i].turn <= rec'.turns
    BY <1>0, <2>1, <2>3, <2>5
  <2>. QED
    BY <1>1, <2>4, <2>5 DEF Ahead
<1>. QED
  BY <1>2, <1>3

\* The numbers of the lines go on, as long as there are any to come.
LEMMA AlignedKept ==
    ASSUME IInv, Next, ~guessed, ~guessed', phase' # "down", rec'.tail, rec'.state = "on" \/ io' # "idle"
    PROVE  Aligned(file', rec', run')
<1>0. rec \in RecSet /\ rec' \in RecSet /\ run \in Nat /\ rec.seq \in Nat
  BY StepRec DEF IInv, Shape, RecSet
<1>1. ~Restart /\ ~Leave /\ ~Crash
  BY DEF Restart, Fresh, Leave, Crash, Gone
<1>2. run' = run /\ phase # "down"
  BY <1>1, StepRun, WhenDown
<1>3. CASE TailLands
  BY <1>0, <1>3, TailReads
<1>4. CASE ~TailLands
  <2>1. rec.tail
    BY <1>0, <1>1, <1>4, StepRec DEF Failed, RecSet
  <2>2. rec.state = "on" \/ io # "idle"
    <3>1. rec'.state = "on" => rec.state = "on"
      BY <1>0, <1>1, StepRec DEF Failed, RecSet
    <3>2. BeginWrite => rec.state = "on"
      BY DEF BeginWrite
    <3>3. WriteSucceeds => io = "writing"
      BY DEF WriteSucceeds
    <3>. QED
      BY <3>1, <3>2, <3>3, StepChain
  <2>3. Aligned(file, rec, run)
    BY <1>2, <2>1, <2>2 DEF IInv, Told
  <2>4. ~WriteFails /\ ~StopFails /\ ~StopWritten
    <3>1. SUFFICES ASSUME WriteFails \/ StopFails \/ StopWritten PROVE io' = "idle" /\ rec'.state # "on"
      OBVIOUS
    <3>2. io' = "idle"
      BY <3>1 DEF WriteFails, StopFails, StopWritten, BatchDone
    <3>3. rec' = Failed \/ rec' = [rec EXCEPT !.state = IF @ = "on" THEN "full" ELSE @, !.seq = @ + 1]
      BY <3>1 DEF WriteFails, StopFails, StopWritten
    <3>4. rec'.state # "on"
      BY ONLY <1>0, <3>3 DEF Failed, RecSet
    <3>. QED
      BY <3>2, <3>4
  <2>5. ~StrayLands
    <3>1. SUFFICES ASSUME StrayLands PROVE FALSE
      OBVIOUS
    <3>2. PICK s \in stray : guessed' = (guessed \/ Last(s.lines).run # run)
      BY <3>1 DEF StrayLands
    <3>3. Last(s.lines).run = run
      BY <3>2
    <3>. QED
      BY <1>2, <3>3 DEF IInv, Strays
  <2>6. CASE WriteSucceeds
    <3>1. io = "writing"
      BY <2>6 DEF WriteSucceeds
    <3>. PICK f \in Seq(LineSet) : f = file
      BY DEF IInv, Shape
    <3>. PICK g : g = file'
      OBVIOUS
    <3>. PICK p \in Seq(LineSet) : p = Payload /\ p # <<>>
      BY <3>1, PayloadSource DEF IInv
    <3>2. WroteAll(f, g, p, rec.guard)
      <4>1. file' = Joined(Payload, rec.guard) /\ rec.guard \in BOOLEAN /\ \A y \in 1 .. Len(p) : Whole(p[y])
        BY <1>0, <2>6, <3>1, PayloadSource DEF WriteSucceeds, RecSet, IInv
      <4>. QED
        BY <4>1, FullWrite DEF IInv
    <3>3. /\ Wrote(f, g, p) /\ ~EndsTorn(g)
          /\ \A y \in 1 .. Len(p) : y # 1 \/ (EndsTorn(f) => rec.guard) => \E i \in Places(g) : g[i] = p[y]
      BY <3>2, Zenon DEF WroteAll
    <3>4. EndsTorn(f) => rec.guard
      BY <2>3 DEF Aligned
    <3>. PICK c \in Nat : c = Len(p) /\ c \in 1 .. c /\ c \in 1 .. Len(p)
      BY SeqIs
    <3>. PICK q \in Nat : q = rec.seq
      BY <1>0
    <3>5. /\ \A y \in 1 .. Len(p) : p[y].seq = q + (y - 1) /\ p[y].run = run
          /\ \A y \in 1 .. Len(p) : p[y].kind # "stopped"
      <4>1. chain # <<>> /\ 1 \in 1 .. Len(chain) /\ rec.header \in BOOLEAN
        BY <1>0, <3>1, SeqIs DEF IInv, Shape, Writing, RecSet
      <4>. PICK ls \in Seq(LineSet) : ls = chain[1].lines /\ ls # <<>>
        BY <4>1, BatchIs DEF IInv
      <4>2. Sent(p, rec.header, ls, run, q)
        BY <4>1, PayloadIs DEF IInv
      <4>3. \A x \in 1 .. Len(ls) : ls[x].run = run /\ ls[x].kind # "stopped"
        BY <4>1, BatchIs DEF IInv, Batch, OfTurns
      <4>4. ASSUME NEW y \in 1 .. Len(p) PROVE p[y].run = run /\ p[y].kind # "stopped"
        <5>. PICK hd \in BOOLEAN : hd = rec.header
          BY <4>1
        <5>0. Sent(p, hd, ls, run, q)
          BY <4>2
        <5>1. \/ p[y].kind = "header" /\ p[y].run = run
              \/ \E x \in 1 .. Len(ls) : Copies(p[y], ls[x])
          BY ONLY <5>0, hd \in BOOLEAN, ls \in Seq(LineSet), q \in Nat, y \in 1 .. Len(p), SentIs
        <5>. QED
          BY <4>3, <5>1 DEF Copies
      <4>5. \A y \in 1 .. Len(p) : p[y].seq = q + (y - 1)
        BY <4>2 DEF Sent
      <4>. QED
        BY <4>4, <4>5
    <3>6. rec'.seq = q + c /\ ~rec'.header /\ ~rec'.guard
      <4>1. rec' = [rec EXCEPT !.header = FALSE, !.guard = FALSE, !.seq = rec.seq + Len(Payload),
                               !.size = rec.size + Len(Payload)]
        BY <2>6 DEF WriteSucceeds
      <4>. QED
        BY <1>0, <4>1 DEF RecSet
    <3>7. PICK i \in Places(g) : g[i] = p[c]
      BY <3>3, <3>4
    <3>8. g[i].seq = rec'.seq - 1 /\ g[i].run = run
      <4>1. g[i].seq = q + (c - 1) /\ g[i].run = run
        BY <3>5, <3>7
      <4>2. q + (c - 1) = (q + c) - 1
        BY ONLY q \in Nat, c \in Nat
      <4>. QED
        BY <3>6, <4>1, <4>2
    <3>9. ASSUME NEW j \in Places(g) PROVE g[j].seq < rec'.seq /\ (g[j].kind = "stopped" => g[j].run < run)
      <4>1. CASE j \in Places(f)
        <5>1. g[j] = f[j] /\ f[j].seq \in Nat
          BY <3>3, <4>1, PlacesAre, LineIs DEF Wrote
        <5>2. f[j].seq < q /\ (f[j].kind = "stopped" => f[j].run < run)
          BY <2>3, <4>1 DEF Aligned
        <5>3. f[j].seq < q + c
          BY <5>1, <5>2
        <5>. QED
          BY <3>6, <5>1, <5>2, <5>3
      <4>2. ASSUME NEW y \in 1 .. Len(p), g[j] = p[y] PROVE g[j].seq < rec'.seq /\ g[j].kind # "stopped"
        <5>1. g[j].seq = q + (y - 1) /\ g[j].kind # "stopped"
          BY <3>5, <4>2
        <5>2. q + (y - 1) < q + c
          OBVIOUS
        <5>. QED
          BY <3>6, <5>1, <5>2
      <4>. QED
        BY <3>3, <4>1, <4>2 DEF Wrote
    <3>. QED
      BY <1>2, <3>3, <3>6, <3>7, <3>8, <3>9 DEF Aligned
  <2>7. CASE ~WriteSucceeds
    <3>1. file' = file
      BY <1>1, <2>4, <2>5, <2>7, StepFileMoves DEF FileMoves
    <3>2. rec'.seq = rec.seq /\ rec'.guard = rec.guard /\ rec'.header = rec.header
      BY <1>0, <1>1, <1>4, <2>4, <2>7, StepRec DEF Failed, RecSet
    <3>. QED
      BY <1>2, <2>3, <3>1, <3>2 DEF Aligned
  <2>. QED
    BY <2>6, <2>7
<1>. QED
  BY <1>3, <1>4

LEMMA ToldKept ==
    ASSUME IInv, Next
    PROVE  Told'
<1>1. SUFFICES ASSUME ~guessed' PROVE Told'
  BY DEF Told
<1>2. ~guessed
  BY <1>1, StepGuessed
<1>0. rec \in RecSet /\ rec' \in RecSet /\ run \in Nat
  BY StepRec DEF IInv, Shape
<1>3. /\ rec.tail => Ahead(file, run, rec.turns, mem)
      /\ ~rec.tail => rec.header /\ rec.seq = 0 /\ \A i \in Places(file) : file[i].run < run
      /\ phase = "down" => \A s \in stray : Last(s.lines).run = run =>
            Truth(file \o s.lines) /\ (EndsTorn(file) => s.guard) /\ rec.tail
  BY <1>2 DEF IInv, Told
<1>4. Truth(file')
  BY <1>1, <1>2, TruthKept
<1>5. rec'.tail => Ahead(file', run', rec'.turns, mem')
  BY <1>1, <1>2, AheadKept
<1>6. phase' # "down" /\ rec'.tail /\ (rec'.state = "on" \/ io' # "idle") => Aligned(file', rec', run')
  BY <1>1, <1>2, AlignedKept
\* Before the file is read, its lines are of earlier processes.
<1>7. ASSUME ~rec'.tail
      PROVE  rec'.header /\ rec'.seq = 0 /\ \A i \in Places(file') : file'[i].run < run'
  <2>1. CASE Restart
    <3>1. rec' = Fresh /\ run' = run + 1 /\ file' = file
      BY <2>1 DEF Restart
    <3>2. ASSUME NEW i \in Places(file) PROVE file[i].run < run + 1
      <4>1. Known(file[i], mem, run)
        BY DEF IInv, Lines
      <4>2. file[i].run \in Nat
        BY PlacesAre, LineIs DEF IInv, Shape
      <4>. QED
        BY <1>0, <4>1, <4>2 DEF Known
    <3>. QED
      BY <3>1, <3>2 DEF Fresh
  <2>2. CASE ~Restart
    <3>1. ~rec.tail
      BY <1>0, <1>7, <2>2, StepRec DEF Failed, RecSet
    <3>2. ~WriteSucceeds /\ ~StopWritten
      BY <3>1 DEF IInv, Writing, WriteSucceeds, StopWritten
    <3>3. rec'.header = rec.header /\ rec'.seq = rec.seq
      BY <1>0, <1>7, <2>2, <3>1, <3>2, StepRec DEF Failed, RecSet
    <3>4. run' = run
      BY <2>2, StepRun
    <3>5. \A i \in Places(file') : i \in Places(file) /\ file'[i] = file[i]
      BY <1>1, <1>2, <3>1, NewLine
    <3>. QED
      BY <1>3, <3>1, <3>3, <3>4, <3>5
  <2>. QED
    BY <2>1, <2>2
\* What the last process gave up.
<1>8. ASSUME phase' = "down", NEW s \in stray', Last(s.lines).run = run'
      PROVE  Truth(file' \o s.lines) /\ (EndsTorn(file') => s.guard) /\ rec'.tail
  <2>1. ~Restart /\ run' = run
    <3>1. ~Restart
      BY <1>8 DEF Restart
    <3>. QED
      BY <3>1, StepRun
  <2>2. CASE phase = "down"
    <3>1. UNCHANGED rec
      BY <2>1, <2>2, WhenDown
    <3>2. s \in stray
      <4>1. ~Leave
        BY <2>2 DEF Leave
      <4>. QED
        BY <4>1, StepStray
    <3>3. CASE file' = file
      BY <1>3, <1>8, <2>1, <2>2, <3>1, <3>2, <3>3
    <3>4. CASE StrayLands
      <4>1. PICK t \in stray : stray' = stray \ {t} /\ guessed' = (guessed \/ Last(t.lines).run # run)
        BY <3>4 DEF StrayLands
      <4>2. Last(t.lines).run = run /\ s # t
        BY <1>1, <1>8, <4>1
      <4>. QED
        BY <1>8, <2>1, <3>2, <4>2 DEF IInv, Strays
    <3>5. ~WriteSucceeds /\ ~WriteFails /\ ~StopWritten /\ ~StopFails /\ ~Leave /\ ~Crash
      BY <2>2 DEF WriteSucceeds, WriteFails, StopWritten, StopFails, Leave, Crash, Running
    <3>. QED
      BY <3>3, <3>4, <3>5, StepFileMoves DEF FileMoves
  <2>3. CASE phase # "down"
    <3>1. \A t \in stray : Last(t.lines).run # run
      BY <2>3 DEF IInv, Strays
    <3>2. s \notin stray
      BY <1>8, <2>1, <3>1
    <3>3. Leave /\ retired /\ io # "idle" /\ s = [lines |-> InFlight, guard |-> Guarded]
      BY <3>2, StepStray
    <3>4. file' = file /\ rec' = rec
      BY <3>3 DEF Leave, Gone
    <3>5. s.lines = InFlight /\ s.guard = Guarded
      BY <3>3
    <3>6. Truth(file \o InFlight) /\ (EndsTorn(file) => Guarded) /\ rec.tail
      BY <1>2, <3>3, InFlightTruth
    <3>. QED
      BY <3>4, <3>5, <3>6
  <2>. QED
    BY <2>2, <2>3
<1>. QED
  BY <1>4, <1>5, <1>6, <1>7, <1>8 DEF Told

-----------------------------------------------------------------------------
(* What was forgotten stays away, while one process at a time has the store *)

LEMMA ForgottenKept ==
    ASSUME ~Elsewhere, IInv, Forgotten, Next
    PROVE  Forgotten'
<1>. PICK st \in StoreSet : st = store
  BY DEF IInv, Shape
<1>0. /\ commit # Idle => commit.store = st /\ commit.suppressed = suppressed
      /\ forgotten \subseteq suppressed
      /\ \A key \in Key : st[key] # None => st[key].fact \notin suppressed /\ KeyOf[st[key].fact] = key
  BY DEF Forgotten, IInv, Ledger, Keyed
<1>1. ASSUME UNCHANGED <<store, suppressed, forgotten>>, commit' = commit \/ commit' = Idle
      PROVE  Forgotten'
  BY <1>0, <1>1 DEF Forgotten
<1>2. CASE CommitReads
  <2>1. commit'.store = st /\ commit'.suppressed = suppressed
    BY <1>2 DEF CommitReads
  <2>2. UNCHANGED <<store, suppressed, forgotten>>
    BY <1>2 DEF CommitReads, remembered
  <2>. QED
    BY <1>0, <2>1, <2>2 DEF Forgotten
<1>3. CASE Record \/ Turn \/ Life \/ (\E f \in Fact : Stage(f) \/ SourceMoves(f))
  <2>1. UNCHANGED <<store, suppressed, forgotten>>
    <3>1. Record \/ (\E f \in Fact : Stage(f)) => UNCHANGED <<store, suppressed, forgotten>>
      BY DEF Record, SkipBatch, BeginWrite, OpenFails, WriteSucceeds, WriteFails,
         StopWritten, StopFails, Note, Stage, memory, remembered, unwritten
    <3>3. Turn => UNCHANGED <<store, suppressed, forgotten>>
      BY Zenon DEF Turn, Emit, RecordFails, Begin, BarrierPasses, BarrierTimesOut, StreamEnds, Seal,
         Catalogue, Unwind, memory, remembered
    <3>4. Life => UNCHANGED <<store, suppressed, forgotten>>
      BY DEF Life, TailLands, StrayLands, Opens, Close, Drained, Leave, Crash, Gone, Restart, memory,
         remembered
    <3>2. (\E f \in Fact : SourceMoves(f)) => UNCHANGED <<store, suppressed, forgotten>>
      BY DEF SourceMoves
    <3>. QED
      BY <1>3, <3>1, <3>2, <3>3, <3>4
  <2>2. Record \/ (\E f \in Fact : Stage(f) \/ SourceMoves(f)) => commit' = commit
    BY DEF Record, SkipBatch, BeginWrite, OpenFails, WriteSucceeds, WriteFails,
       StopWritten, StopFails, Note, Stage, SourceMoves, memory, unwritten
  <2>3. Turn => commit' = commit
    BY Zenon DEF Turn, Emit, RecordFails, Begin, BarrierPasses, BarrierTimesOut, StreamEnds, Seal,
       Catalogue, Unwind, memory
  <2>4. Life => commit' = commit \/ commit' = Idle
    BY DEF Life, TailLands, StrayLands, Opens, Close, Drained, Leave, Crash, Gone, Restart, memory
  <2>. QED
    BY <1>1, <1>3, <2>1, <2>2, <2>3, <2>4
<1>4. ASSUME NEW key \in Key, NEW f \in Fact, st[key] # None, f = st[key].fact,
             commit' = Idle, suppressed' = suppressed \cup {f}, forgotten' \subseteq forgotten \cup {f},
             NEW d, store' = [st EXCEPT ![key] = d],
             d = None \/ (d.fact \notin suppressed /\ d.fact # f)
      PROVE  Forgotten'
  <2>1. forgotten' \subseteq suppressed'
    BY <1>0, <1>4
  <2>2. ASSUME NEW other \in Key, store'[other] # None PROVE store'[other].fact \notin suppressed'
    <3>1. CASE other = key
      BY <1>4, <2>2, <3>1 DEF StoreSet
    <3>2. CASE other # key
      <4>1. store'[other] = st[other]
        BY <1>4, <3>2 DEF StoreSet
      <4>2. st[other].fact \notin suppressed /\ KeyOf[st[other].fact] = other
        BY <1>0, <2>2, <4>1
      <4>3. st[other].fact # f
        BY <1>0, <1>4, <3>2, <4>2
      <4>. QED
        BY <1>4, <4>1, <4>2, <4>3
    <3>. QED
      BY <3>1, <3>2
  <2>. QED
    BY <1>4, <2>1, <2>2 DEF Forgotten
<1>5. CASE \E key \in Key : Forget(key)
  <2>1. PICK key \in Key : Forget(key)
    BY <1>5
  <2>2. st[key] # None /\ st[key] \in EntrySet \cup {None}
    BY <2>1 DEF Forget, StoreSet
  <2>. PICK f \in Fact : f = st[key].fact
    BY <2>2 DEF EntrySet
  <2>3. /\ store' = [st EXCEPT ![key] = None] /\ suppressed' = suppressed \cup {f}
        /\ forgotten' = forgotten \cup {f} /\ commit' = Idle
    BY <2>1 DEF Forget, MayCommand
  <2>. QED
    BY <1>4, <2>2, <2>3
<1>6. CASE \E key \in Key, g \in Fact : Edit(key, g)
  <2>1. PICK key \in Key, g \in Fact : Edit(key, g)
    BY <1>6
  <2>2. st[key] # None /\ st[key] \in EntrySet \cup {None}
    BY <2>1 DEF Edit, StoreSet
  <2>. PICK e \in EntrySet : e = st[key]
    BY <2>2
  <2>. PICK f \in Fact : f = e.fact
    BY DEF EntrySet
  <2>. PICK d : d = [e EXCEPT !.fact = g, !.edited = TRUE]
    OBVIOUS
  <2>3. d.fact = g
    BY DEF EntrySet
  <2>4. /\ store' = [st EXCEPT ![key] = d] /\ suppressed' = suppressed \cup {f}
        /\ forgotten' \subseteq forgotten \cup {f} /\ commit' = Idle
        /\ g \notin suppressed /\ g # f
    BY <2>1 DEF Edit, MayCommand
  <2>5. d = None \/ (d.fact \notin suppressed /\ d.fact # f)
    BY <2>3, <2>4
  <2>6. st[key] # None /\ f = st[key].fact
    BY <2>2
  <2>. HIDE DEF Forgotten
  <2>. QED
    BY ONLY <1>4, <2>4, <2>5, <2>6
\* A commit writes over what it read, which is still what is there.
<1>7. CASE CommitWrites
  <2>. PICK k \in 1 .. Len(mem) : k = commit.of
    BY <1>7, WritesIs DEF IInv
  <2>. PICK F \in SUBSET Fact : F = mem[k].facts
    <3>1. mem[k] \in MemSet
      BY SeqIs DEF IInv, Shape
    <3>. QED
      BY <3>1, MemIs
  <2>1. /\ commit # Idle /\ commit' = Idle /\ forgotten' = forgotten
        /\ \/ UNCHANGED <<store, suppressed>>
           \/ ~Refused(F) /\ store' = Committed(k, F) /\ suppressed' = commit.suppressed
    BY <1>7 DEF CommitWrites
  <2>2. CASE UNCHANGED <<store, suppressed>>
    BY <1>1, <2>1, <2>2
  <2>3. CASE ~Refused(F) /\ store' = Committed(k, F) /\ suppressed' = commit.suppressed
    <3>1. suppressed' = suppressed /\ F \cap suppressed = {}
      BY <1>0, <2>1, <2>3 DEF Refused
    <3>2. \A key \in Key : \/ store'[key] = None
                           \/ store'[key] = commit.store[key]
                           \/ store'[key].fact \in F
      BY <2>3, CommittedIs DEF IInv
    <3>3. \A key \in Key : store'[key] # None => store'[key].fact \notin suppressed
      BY <1>0, <2>1, <3>1, <3>2
    <3>. QED
      BY <1>0, <2>1, <3>1, <3>3 DEF Forgotten
  <2>. QED
    BY <2>1, <2>2, <2>3
<1>. QED
  BY <1>1, <1>2, <1>3, <1>5, <1>6, <1>7 DEF Next, Memory

-----------------------------------------------------------------------------
(* The invariant *)

LEMMA Initially ==
    ASSUME Init
    PROVE  IInv /\ Forgotten
<1>1. Places(<<>>) = {} /\ Len(<<>>) = 0 /\ ~EndsTorn(<<>>)
  BY DEF Places, EndsTorn
<1>2. left \in LeftSet
  BY BudgetAssumption DEF Init, LeftSet
<1>3. [key \in Key |-> None] \in StoreSet /\ \A key \in Key : [k \in Key |-> None][key] = None
  BY DEF StoreSet
<1>4. Idle \in CommitSet /\ Idle.store = [key \in Key |-> None] /\ NoTurn \in TurnSet /\ Fresh \in RecSet
  BY <1>3 DEF Idle, CommitSet, NoTurn, TurnSet, Ats, Hows, Fresh, RecSet
<1>5. Shape
  <2>1. /\ file \in Seq(LineSet) /\ run \in Nat \ {0} /\ phase \in Phases /\ rec \in RecSet
        /\ pending \in Seq(LineSet) /\ chain \in Seq(BatchSet) /\ mem \in Seq(MemSet) /\ commits \in Seq(Nat)
    BY <1>4 DEF Init, Phases
  <2>2. /\ io \in {"idle", "writing", "stopping"} /\ detached \in BOOLEAN /\ waits \in Nat
        /\ stray \subseteq StraySet /\ turn \in TurnSet /\ commit \in CommitSet /\ store \in StoreSet
        /\ suppressed \subseteq Fact /\ sound \subseteq Fact /\ forgotten \subseteq Fact
        /\ catalogue \subseteq CatSet /\ retired \in BOOLEAN /\ guessed \in BOOLEAN /\ owed \subseteq Nat
    BY <1>3, <1>4 DEF Init
  <2>. QED
    BY <1>2, <2>1, <2>2 DEF Shape
<1>6. Ledger
  BY <1>1, <1>3, <1>4 DEF Init, Ledger, Book, Keyed
<1>7. Numbers /\ Writing /\ Sending /\ Down
  BY <1>1 DEF Init, Numbers, Numbered, Writing, Sending, Down, Fresh, NoTurn
<1>8. Lines /\ Ends /\ Strays /\ Order /\ Swallow
  BY <1>1 DEF Init, Lines, Ends, Strays, Order, Upcoming, Swallow
<1>9. Opened
  BY <1>1 DEF Init, Opened, NoTurn, Live
<1>10. Earned
  BY <1>1, <1>3, <1>4 DEF Init, Earned, Rooted
<1>11. Awaited
  BY <1>1 DEF Init, Awaited, NoTurn
<1>12. Promised
  BY <1>1 DEF Init, Promised
<1>13. Told
  BY <1>1 DEF Init, Told, Truth, Fresh
<1>14. Forgotten
  BY <1>3 DEF Init, Forgotten
<1>. QED
  BY <1>5, <1>6, <1>7, <1>8, <1>9, <1>10, <1>11, <1>12, <1>13, <1>14 DEF IInv

LEMMA Stepwise ==
    ASSUME IInv, [Next]_vars
    PROVE  IInv'
<1>1. CASE Next
  BY <1>1, ShapeKept, LedgerKept, NumbersKept, WritingKept, SendingKept, DownKept, LinesKept, EndsKept,
     StraysKept, OrderKept, SwallowKept, OpenedKept, EarnedKept, AwaitedKept, PromisedKept, ToldKept DEF IInv
<1>2. CASE UNCHANGED vars
  <2>. USE <1>2 DEF vars, recorder, memory, remembered, life, IInv
  <2>1. Shape' /\ Ledger' /\ Numbers'
    BY DEF Shape, Ledger, Numbers
  <2>2. Writing' /\ Sending' /\ Down'
    BY DEF Writing, Sending, Down, Line
  <2>3. Lines' /\ Ends' /\ Strays'
    BY DEF Lines, Ends, Strays
  <2>4. Order' /\ Swallow'
    BY DEF Order, Upcoming, Swallow
  <2>7. Opened'
    <3>1. Upcoming' = Upcoming /\ Live' = Live
      BY DEF Upcoming, Live
    <3>. QED
      BY <3>1 DEF Opened
  <2>5. Earned' /\ Awaited'
    BY DEF Earned, Awaited
  <2>6. Promised' /\ Told'
    BY DEF Promised, Mine, Watched, Settled, Told
  <2>. QED
    BY <2>1, <2>2, <2>3, <2>4, <2>5, <2>6, <2>7
<1>. QED
  BY <1>1, <1>2

LEMMA Kept ==
    ASSUME ~Elsewhere, IInv, Forgotten, [Next]_vars
    PROVE  Forgotten'
<1>1. CASE UNCHANGED vars
  BY <1>1 DEF Forgotten, vars, memory, remembered
<1>. QED
  BY <1>1, ForgottenKept

\* What the model is about is always so: lines that name their turns, turns
\* that are committed once, in the order in which they were accepted, ends
\* that are reported, and the numbers of records and turns going on (append(),
\* end(), seal(), settle() and close() of the recorder and of the controller).
THEOREM Invariance == Spec => []IInv
<1>1. Init => IInv
  BY Initially
<1>2. IInv /\ [Next]_vars => IInv'
  BY Stepwise
<1>. QED
  BY <1>1, <1>2, PTL DEF Spec

-----------------------------------------------------------------------------
(* What it implies *)

LEMMA Types ==
    ASSUME IInv
    PROVE  TypeOK
<1>. PICK m \in Seq(MemSet), c \in Seq(Nat) : m = mem /\ c = commits
  BY DEF IInv, Shape
<1>1. phase \in Phases /\ rec.state \in {"on", "full", "failed"} /\ io \in {"idle", "writing", "stopping"}
      /\ turn.at \in Ats /\ run \in Nat \ {0}
  BY DEF IInv, Shape, RecSet, TurnSet
<1>2. Sends = 1 .. Len(m) /\ DOMAIN c = 1 .. Len(c) /\ (c # <<>> => Head(c) = c[1])
  BY SeqIs DEF Sends
<1>3. \A k \in Sends : m[k].state \in States
  <2>1. SUFFICES ASSUME NEW k \in 1 .. Len(m) PROVE m[k].state \in States
    BY <1>2
  <2>2. m[k] \in MemSet
    BY SeqIs
  <2>. QED
    BY <2>2 DEF MemSet
<1>4. /\ io # "idle" => chain # <<>>
      /\ waits <= Len(chain) /\ (waits # 0 => phase = "flushing")
      /\ pending # <<>> => turn.at = "streaming"
      /\ commit # Idle => c # <<>> /\ commit.of = Head(c)
  BY <1>2 DEF IInv, Writing, Sending, Ledger
<1>5. IsInjective(c) /\ ToSet(c) = {k \in Sends : m[k].state = "committing"}
  <2>1. /\ \A i, j \in 1 .. Len(c) : c[i] = c[j] => i = j
        /\ \A i \in 1 .. Len(c) : c[i] \in 1 .. Len(m) /\ m[c[i]].state = "committing"
        /\ \A k \in 1 .. Len(m) : m[k].state = "committing" => \E i \in 1 .. Len(c) : c[i] = k
    BY DEF IInv, Ledger, Book
  <2>2. IsInjective(c)
    BY <1>2, <2>1 DEF IsInjective
  <2>3. \A x : x \in ToSet(c) <=> \E i \in 1 .. Len(c) : x = c[i]
    BY <1>2, Zenon DEF ToSet
  <2>4. ToSet(c) = {k \in Sends : m[k].state = "committing"}
    BY <1>2, <2>1, <2>3
  <2>. QED
    BY <2>2, <2>4
<1>6. \A key \in Key : store[key] # None => KeyOf[store[key].fact] = key
  BY DEF IInv, Ledger, Keyed
<1>7. stray # {} => run > 1 \/ phase = "down"
  <2>1. SUFFICES ASSUME NEW s \in stray, phase # "down" PROVE run > 1
    OBVIOUS
  <2>2. Given(s) /\ Last(s.lines).run # run /\ s.lines \in Seq(LineSet)
    BY <2>1 DEF IInv, Strays, Shape, StraySet
  <2>3. PICK x \in 1 .. Len(s.lines) : s.lines[x] = Last(s.lines) /\ Last(s.lines) \in LineSet
    BY <2>2, SeqIs DEF Given
  <2>. PICK r \in Nat : r = Last(s.lines).run
    BY <2>3 DEF LineSet
  <2>4. r # 0 /\ r # run /\ r <= run
    BY <2>2, <2>3 DEF Given, IInv, Lines, Known
  <2>5. run \in Nat
    BY <1>1
  <2>. QED
    BY ONLY r \in Nat, <2>4, <2>5
<1>. QED
  BY <1>1, <1>3, <1>4, <1>5, <1>6, <1>7 DEF TypeOK, Phases, Ats, States

LEMMA Tells ==
    ASSUME IInv
    PROVE  FileTellsTruth
<1>1. SUFFICES ASSUME ~guessed PROVE FileTellsTruth
  BY DEF FileTellsTruth
<1>2. Truth(file) /\ Records = Places(file)
  BY <1>1 DEF IInv, Told, Records, Places
<1>3. turn.at = "streaming" /\ rec.state = "on" => Recorded({"input", "wake"}, turn.of)
  BY <1>2 DEF IInv, Opened, Found, Opening, Recorded
<1>. QED
  BY <1>2, <1>3 DEF FileTellsTruth, Truth, Traced, Opening

LEMMA EarnsIt ==
    ASSUME IInv, Forgotten
    PROVE  MemoryIsEarned
<1>0. Records = Places(file)
  BY DEF Records, Places
<1>1. ASSUME NEW key \in Key, store[key] # None
      PROVE  /\ store[key].fact \notin forgotten
             /\ \E i \in Records : /\ file[i].kind = "end" /\ file[i].how = "ok" /\ file[i].of = store[key].of
                                   /\ file[i].turn = store[key].turn /\ file[i].seq = store[key].seq
  <2>1. store[key].fact \notin forgotten
    BY <1>1 DEF Forgotten
  <2>2. EndIn(file, store[key].of, store[key].turn, store[key].seq)
    BY <1>1 DEF IInv, Earned, Rooted
  <2>. QED
    BY <1>0, <2>1, <2>2, Zenon DEF EndIn
<1>2. ASSUME phase \in {"committing", "down"}, rec.state # "failed", NEW k \in owed,
             Recorded({"end"}, k), mem[k].facts # {}
      PROVE  mem[k].state \in {"committing", "done"}
  <2>1. Found(file, {"end"}, k) /\ Mine(k)
    BY <1>0, <1>2 DEF Recorded, Found, IInv, Promised
  <2>2. CASE phase = "down"
    BY <1>2, <2>1, <2>2 DEF IInv, Promised
  <2>3. CASE phase = "committing"
    <3>1. ~(io = "stopping" /\ chain[1].closes = k)
      <4>1. SUFFICES ASSUME io = "stopping", chain[1].closes = k PROVE FALSE
        OBVIOUS
      <4>2. rec.state = "on" /\ chain # <<>>
        BY <1>2, <4>1 DEF IInv, Writing, Shape, RecSet
      <4>3. 1 \in 1 .. Len(chain)
        BY <4>2, SeqIs DEF IInv, Shape
      <4>4. 1 <= waits /\ waits = 0
        BY <1>2, <2>3, <4>1, <4>2, <4>3 DEF IInv, Promised, Writing
      <4>. QED
        BY <4>4
    <3>2. Settled(k) /\ Watched(k) /\ mem[k].run = run /\ k \in 1 .. Len(mem)
      BY <1>2, <2>1, <2>3, <3>1 DEF Settled, Watched, Mine
    <3>. QED
      BY <1>2, <2>3, <3>2 DEF IInv, Promised
  <2>. QED
    BY <1>2, <2>2, <2>3
<1>. QED
  BY <1>1, <1>2 DEF MemoryIsEarned

\* The records of one turn, and what can be between them.
LEMMA Between ==
    ASSUME NEW a \in LineSet, NEW b \in LineSet, a.of # 0, b.of # 0, InOrder(a, b)
    PROVE  /\ a.of <= b.of /\ a.turn <= b.turn /\ (a.turn = b.turn => a.of = b.of)
           /\ a.of = b.of => Rank[a.kind] <= Rank[b.kind] /\ (Rank[a.kind] = Rank[b.kind] => a.kind = "event")
<1>1. a.of \in Nat /\ b.of \in Nat /\ a.turn \in Nat /\ b.turn \in Nat
  BY LineIs
<1>2. \/ a.of < b.of /\ a.turn < b.turn
      \/ /\ a.of = b.of /\ a.turn = b.turn
         /\ Rank[a.kind] <= Rank[b.kind]
         /\ Rank[a.kind] = Rank[b.kind] => a.kind = "event"
  BY DEF InOrder
<1>. QED
  BY <1>1, <1>2

LEMMA Ranks == Rank["input"] = 1 /\ Rank["wake"] = 1 /\ Rank["event"] = 2 /\ Rank["end"] = 3
BY DEF Rank

\* A checkpoint whose prompt is in the file.
LEMMA PromptIs ==
    ASSUME IInv, NEW c \in catalogue, NEW p \in Records, file[p].of = c.of, file[p].kind = "input"
    PROVE  /\ p \in Places(file) /\ p \in Nat /\ p # 0 /\ file[p] \in LineSet
           /\ c.of # 0 /\ c.of \in 1 .. Len(mem) /\ file[p].turn = c.turn /\ c.turn # 0
           /\ file[p].run = mem[c.of].run
<1>1. p \in Places(file)
  BY DEF Records, Places
<1>. PICK f \in Seq(LineSet) : f = file
  BY DEF IInv, Shape
<1>2. p \in 1 .. Len(f) /\ f[p] \in LineSet
  BY <1>1, PlacesAre
<1>3. c.of \in 1 .. Len(mem) /\ c.turn = mem[c.of].turn
  BY DEF IInv, Sending
<1>4. c.of # 0
  BY <1>3
<1>5. Known(file[p], mem, run)
  BY <1>1 DEF IInv, Lines
<1>. QED
  BY <1>1, <1>2, <1>3, <1>4, <1>5 DEF Known

\* Two openings of one turn number: then there was a guess, or they are one.
LEMMA OneOpening ==
    ASSUME IInv, ~guessed, NEW p \in Places(file), NEW q \in Places(file), file[p].kind = "input",
           file[q].kind = "input", file[p].turn = file[q].turn
    PROVE  p = q
<1>. PICK f \in Seq(LineSet) : f = file
  BY DEF IInv, Shape
<1>1. f[p] \in LineSet /\ f[q] \in LineSet /\ p \in Nat /\ q \in Nat
  BY PlacesAre
<1>2. f[p].of # 0 /\ f[q].of # 0
  BY DEF IInv, Lines, Known, OfTurns
<1>3. \A i, j \in Places(f) : i < j => InOrder(f[i], f[j])
  BY DEF IInv, Told, Truth
<1>4. ASSUME NEW i \in {p, q}, NEW j \in {p, q}, i < j PROVE FALSE
  <2>1. InOrder(f[i], f[j]) /\ f[i] \in LineSet /\ f[j] \in LineSet /\ f[i].of # 0 /\ f[j].of # 0
        /\ f[i].turn = f[j].turn /\ f[i].kind = "input" /\ f[j].kind = "input"
    BY <1>1, <1>2, <1>3, <1>4
  <2>. QED
    BY <2>1, Between
<1>. QED
  BY <1>1, <1>4

\* What rewindHistoryBoundary() reads of the trajectory for the checkpoint c.
OpeningsOf(c) == {i \in Records : file[i].kind = "input" /\ file[i].turn = c.turn}
NextAfter(c, p) ==
    {j \in Records : j > p /\ (file[j].kind \in Openings \/ (file[j].kind = "end" /\ file[j].turn = c.turn))}

LEMMA BoundaryIs ==
    ASSUME NEW c, NEW p, OpeningsOf(c) = {p}, p # 0
    PROVE  /\ Boundary(c) \in {0, p}
           /\ c.turn # 0 /\ NextAfter(c, p) # {} /\ file[Min(NextAfter(c, p))].how \in {"ok", "refusal"}
              => Boundary(c) = p
<1>1. Cardinality(OpeningsOf(c)) = 1 /\ (CHOOSE i \in OpeningsOf(c) : TRUE) = p
  BY FS_Singleton
<1>. DEFINE i == CHOOSE i \in OpeningsOf(c) : TRUE
            next == NextAfter(c, i)
<1>2. Boundary(c) = IF /\ c.turn # 0 /\ Cardinality(OpeningsOf(c)) = 1
                       /\ next # {} /\ file[Min(next)].how \in {"ok", "refusal"}
                    THEN i ELSE 0
  BY Zenon DEF Boundary, OpeningsOf, NextAfter
<1>3. i = p /\ next = NextAfter(c, p)
  BY <1>1
<1>. HIDE DEF i, next
<1>. QED
  BY <1>1, <1>2, <1>3

LEMMA Finds ==
    ASSUME IInv
    PROVE  RewindFinds
<1>1. SUFFICES ASSUME NEW c \in catalogue, Recorded({"input"}, c.of)
               PROVE  /\ Boundary(c) # 0 => file[Boundary(c)].of = c.of
                      /\ Recorded({"end"}, c.of) /\ ~guessed => Boundary(c) # 0
  BY DEF RewindFinds
<1>. PICK f \in Seq(LineSet) : f = file
  BY DEF IInv, Shape
<1>2. PICK p \in Records : f[p].of = c.of /\ f[p].kind = "input"
  BY <1>1 DEF Recorded
<1>3. /\ p \in Places(f) /\ p \in Nat /\ p # 0 /\ f[p] \in LineSet /\ p \in OpeningsOf(c)
      /\ c.of # 0 /\ c.of \in 1 .. Len(mem) /\ f[p].turn = c.turn /\ c.turn # 0
      /\ f[p].run = mem[c.of].run
  BY <1>1, <1>2, PromptIs DEF OpeningsOf
\* The prompt that is found is the one opening of its turn.
<1>4. ASSUME Boundary(c) # 0 PROVE Boundary(c) = p
  <2>1. Cardinality(OpeningsOf(c)) = 1
    BY <1>4 DEF Boundary, OpeningsOf
  <2>2. IsFiniteSet(OpeningsOf(c))
    <3>1. OpeningsOf(c) \subseteq 1 .. Len(f) /\ Len(f) \in Nat
      BY SeqIs DEF OpeningsOf, Records
    <3>2. 1 \in Int /\ Len(f) \in Int
      BY <3>1
    <3>3. IsFiniteSet(1 .. Len(f))
      BY ONLY <3>2, FS_Interval
    <3>. QED
      BY ONLY <3>1, <3>3, FS_Subset
  <2>3. OpeningsOf(c) = {p}
    BY <1>3, <2>1, <2>2, FS_Singleton
  <2>. QED
    BY <1>3, <1>4, <2>3, BoundaryIs
<1>5. ASSUME Recorded({"end"}, c.of), ~guessed PROVE Boundary(c) # 0
  <2>1. OpeningsOf(c) = {p}
    <3>1. SUFFICES ASSUME NEW q \in OpeningsOf(c) PROVE q = p
      BY <1>3
    <3>2. q \in Places(f) /\ f[q].kind = "input" /\ f[q].turn = f[p].turn
      BY <1>3, <3>1 DEF OpeningsOf, Records, Places
    <3>. QED
      BY <1>2, <1>3, <1>5, <3>2, OneOpening
  <2>2. \A i, j \in Places(f) : i < j => InOrder(f[i], f[j])
    BY <1>5 DEF IInv, Told, Truth
  <2>3. PICK e \in Places(f) : f[e].of = c.of /\ f[e].kind = "end"
    BY <1>5 DEF Recorded, Records, Places
  <2>4. /\ f[e] \in LineSet /\ e \in Nat /\ Known(f[e], mem, run) /\ EndKnown(f[e], turn, mem, catalogue)
    BY PlacesAre DEF IInv, Lines, Ends
  <2>5. f[e].turn = c.turn /\ f[e].run = mem[c.of].run
    BY <1>3, <2>3, <2>4, PromptIs DEF Known, IInv, Sending
  <2>6. e > p
    <3>1. e # p
      BY <1>2, <2>3
    <3>2. ~(e < p)
      <4>1. SUFFICES ASSUME e < p PROVE FALSE
        OBVIOUS
      <4>2. InOrder(f[e], f[p])
        BY <1>3, <2>2, <4>1
      <4>3. Rank[f[e].kind] <= Rank[f[p].kind]
        BY <1>2, <1>3, <2>3, <2>4, <4>2, Between
      <4>. QED
        BY <1>2, <2>3, <4>3, Ranks
    <3>. QED
      BY <1>3, <2>4, <3>1, <3>2
  <2>. PICK N : N = NextAfter(c, p)
    OBVIOUS
  <2>7. e \in N /\ N \in SUBSET Nat /\ N \subseteq Places(f)
    <3>1. N \subseteq Places(f)
      BY DEF NextAfter, Records, Places
    <3>2. e \in N
      BY <2>3, <2>5, <2>6 DEF NextAfter, Records, Places
    <3>. QED
      BY <3>1, <3>2, PlacesAre
  <2>12. Min(N) \in N /\ \A y \in N : Min(N) <= y
    BY ONLY <2>7, MinIs
  <2>. PICK j \in N : j = Min(N) /\ j <= e
    BY ONLY <2>7, <2>12
  <2>8. /\ j \in Places(f) /\ j \in Nat /\ j > p /\ f[j] \in LineSet
        /\ f[j].kind \in Openings \/ (f[j].kind = "end" /\ f[j].turn = c.turn)
    BY <2>7, PlacesAre DEF NextAfter
\* Nothing of the sort is between the prompt and the end of its turn.
  <2>9. j = e
    <3>1. SUFFICES ASSUME j < e PROVE FALSE
      BY <2>4, <2>8
    <3>2. InOrder(f[p], f[j]) /\ InOrder(f[j], f[e])
      BY <1>3, <2>2, <2>8, <3>1
    <3>3. f[j].kind # "header"
      <4>1. SUFFICES ASSUME f[j].kind = "header" PROVE FALSE
        OBVIOUS
      <4>2. f[p].run < f[j].run /\ f[j].run <= f[e].run /\ f[p].run = f[e].run
        BY <1>3, <2>5, <3>2, <4>1 DEF InOrder
      <4>3. f[p].run \in Nat /\ f[j].run \in Nat
        BY <1>3, <2>8, LineIs
      <4>. QED
        BY <4>2, <4>3
    <3>4. f[j].kind \in {"input", "wake", "end"}
      BY <2>8, <3>3 DEF Openings
    <3>5. f[j].of # 0
      BY <2>8, <3>4 DEF IInv, Lines, Known, OfTurns
    <3>6. /\ c.of <= f[j].of /\ f[j].of <= c.of
          /\ f[j].of = c.of => (Rank[f[p].kind] = Rank[f[j].kind] => f[p].kind = "event")
          /\ f[j].of = c.of => (Rank[f[j].kind] = Rank[f[e].kind] => f[j].kind = "event")
      BY <1>2, <1>3, <2>3, <2>4, <2>8, <3>2, <3>5, Between
    <3>7. f[j].of = c.of
      <4>1. f[j].of \in Nat /\ c.of \in Nat
        BY <1>2, <1>3, <2>8, LineIs
      <4>. QED
        BY <3>6, <4>1
    <3>. QED
      BY <1>2, <2>3, <3>4, <3>6, <3>7, Ranks
  <2>10. f[Min(N)].how \in {"ok", "refusal"}
    BY <2>3, <2>4, <2>9 DEF EndKnown
  <2>11. Boundary(c) = p
    BY <1>3, <2>1, <2>7, <2>10, BoundaryIs
  <2>. QED
    BY <1>3, <2>11
<1>. QED
  BY <1>2, <1>4, <1>5

-----------------------------------------------------------------------------
(* The theorems *)

\* The types, and what ties the parts together: an operation of the recorder in
\* flight has a batch, close() waits for no more batches than there are, and the
\* controller commits exactly the turns it has accepted, once each.
THEOREM TypeCorrect == Spec => []TypeOK
BY Types, Invariance, PTL

\* trajectory.jsonl is what happened, in order and without a gap, whatever
\* crashes, torn writes and processes there were, unless a process had to number
\* its records without having seen the file (tailReading(), prepare(), append()).
THEOREM FileTellsTruthHolds == Spec => []FileTellsTruth
BY Tells, Invariance, PTL

\* A checkpoint is never shown at a prompt that is not its own, and is found
\* whenever its turn was recorded to its end (rewindHistoryBoundary()).
THEOREM RewindFindsHolds == Spec => []RewindFinds
BY Finds, Invariance, PTL

\* While one process at a time has the project's memory, what is remembered
\* names the end of a successful turn, is not what the user forgot, and a
\* shutdown loses no turn that ended (settle(), commitGeneratedMemory(), close()).
THEOREM MemoryIsEarnedHolds == ~Elsewhere => (Spec => []MemoryIsEarned)
<1>. SUFFICES ASSUME ~Elsewhere PROVE Spec => []MemoryIsEarned
  OBVIOUS
<1>1. Init => IInv /\ Forgotten
  BY Initially
<1>2. IInv /\ Forgotten /\ [Next]_vars => IInv' /\ Forgotten'
  BY Stepwise, Kept
<1>3. IInv /\ Forgotten => MemoryIsEarned
  BY EarnsIt
<1>. QED
  BY <1>1, <1>2, <1>3, PTL DEF Spec
=============================================================================
