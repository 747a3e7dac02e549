----------------------- MODULE IntegrationJournalProofs -----------------------
(***************************************************************************)
(* Proofs about IntegrationJournal, for any routings, routes and catalogs  *)
(* and any number of stops, failing writes and edits.                      *)
(*                                                                         *)
(* The argument is about what a disk says, not about what an operation     *)
(* does next.  Sound(d) is what has to hold of a disk whenever an          *)
(* operation may begin, or may have been stopped.  Each operation is shown *)
(* once, where it begins, to lead through sound disks only, whatever       *)
(* number of its writes is done (Prepared); that its writes and restores   *)
(* walk along these disks is one lemma about all operations.               *)
(***************************************************************************)
EXTENDS IntegrationJournal, SequenceTheorems, TLAPS

Files == {"config", "catalog", "primary", "recovery", "cache"}

Names == {"install", "deactivate", "activate", "refresh", "uninstall"}

-----------------------------------------------------------------------------
(* What a disk says.                                                        *)

Copies(d) == {d.primary, d.recovery} \ {Missing}

AgreedOn(d) == d.primary = d.recovery

MatchesOn(d, j) ==
  IF j.active THEN d.config = Text(j.route, TRUE) /\ d.catalog = j.catalog
              ELSE d.config = j.previous

\* The user's routing is in the config, or the config has the route of an
\* active journal and the recovery copy remembers the routing; if the primary
\* remembers another one, it is the recovery copy that matches.
Remembered(d) ==
  /\ \A j \in Copies(d) : j.previous.url \in Baselines /\ ~j.previous.managed
  /\ d.recovery = Missing => d.primary = Missing
  /\ d.config = Missing => own = Text(Empty, FALSE)
  /\ d.config # Missing /\ d.config.url \in Baselines => own = Text(d.config.url, FALSE)
  /\ d.config # Missing /\ d.config.managed => \E j \in Copies(d) : j.active
  /\ d.config # Missing /\ d.config.url \in Routes =>
       /\ d.config.managed
       /\ \E j \in Copies(d) : j.active /\ j.route = d.config.url
       /\ d.recovery.previous = own
       /\ d.primary = Missing \/ d.primary.previous = own \/ MatchesOn(d, d.recovery)

\* Where the route of the agreed journal is in force, so is its catalog: the
\* catalog is written before the config.
CatalogKnown(d) ==
  AgreedOn(d) /\ d.primary # Missing /\ d.primary.active /\ d.config = Text(d.primary.route, TRUE)
    => d.catalog = d.primary.catalog

Sound(d) == Remembered(d) /\ CatalogKnown(d)

\* A whole installation, or none.
Whole(d) ==
  /\ AgreedOn(d)
  /\ IF d.primary = Missing
       THEN d.catalog = Missing /\ d.config \in {own, Missing}
       ELSE d.config # Missing /\ MatchesOn(d, d.primary) /\ d.catalog = d.primary.catalog

\* readJournal finds one journal, and setup has something to start from.
Selectable(d) ==
  /\ AgreedOn(d) \/ \E j \in Copies(d) : /\ MatchesOn(d, j)
                                         /\ \A k \in Copies(d) : MatchesOn(d, k) => j = k
  /\ AgreedOn(d) /\ d.primary # Missing /\ d.primary.active =>
       d.config = Text(d.primary.route, TRUE)

\* The journal it finds describes a whole installation.
Flawless(d) ==
  IF AgreedOn(d)
    THEN d.primary # Missing => MatchesOn(d, d.primary) /\ d.catalog = d.primary.catalog
    ELSE \A j \in Copies(d) : MatchesOn(d, j) => d.catalog = j.catalog

Switching == {"activate", "deactivate", "refresh"}
Releasing == {"deactivate", "refresh"}

\* What is known of a disk an operation may begin with, after the stops of S.
Fit(d) ==
  /\ Sound(d)
  /\ clean => Whole(d)
  /\ edits = 0 /\ stopped \subseteq Switching => Selectable(d)
  /\ edits = 0 /\ stopped \subseteq Releasing => Selectable(d) /\ Flawless(d)

-----------------------------------------------------------------------------
(* Operations.                                                              *)

\* The disk d after the first n writes of operation o.
IsAfter(o, n, d) ==
  /\ \A i \in 1..Len(o.writes) :
       d[o.writes[i].file] = IF i <= n THEN o.writes[i].data ELSE o.before[o.writes[i].file]
  /\ \A f \in Files : (\A i \in 1..Len(o.writes) : o.writes[i].file # f) => d[f] = o.before[f]

\* Every operation begins fit and agreed, passes through sound disks, and
\* ends whole; one that switches resolves wherever it is stopped.
Prepared(o) ==
  /\ AgreedOn(o.before) /\ Fit(o.before)
  /\ \A n \in 0..Len(o.writes) : \A d \in Disk : IsAfter(o, n, d) =>
       /\ Sound(d)
       /\ n = Len(o.writes) => Whole(d)
       /\ o.name \in Switching => Selectable(d)
       /\ o.name \in Releasing => Flawless(d)

\* Forward, the writes before the present one are done; backward, none after
\* the present one is.
Positioned ==
  IF op.undo THEN \E n \in 0..op.at : IsAfter(op, n, disk) ELSE IsAfter(op, op.at - 1, disk)

JournalInv ==
  /\ \E b \in Baselines : own = Text(b, FALSE)
  /\ ~unrestored => IF op = Idle THEN Fit(disk) ELSE Prepared(op) /\ Positioned

\* A write puts data of its file's kind.
TypedWrite(w) ==
  \/ w.file = "config" /\ w.data \in Configs \cup {Missing}
  \/ w.file = "catalog" /\ w.data \in Catalogs \cup {Missing}
  \/ w.file \in {"primary", "recovery"} /\ w.data \in Journals \cup {Missing}
  \/ w.file = "cache" /\ w.data \in BOOLEAN

\* Some writes, to different files.
TypedWrites(writes) ==
  /\ Len(writes) \in Nat \ {0}
  /\ \A i \in 1..Len(writes) : TypedWrite(writes[i])
  /\ \A i, j \in 1..Len(writes) : i # j => writes[i].file # writes[j].file

TypeInv ==
  /\ TypeOK
  /\ op # Idle =>
       /\ op = [name |-> op.name, writes |-> op.writes, before |-> op.before,
                at |-> op.at, undo |-> op.undo]
       /\ TypedWrites(op.writes)

-----------------------------------------------------------------------------
(* Walking along the writes of an operation.                                *)

\* A typed write, or what was in its file on another disk, leaves a disk.
LEMMA DiskStaysTyped ==
  ASSUME NEW d \in Disk, NEW b \in Disk, NEW w, TypedWrite(w)
  PROVE  /\ w.file \in Files
         /\ [d EXCEPT ![w.file] = w.data] \in Disk
         /\ [d EXCEPT ![w.file] = b[w.file]] \in Disk
BY DEF TypedWrite, Disk, Files

\* The next write leads to the next disk: codex-integration-shared.ts
\* writeFilesWithCompensation.
LEMMA OneMore ==
  ASSUME NEW o, TypedWrites(o.writes), NEW d \in Disk, NEW n \in 1..Len(o.writes),
         IsAfter(o, n - 1, d)
  PROVE  IsAfter(o, n, [d EXCEPT ![o.writes[n].file] = o.writes[n].data])
<1> DEFINE e == [d EXCEPT ![o.writes[n].file] = o.writes[n].data]
<1>1. o.writes[n].file \in Files /\ Len(o.writes) \in Nat /\ n \in Nat
  BY DEF TypedWrites, TypedWrite, Files
<1>2. \A f \in Files : e[f] = IF f = o.writes[n].file THEN o.writes[n].data ELSE d[f]
  BY DEF Disk, Files
<1>3. ASSUME NEW i \in 1..Len(o.writes)
      PROVE  e[o.writes[i].file] = IF i <= n THEN o.writes[i].data ELSE o.before[o.writes[i].file]
  <2>1. o.writes[i].file \in Files
    BY DiskStaysTyped DEF TypedWrites
  <2>2. i = n \/ (o.writes[i].file # o.writes[n].file /\ (i <= n <=> i <= n - 1))
    BY <1>1 DEF TypedWrites
  <2> QED BY <1>2, <2>1, <2>2, <1>1 DEF IsAfter
<1>4. ASSUME NEW f \in Files, \A i \in 1..Len(o.writes) : o.writes[i].file # f
      PROVE  e[f] = o.before[f]
  BY <1>2, <1>4 DEF IsAfter
<1> QED BY <1>3, <1>4 DEF IsAfter

\* Restoring a file nothing later has changed leads back.
LEMMA OneLess ==
  ASSUME NEW o, TypedWrites(o.writes), NEW d \in Disk, NEW n \in 1..Len(o.writes),
         NEW m \in 0..n, IsAfter(o, m, d)
  PROVE  \E k \in 0..(n - 1) :
           IsAfter(o, k, [d EXCEPT ![o.writes[n].file] = o.before[o.writes[n].file]])
<1> DEFINE e == [d EXCEPT ![o.writes[n].file] = o.before[o.writes[n].file]]
           k == IF m = n THEN n - 1 ELSE m
<1>1. o.writes[n].file \in Files /\ Len(o.writes) \in Nat /\ n \in Nat /\ m \in Nat
  BY DEF TypedWrites, TypedWrite, Files
<1>2. \A f \in Files : e[f] = IF f = o.writes[n].file THEN o.before[f] ELSE d[f]
  BY DEF Disk, Files
<1>3. ASSUME NEW i \in 1..Len(o.writes)
      PROVE  e[o.writes[i].file] = IF i <= k THEN o.writes[i].data ELSE o.before[o.writes[i].file]
  <2>1. o.writes[i].file \in Files
    BY DiskStaysTyped DEF TypedWrites
  <2>2. CASE i = n
    BY <1>1, <1>2, <2>1, <2>2
  <2>3. CASE i # n
    <3>1. o.writes[i].file # o.writes[n].file /\ (i <= k <=> i <= m)
      BY <1>1, <2>3 DEF TypedWrites
    <3> QED BY <1>1, <1>2, <2>1, <3>1 DEF IsAfter
  <2> QED BY <2>2, <2>3
<1>4. ASSUME NEW f \in Files, \A i \in 1..Len(o.writes) : o.writes[i].file # f
      PROVE  e[f] = o.before[f]
  BY <1>2, <1>4 DEF IsAfter
<1>5. k \in 0..(n - 1)
  BY <1>1
<1>6. IsAfter(o, k, e)
  BY <1>3, <1>4 DEF IsAfter
<1> QED BY <1>5, <1>6

\* No write leads nowhere, and the disk an operation began with is the disk
\* after none of its writes.
LEMMA NoneDone ==
  ASSUME NEW o, NEW d \in Disk, o.before \in Disk, TypedWrites(o.writes)
  PROVE  /\ IsAfter(o, 0, o.before)
         /\ IsAfter(o, 0, d) => d = o.before
<1>1. IsAfter(o, 0, o.before)
  BY DEF IsAfter, TypedWrites
<1>2. ASSUME IsAfter(o, 0, d) PROVE d = o.before
  <2>1. \A f \in Files : d[f] = o.before[f]
    BY <1>2 DEF IsAfter, TypedWrites
  <2> QED BY <2>1 DEF Disk, Files
<1> QED BY <1>1, <1>2

-----------------------------------------------------------------------------
(* Short sequences joined: the `...additionalWrites` of writeIntegrationState. *)

\* Two sequences joined are the sequence that has the elements of both.
LEMMA Joined ==
  ASSUME NEW S, NEW s \in Seq(S), NEW t \in Seq(S), NEW u \in Seq(S),
         Len(u) = Len(s) + Len(t),
         \A i \in 1..Len(s) : u[i] = s[i],
         \A i \in 1..Len(t) : u[Len(s) + i] = t[i]
  PROVE  s \o t = u
<1>1. Len(s) \in Nat /\ Len(t) \in Nat
  BY LenProperties
<1>2. /\ s \o t \in Seq(S) /\ Len(s \o t) = Len(s) + Len(t)
      /\ \A i \in 1..(Len(s) + Len(t)) : (s \o t)[i] = IF i <= Len(s) THEN s[i] ELSE t[i - Len(s)]
  BY ConcatProperties
<1>3. ASSUME NEW i \in 1..(Len(s) + Len(t)) PROVE (s \o t)[i] = u[i]
  <2>1. CASE i <= Len(s)
    BY <1>1, <1>2, <2>1
  <2>2. CASE ~(i <= Len(s))
    <3>1. i - Len(s) \in 1..Len(t) /\ Len(s) + (i - Len(s)) = i
      BY <1>1, <2>2
    <3> QED BY <1>2, <2>2, <3>1
  <2> QED BY <2>1, <2>2
<1> QED BY <1>2, <1>3, SeqEqual


LEMMA OneOne == ASSUME NEW a, NEW b PROVE <<a>> \o <<b>> = <<a, b>>
<1> DEFINE S == {a, b}
           s == <<a>>
           t == <<b>>
           u == <<a, b>>
<1>1. s \in Seq(S) /\ t \in Seq(S) /\ u \in Seq(S)
  OBVIOUS
<1>2. Len(s) = 1 /\ Len(t) = 1 /\ Len(u) = 2
  OBVIOUS
<1>3. \A i \in 1..1 : u[i] = s[i]
  OBVIOUS
<1>4. \A i \in 1..1 : u[1 + i] = t[i]
  OBVIOUS
<1> HIDE DEF S, s, t, u
<1>5. /\ Len(u) = Len(s) + Len(t)
      /\ \A i \in 1..Len(s) : u[i] = s[i]
      /\ \A i \in 1..Len(t) : u[Len(s) + i] = t[i]
  BY <1>2, <1>3, <1>4
<1>6. s \o t = u
  BY <1>1, <1>5, Joined
<1> QED BY <1>6 DEF s, t, u

LEMMA TwoOne == ASSUME NEW a, NEW b, NEW c PROVE <<a, b>> \o <<c>> = <<a, b, c>>
<1> DEFINE S == {a, b, c}
           s == <<a, b>>
           t == <<c>>
           u == <<a, b, c>>
<1>1. s \in Seq(S) /\ t \in Seq(S) /\ u \in Seq(S)
  OBVIOUS
<1>2. Len(s) = 2 /\ Len(t) = 1 /\ Len(u) = 3
  OBVIOUS
<1>3. \A i \in 1..2 : u[i] = s[i]
  OBVIOUS
<1>4. \A i \in 1..1 : u[2 + i] = t[i]
  OBVIOUS
<1> HIDE DEF S, s, t, u
<1>5. /\ Len(u) = Len(s) + Len(t)
      /\ \A i \in 1..Len(s) : u[i] = s[i]
      /\ \A i \in 1..Len(t) : u[Len(s) + i] = t[i]
  BY <1>2, <1>3, <1>4
<1>6. s \o t = u
  BY <1>1, <1>5, Joined
<1> QED BY <1>6 DEF s, t, u

LEMMA OneTwo == ASSUME NEW a, NEW b, NEW c PROVE <<a>> \o <<b, c>> = <<a, b, c>>
<1> DEFINE S == {a, b, c}
           s == <<a>>
           t == <<b, c>>
           u == <<a, b, c>>
<1>1. s \in Seq(S) /\ t \in Seq(S) /\ u \in Seq(S)
  OBVIOUS
<1>2. Len(s) = 1 /\ Len(t) = 2 /\ Len(u) = 3
  OBVIOUS
<1>3. \A i \in 1..1 : u[i] = s[i]
  OBVIOUS
<1>4. \A i \in 1..2 : u[1 + i] = t[i]
  OBVIOUS
<1> HIDE DEF S, s, t, u
<1>5. /\ Len(u) = Len(s) + Len(t)
      /\ \A i \in 1..Len(s) : u[i] = s[i]
      /\ \A i \in 1..Len(t) : u[Len(s) + i] = t[i]
  BY <1>2, <1>3, <1>4
<1>6. s \o t = u
  BY <1>1, <1>5, Joined
<1> QED BY <1>6 DEF s, t, u

LEMMA TwoTwo == ASSUME NEW a, NEW b, NEW c, NEW d PROVE <<a, b>> \o <<c, d>> = <<a, b, c, d>>
<1> DEFINE S == {a, b, c, d}
           s == <<a, b>>
           t == <<c, d>>
           u == <<a, b, c, d>>
<1>1. s \in Seq(S) /\ t \in Seq(S) /\ u \in Seq(S)
  OBVIOUS
<1>2. Len(s) = 2 /\ Len(t) = 2 /\ Len(u) = 4
  OBVIOUS
<1>3. \A i \in 1..2 : u[i] = s[i]
  OBVIOUS
<1>4. \A i \in 1..2 : u[2 + i] = t[i]
  OBVIOUS
<1> HIDE DEF S, s, t, u
<1>5. /\ Len(u) = Len(s) + Len(t)
      /\ \A i \in 1..Len(s) : u[i] = s[i]
      /\ \A i \in 1..Len(t) : u[Len(s) + i] = t[i]
  BY <1>2, <1>3, <1>4
<1>6. s \o t = u
  BY <1>1, <1>5, Joined
<1> QED BY <1>6 DEF s, t, u

LEMMA ThreeTwo == ASSUME NEW a, NEW b, NEW c, NEW d, NEW e PROVE <<a, b, c>> \o <<d, e>> = <<a, b, c, d, e>>
<1> DEFINE S == {a, b, c, d, e}
           s == <<a, b, c>>
           t == <<d, e>>
           u == <<a, b, c, d, e>>
<1>1. s \in Seq(S) /\ t \in Seq(S) /\ u \in Seq(S)
  OBVIOUS
<1>2. Len(s) = 3 /\ Len(t) = 2 /\ Len(u) = 5
  OBVIOUS
<1>3. \A i \in 1..3 : u[i] = s[i]
  OBVIOUS
<1>4. \A i \in 1..2 : u[3 + i] = t[i]
  OBVIOUS
<1> HIDE DEF S, s, t, u
<1>5. /\ Len(u) = Len(s) + Len(t)
      /\ \A i \in 1..Len(s) : u[i] = s[i]
      /\ \A i \in 1..Len(t) : u[Len(s) + i] = t[i]
  BY <1>2, <1>3, <1>4
<1>6. s \o t = u
  BY <1>1, <1>5, Joined
<1> QED BY <1>6 DEF s, t, u

-----------------------------------------------------------------------------
(* The disks an operation leads through.                                    *)

Says(d, config, catalog, primary, recovery) ==
  /\ d.config = config /\ d.catalog = catalog
  /\ d.primary = primary /\ d.recovery = recovery

\* The recovery copy, the catalog, the config, the primary copy: the disks
\* between b and the state in which j, c and t are written.
Written(b, d, j, c, t) == Says(d, t, c, j, j)

StateDisks(b, d, j, c, t) ==
  \/ Says(d, b.config, b.catalog, b.primary, b.recovery)
  \/ Says(d, b.config, b.catalog, b.primary, j)
  \/ Says(d, b.config, c, b.primary, j)
  \/ Says(d, t, c, b.primary, j)
  \/ Written(b, d, j, c, t)

LEMMA StateWritesAre ==
  ASSUME NEW j, NEW x, NEW y
  PROVE  /\ StateWrites(j, <<>>, <<>>) = <<W("recovery", j), W("primary", j), W("cache", FALSE)>>
         /\ StateWrites(j, <<x>>, <<>>) = <<W("recovery", j), x, W("primary", j), W("cache", FALSE)>>
         /\ StateWrites(j, <<>>, <<y>>) = <<W("recovery", j), y, W("primary", j), W("cache", FALSE)>>
         /\ StateWrites(j, <<x>>, <<y>>) = <<W("recovery", j), x, y, W("primary", j), W("cache", FALSE)>>
<1> DEFINE intent == <<W("recovery", j)>>
           commit == <<W("primary", j), W("cache", FALSE)>>
<1>1. intent \o <<>> = intent
  <2>1. intent \in Seq({W("recovery", j)})
    OBVIOUS
  <2> QED BY <2>1, ConcatEmptySeq
<1>2. <<W("recovery", j), x>> \o <<>> = <<W("recovery", j), x>>
  <2>1. <<W("recovery", j), x>> \in Seq({W("recovery", j), x})
    OBVIOUS
  <2> QED BY <2>1, ConcatEmptySeq
<1>3. StateWrites(j, <<>>, <<>>) = <<W("recovery", j), W("primary", j), W("cache", FALSE)>>
  BY <1>1, OneTwo DEF StateWrites
<1>4. StateWrites(j, <<x>>, <<>>) = <<W("recovery", j), x, W("primary", j), W("cache", FALSE)>>
  <2>1. intent \o <<x>> = <<W("recovery", j), x>>
    BY OneOne
  <2>2. <<W("recovery", j), x>> \o commit = <<W("recovery", j), x, W("primary", j), W("cache", FALSE)>>
    BY TwoTwo
  <2>3. StateWrites(j, <<x>>, <<>>) = ((intent \o <<x>>) \o <<>>) \o commit
    BY DEF StateWrites
  <2> QED BY <1>2, <2>1, <2>2, <2>3
<1>5. StateWrites(j, <<>>, <<y>>) = <<W("recovery", j), y, W("primary", j), W("cache", FALSE)>>
  <2>1. intent \o <<y>> = <<W("recovery", j), y>>
    BY OneOne
  <2>2. <<W("recovery", j), y>> \o commit = <<W("recovery", j), y, W("primary", j), W("cache", FALSE)>>
    BY TwoTwo
  <2>3. StateWrites(j, <<>>, <<y>>) = ((intent \o <<>>) \o <<y>>) \o commit
    BY DEF StateWrites
  <2> QED BY <1>1, <2>1, <2>2, <2>3
<1>6. StateWrites(j, <<x>>, <<y>>) = <<W("recovery", j), x, y, W("primary", j), W("cache", FALSE)>>
  <2>1. intent \o <<x>> = <<W("recovery", j), x>>
    BY OneOne
  <2>2. <<W("recovery", j), x>> \o <<y>> = <<W("recovery", j), x, y>>
    BY TwoOne
  <2>3. <<W("recovery", j), x, y>> \o commit
          = <<W("recovery", j), x, y, W("primary", j), W("cache", FALSE)>>
    BY ThreeTwo
  <2>4. StateWrites(j, <<x>>, <<y>>) = ((intent \o <<x>>) \o <<y>>) \o commit
    BY DEF StateWrites
  <2> QED BY <2>1, <2>2, <2>3, <2>4
<1> QED BY <1>3, <1>4, <1>5, <1>6

LEMMA StateWritesLead ==
  ASSUME NEW o, NEW j, NEW c, NEW t, NEW catalog, NEW config,
         o.writes = StateWrites(j, catalog, config), o.before \in Disk,
         \/ catalog = <<W("catalog", c)>>
         \/ catalog = <<>> /\ c = o.before.catalog,
         \/ config = <<W("config", t)>>
         \/ config = <<>> /\ t = o.before.config,
         NEW d \in Disk, NEW n \in 0..Len(o.writes), IsAfter(o, n, d)
  PROVE  /\ StateDisks(o.before, d, j, c, t)
         /\ n = Len(o.writes) => Written(o.before, d, j, c, t)
<1> USE DEF Says, Written, StateDisks
<1>1. CASE catalog = <<>> /\ config = <<>>
  <2>1. o.writes = <<W("recovery", j), W("primary", j), W("cache", FALSE)>>
    BY <1>1, StateWritesAre
  <2>2. c = o.before.catalog /\ t = o.before.config
    BY <1>1
  <2>3. Len(o.writes) = 3 /\ n \in 0..3
    BY <2>1
  <2>4. /\ d.recovery = IF 1 <= n THEN j ELSE o.before.recovery
        /\ d.primary = IF 2 <= n THEN j ELSE o.before.primary
        /\ d.config = o.before.config /\ d.catalog = o.before.catalog
    BY <2>1, <2>3 DEF IsAfter, W, Files
  <2> QED BY <2>2, <2>3, <2>4
<1>2. CASE catalog = <<W("catalog", c)>> /\ config = <<>>
  <2>1. o.writes = <<W("recovery", j), W("catalog", c), W("primary", j), W("cache", FALSE)>>
    BY <1>2, StateWritesAre
  <2>2. t = o.before.config
    BY <1>2
  <2>3. Len(o.writes) = 4 /\ n \in 0..4
    BY <2>1
  <2>4. /\ d.recovery = IF 1 <= n THEN j ELSE o.before.recovery
        /\ d.catalog = IF 2 <= n THEN c ELSE o.before.catalog
        /\ d.primary = IF 3 <= n THEN j ELSE o.before.primary
        /\ d.config = o.before.config
    BY <2>1, <2>3 DEF IsAfter, W, Files
  <2> QED BY <2>2, <2>3, <2>4
<1>3. CASE catalog = <<>> /\ config = <<W("config", t)>>
  <2>1. o.writes = <<W("recovery", j), W("config", t), W("primary", j), W("cache", FALSE)>>
    BY <1>3, StateWritesAre
  <2>2. c = o.before.catalog
    BY <1>3
  <2>3. Len(o.writes) = 4 /\ n \in 0..4
    BY <2>1
  <2>4. /\ d.recovery = IF 1 <= n THEN j ELSE o.before.recovery
        /\ d.config = IF 2 <= n THEN t ELSE o.before.config
        /\ d.primary = IF 3 <= n THEN j ELSE o.before.primary
        /\ d.catalog = o.before.catalog
    BY <2>1, <2>3 DEF IsAfter, W, Files
  <2> QED BY <2>2, <2>3, <2>4
<1>4. CASE catalog = <<W("catalog", c)>> /\ config = <<W("config", t)>>
  <2>1. o.writes = <<W("recovery", j), W("catalog", c), W("config", t), W("primary", j), W("cache", FALSE)>>
    BY <1>4, StateWritesAre
  <2>3. Len(o.writes) = 5 /\ n \in 0..5
    BY <2>1
  <2>4. /\ d.recovery = IF 1 <= n THEN j ELSE o.before.recovery
        /\ d.catalog = IF 2 <= n THEN c ELSE o.before.catalog
        /\ d.config = IF 3 <= n THEN t ELSE o.before.config
        /\ d.primary = IF 4 <= n THEN j ELSE o.before.primary
    BY <2>1, <2>3 DEF IsAfter, W, Files
  <2> QED BY <2>3, <2>4
<1> QED BY <1>1, <1>2, <1>3, <1>4

-----------------------------------------------------------------------------
(* Which disks those are.                                                   *)

OwnIsPlain == \E x \in Baselines : own = Text(x, FALSE)

LEMMA TextIsItsFields ==
  /\ \A t \in Configs : t = Text(t.url, t.managed)
  /\ \A x, y : Text(x, y).url = x /\ Text(x, y).managed = y
BY DEF Configs, Text

\* What the routing of the user and the route of a journal look like.
LEMMA TextsDiffer ==
  ASSUME OwnIsPlain, NEW r \in Routes
  PROVE  /\ own.url \in Baselines /\ own.url \notin Routes /\ own.managed = FALSE
         /\ own \in Configs /\ own # Missing /\ own = Text(own.url, FALSE)
         /\ Text(r, TRUE) \in Configs /\ Text(r, TRUE) # Missing
         /\ Text(r, TRUE).url = r /\ Text(r, TRUE).managed = TRUE
         /\ r \notin Baselines
<1>1. PICK x \in Baselines : own = Text(x, FALSE)
  BY DEF OwnIsPlain
<1>2. x \notin Routes /\ r \notin Baselines
  BY JournalAssumption
<1>3. own.url = x /\ own.managed = FALSE /\ Text(r, TRUE).url = r /\ Text(r, TRUE).managed = TRUE
  BY <1>1, TextIsItsFields
<1>4. own \in Configs /\ Text(r, TRUE) \in Configs
  BY <1>1 DEF Configs, Text
<1> QED BY <1>1, <1>2, <1>3, <1>4, MissingAssumption

LEMMA DiskFields ==
  ASSUME NEW d \in Disk
  PROVE  /\ d.config # Missing => d.config \in Configs
         /\ d.catalog # Missing => d.catalog \in Catalogs
         /\ d.primary # Missing => d.primary \in Journals
         /\ d.recovery # Missing => d.recovery \in Journals
BY DEF Disk

LEMMA JournalFields ==
  ASSUME NEW j \in Journals
  PROVE  /\ j # Missing /\ j.active \in BOOLEAN /\ j.route \in Routes
         /\ j.previous \in Configs /\ j.catalog \in Catalogs /\ j.previous # Missing
         /\ j.catalog # Missing
BY MissingAssumption DEF Journals

\* codex-integration.ts installCodexIntegration.
LEMMA InstallLeads ==
  ASSUME OwnIsPlain, NEW b \in Disk, Sound(b), AgreedOn(b),
         NEW r \in Routes, NEW c \in Catalogs, NEW d \in Disk, NEW j \in Journals,
         j.active, j.route = r, j.previous = own, j.catalog = c,
         StateDisks(b, d, j, c, Text(r, TRUE))
  PROVE  /\ Sound(d)
         /\ Written(b, d, j, c, Text(r, TRUE)) => Whole(d)
<1>1. /\ own.url \in Baselines /\ own.url \notin Routes /\ own.managed = FALSE
      /\ own # Missing /\ Text(r, TRUE) # Missing
      /\ Text(r, TRUE).url = r /\ Text(r, TRUE).managed = TRUE
      /\ r \notin Baselines
  BY TextsDiffer
<1>2. j # Missing
  BY JournalFields
<1>3. Written(b, d, j, c, Text(r, TRUE)) => Whole(d)
  BY <1>1, <1>2 DEF Written, Says, Whole, MatchesOn, AgreedOn
<1>4. CASE Says(d, b.config, b.catalog, b.primary, b.recovery)
  <2>1. Remembered(d)
    BY <1>4 DEF Says, Sound, Remembered, Copies, MatchesOn
  <2>2. CatalogKnown(d)
    BY <1>4 DEF Says, Sound, CatalogKnown, AgreedOn
  <2> QED BY <1>3, <2>1, <2>2 DEF Sound
<1>5. CASE Says(d, b.config, b.catalog, b.primary, j) \/ Says(d, b.config, c, b.primary, j)
  <2>1. Remembered(d)
    BY <1>1, <1>2, <1>5 DEF Says, Sound, Remembered, Copies, AgreedOn
  <2>2. CatalogKnown(d)
    BY <1>1, <1>2, <1>5 DEF Says, Sound, CatalogKnown, AgreedOn
  <2> QED BY <1>3, <2>1, <2>2 DEF Sound
<1>6. CASE Says(d, Text(r, TRUE), c, b.primary, j) \/ Written(b, d, j, c, Text(r, TRUE))
  <2>1. Remembered(d)
    BY <1>1, <1>2, <1>6 DEF Says, Written, Sound, Remembered, Copies, AgreedOn, MatchesOn
  <2>2. CatalogKnown(d)
    BY <1>1, <1>2, <1>6 DEF Says, Written, Sound, CatalogKnown, AgreedOn
  <2> QED BY <1>3, <2>1, <2>2 DEF Sound
<1> QED BY <1>3, <1>4, <1>5, <1>6 DEF StateDisks

\* A switch on or off, and back: the journal keeps what it remembers.  What
\* holds of the disks between, if the route is in force before or after.
\* codex-integration.ts deactivateCodexIntegration.
LEMMA DeactivateLeads ==
  ASSUME OwnIsPlain, NEW b \in Disk, Sound(b), AgreedOn(b), b.primary # Missing,
         b.primary.active, b.config = Text(b.primary.route, TRUE),
         NEW d \in Disk, NEW j \in Journals,
         ~j.active, j.route = b.primary.route, j.previous = b.primary.previous,
         j.catalog = b.primary.catalog,
         StateDisks(b, d, j, b.catalog, b.primary.previous)
  PROVE  /\ Sound(d) /\ Selectable(d) /\ Flawless(d)
         /\ Written(b, d, j, b.catalog, b.primary.previous) => Whole(d)
<1> DEFINE p == b.primary
           r == p.route
<1>1. p \in Journals /\ r \in Routes
  BY DiskFields, JournalFields
<1>2. /\ own.url \in Baselines /\ own.url \notin Routes /\ own.managed = FALSE
      /\ own # Missing /\ own = Text(own.url, FALSE) /\ Text(r, TRUE) # Missing
      /\ Text(r, TRUE).url = r /\ Text(r, TRUE).managed = TRUE
      /\ r \notin Baselines
  BY <1>1, TextsDiffer
<1>3. j # Missing /\ j # p
  BY JournalFields
<1>4. b.recovery = p /\ p.previous = own /\ b.catalog = p.catalog
  BY <1>1, <1>2 DEF Sound, Remembered, CatalogKnown, AgreedOn
<1>5. own # Text(r, TRUE)
  BY <1>2
<1> HIDE DEF p, r
<1>6. b.config = Text(r, TRUE) /\ b.primary = p /\ p.route = r /\ p.active /\ p # Missing
  BY DEF p, r
<1>7. \/ Says(d, Text(r, TRUE), p.catalog, p, p)
      \/ Says(d, Text(r, TRUE), p.catalog, p, j)
      \/ Says(d, own, p.catalog, p, j)
      \/ Says(d, own, p.catalog, j, j)
  BY <1>4, <1>6 DEF StateDisks, Written, Says
<1>8. Written(b, d, j, b.catalog, b.primary.previous) => Whole(d)
  BY <1>2, <1>3, <1>4, <1>6 DEF Written, Says, Whole, MatchesOn, AgreedOn
<1>9. Remembered(d)
  BY <1>1, <1>2, <1>3, <1>4, <1>6, <1>7 DEF Says, Remembered, Copies, MatchesOn
<1>10. CatalogKnown(d)
  BY <1>2, <1>3, <1>6, <1>7 DEF Says, CatalogKnown, AgreedOn
<1>11. Selectable(d)
  <2>1. CASE Says(d, Text(r, TRUE), p.catalog, p, p) \/ Says(d, own, p.catalog, j, j)
    BY <1>3, <1>6, <2>1 DEF Says, Selectable, AgreedOn
  <2>2. CASE Says(d, Text(r, TRUE), p.catalog, p, j)
    <3>1. Copies(d) = {p, j} /\ ~AgreedOn(d)
      BY <1>3, <1>6, <2>2 DEF Says, Copies, AgreedOn
    <3>2. MatchesOn(d, p) /\ ~MatchesOn(d, j)
      BY <1>4, <1>5, <1>6, <2>2 DEF Says, MatchesOn
    <3> QED BY <3>1, <3>2 DEF Selectable
  <2>3. CASE Says(d, own, p.catalog, p, j)
    <3>1. Copies(d) = {p, j} /\ ~AgreedOn(d)
      BY <1>3, <1>6, <2>3 DEF Says, Copies, AgreedOn
    <3>2. MatchesOn(d, j) /\ ~MatchesOn(d, p)
      BY <1>4, <1>5, <1>6, <2>3 DEF Says, MatchesOn
    <3> QED BY <3>1, <3>2 DEF Selectable
  <2> QED BY <1>7, <2>1, <2>2, <2>3
<1>12. Flawless(d)
  BY <1>2, <1>3, <1>4, <1>5, <1>6, <1>7 DEF Says, Flawless, Copies, MatchesOn, AgreedOn
<1> QED BY <1>8, <1>9, <1>10, <1>11, <1>12 DEF Sound, p

\* codex-integration.ts activateCodexIntegration, of an inactive integration.
LEMMA ActivateLeads ==
  ASSUME OwnIsPlain, NEW b \in Disk, Sound(b), AgreedOn(b), b.primary # Missing,
         ~b.primary.active, b.config # Missing, b.config = b.primary.previous,
         b.catalog = b.primary.catalog,
         NEW c \in Catalogs, NEW d \in Disk, NEW j \in Journals,
         j.active, j.route = b.primary.route, j.previous = b.primary.previous, j.catalog = c,
         StateDisks(b, d, j, c, Text(b.primary.route, TRUE))
  PROVE  /\ Sound(d) /\ Selectable(d)
         /\ Written(b, d, j, c, Text(b.primary.route, TRUE)) => Whole(d)
<1> DEFINE p == b.primary
           r == p.route
<1>1. p \in Journals /\ r \in Routes
  BY DiskFields, JournalFields
<1>2. /\ own.url \in Baselines /\ own.url \notin Routes /\ own.managed = FALSE
      /\ own # Missing /\ own = Text(own.url, FALSE) /\ Text(r, TRUE) # Missing
      /\ Text(r, TRUE).url = r /\ Text(r, TRUE).managed = TRUE
      /\ r \notin Baselines
  BY <1>1, TextsDiffer
<1>3. j # Missing /\ j # p
  BY JournalFields
<1>4. b.recovery = p /\ p.previous = own
  <2>1. p.previous.url \in Baselines /\ ~p.previous.managed
    BY DEF Sound, Remembered, Copies
  <2>2. own = Text(p.previous.url, FALSE)
    BY <2>1 DEF Sound, Remembered
  <2>3. p.previous = Text(p.previous.url, FALSE)
    BY <1>1, <2>1, JournalFields DEF Configs, Text
  <2> QED BY <2>2, <2>3 DEF AgreedOn
<1>5. own # Text(r, TRUE)
  BY <1>2
<1> HIDE DEF p, r
<1>6. b.config = own /\ b.primary = p /\ p.route = r /\ ~p.active /\ p # Missing /\ b.catalog = p.catalog
  BY <1>4 DEF p, r
<1>7. \/ Says(d, own, p.catalog, p, p)
      \/ Says(d, own, p.catalog, p, j)
      \/ Says(d, own, c, p, j)
      \/ Says(d, Text(r, TRUE), c, p, j)
      \/ Says(d, Text(r, TRUE), c, j, j)
  BY <1>4, <1>6 DEF StateDisks, Written, Says
<1>8. Written(b, d, j, c, Text(b.primary.route, TRUE)) => Whole(d)
  BY <1>2, <1>3, <1>4, <1>6 DEF Written, Says, Whole, MatchesOn, AgreedOn
<1>9. Remembered(d)
  BY <1>1, <1>2, <1>3, <1>4, <1>6, <1>7 DEF Says, Remembered, Copies, MatchesOn
<1>10. CatalogKnown(d)
  BY <1>2, <1>3, <1>6, <1>7 DEF Says, CatalogKnown, AgreedOn
<1>11. Selectable(d)
  <2>1. CASE Says(d, own, p.catalog, p, p) \/ Says(d, Text(r, TRUE), c, j, j)
    BY <1>3, <1>6, <2>1 DEF Says, Selectable, AgreedOn
  <2>2. CASE Says(d, own, p.catalog, p, j) \/ Says(d, own, c, p, j)
    <3>1. Copies(d) = {p, j} /\ ~AgreedOn(d)
      BY <1>3, <1>6, <2>2 DEF Says, Copies, AgreedOn
    <3>2. MatchesOn(d, p) /\ ~MatchesOn(d, j)
      BY <1>4, <1>5, <1>6, <2>2 DEF Says, MatchesOn
    <3> QED BY <3>1, <3>2 DEF Selectable
  <2>3. CASE Says(d, Text(r, TRUE), c, p, j)
    <3>1. Copies(d) = {p, j} /\ ~AgreedOn(d)
      BY <1>3, <1>6, <2>3 DEF Says, Copies, AgreedOn
    <3>2. MatchesOn(d, j) /\ ~MatchesOn(d, p)
      BY <1>4, <1>5, <1>6, <2>3 DEF Says, MatchesOn
    <3> QED BY <3>1, <3>2 DEF Selectable
  <2> QED BY <1>7, <2>1, <2>2, <2>3
<1> QED BY <1>8, <1>9, <1>10, <1>11 DEF Sound, p

\* codex-integration.ts refreshActiveManagedCatalog.
LEMMA RefreshLeads ==
  ASSUME OwnIsPlain, NEW b \in Disk, Sound(b), AgreedOn(b), b.primary # Missing,
         b.primary.active, b.config = Text(b.primary.route, TRUE), b.catalog = b.primary.catalog,
         NEW c \in Catalogs, NEW d \in Disk, NEW j \in Journals,
         j.active, j.route = b.primary.route, j.previous = b.primary.previous, j.catalog = c,
         c = b.primary.catalog => j = b.primary,
         StateDisks(b, d, j, c, b.config)
  PROVE  /\ Sound(d) /\ Selectable(d) /\ Flawless(d)
         /\ Written(b, d, j, c, b.config) => Whole(d)
<1> DEFINE p == b.primary
           r == p.route
<1>1. p \in Journals /\ r \in Routes
  BY DiskFields, JournalFields
<1>2. /\ own.url \in Baselines /\ own.url \notin Routes /\ own.managed = FALSE
      /\ own # Missing /\ own = Text(own.url, FALSE) /\ Text(r, TRUE) # Missing
      /\ Text(r, TRUE).url = r /\ Text(r, TRUE).managed = TRUE
      /\ r \notin Baselines
  BY <1>1, TextsDiffer
<1>3. j # Missing
  BY JournalFields
<1>4. b.recovery = p /\ p.previous = own
  BY <1>1, <1>2 DEF Sound, Remembered, AgreedOn
<1> HIDE DEF p, r
<1>6. /\ b.config = Text(r, TRUE) /\ b.primary = p /\ p.route = r /\ p.active /\ p # Missing
      /\ b.catalog = p.catalog /\ (c = p.catalog => j = p) /\ j.route = r /\ j.previous = own
  BY <1>4 DEF p, r
<1>7. \/ Says(d, Text(r, TRUE), p.catalog, p, p)
      \/ Says(d, Text(r, TRUE), p.catalog, p, j)
      \/ Says(d, Text(r, TRUE), c, p, j)
      \/ Says(d, Text(r, TRUE), c, j, j)
  BY <1>4, <1>6 DEF StateDisks, Written, Says
<1>8. Written(b, d, j, c, b.config) => Whole(d)
  BY <1>2, <1>3, <1>4, <1>6 DEF Written, Says, Whole, MatchesOn, AgreedOn
<1>9. Remembered(d)
  <2>1. d.config = Text(r, TRUE) /\ d.primary \in {p, j} /\ d.recovery \in {p, j}
    BY <1>7 DEF Says
  <2>2. \A k \in {p, j} : k # Missing /\ k.active /\ k.route = r /\ k.previous = own
    BY <1>3, <1>4, <1>6
  <2>3. Copies(d) = {d.primary, d.recovery}
    BY <2>1, <2>2 DEF Copies
  <2> QED BY <1>1, <1>2, <2>1, <2>2, <2>3 DEF Remembered
<1>10. CatalogKnown(d)
  BY <1>2, <1>3, <1>6, <1>7 DEF Says, CatalogKnown, AgreedOn
<1>11. Selectable(d)
  <2>1. CASE Says(d, Text(r, TRUE), p.catalog, p, p) \/ Says(d, Text(r, TRUE), c, j, j) \/ j = p
    BY <1>3, <1>6, <1>7, <2>1 DEF Says, Selectable, AgreedOn
  <2>2. CASE Says(d, Text(r, TRUE), p.catalog, p, j) /\ j # p
    <3>1. Copies(d) = {p, j} /\ ~AgreedOn(d)
      BY <1>3, <1>6, <2>2 DEF Says, Copies, AgreedOn
    <3>2. MatchesOn(d, p) /\ ~MatchesOn(d, j)
      BY <1>6, <2>2 DEF Says, MatchesOn
    <3> QED BY <3>1, <3>2 DEF Selectable
  <2>3. CASE Says(d, Text(r, TRUE), c, p, j) /\ j # p
    <3>1. Copies(d) = {p, j} /\ ~AgreedOn(d)
      BY <1>3, <1>6, <2>3 DEF Says, Copies, AgreedOn
    <3>2. MatchesOn(d, j) /\ ~MatchesOn(d, p)
      BY <1>6, <2>3 DEF Says, MatchesOn
    <3> QED BY <3>1, <3>2 DEF Selectable
  <2> QED BY <1>7, <2>1, <2>2, <2>3
<1>12. Flawless(d)
  BY <1>2, <1>3, <1>4, <1>6, <1>7 DEF Says, Flawless, Copies, MatchesOn, AgreedOn
<1> QED BY <1>8, <1>9, <1>10, <1>11, <1>12 DEF Sound, p

\* The config, the catalog, the primary copy, the recovery copy, one after the
\* other, are taken back.
UninstallDisks(b, d) ==
  \/ Says(d, b.config, b.catalog, b.primary, b.recovery)
  \/ Says(d, b.primary.previous, b.catalog, b.primary, b.recovery)
  \/ Says(d, b.primary.previous, Missing, b.primary, b.recovery)
  \/ Says(d, b.primary.previous, Missing, Missing, b.recovery)
  \/ Says(d, b.primary.previous, Missing, Missing, Missing)

UninstallWrites(t) ==
  <<W("config", t), W("catalog", Missing), W("cache", FALSE),
    W("primary", Missing), W("recovery", Missing)>>

LEMMA UninstallWritesLead ==
  ASSUME NEW o, o.before \in Disk, o.writes = UninstallWrites(o.before.primary.previous),
         NEW d \in Disk, NEW n \in 0..Len(o.writes), IsAfter(o, n, d)
  PROVE  /\ UninstallDisks(o.before, d)
         /\ n = Len(o.writes) => Says(d, o.before.primary.previous, Missing, Missing, Missing)
<1>1. Len(o.writes) = 5 /\ n \in 0..5
  BY DEF UninstallWrites
<1>2. /\ d.config = IF 1 <= n THEN o.before.primary.previous ELSE o.before.config
      /\ d.catalog = IF 2 <= n THEN Missing ELSE o.before.catalog
      /\ d.primary = IF 4 <= n THEN Missing ELSE o.before.primary
      /\ d.recovery = IF 5 <= n THEN Missing ELSE o.before.recovery
  BY <1>1 DEF UninstallWrites, IsAfter, W
<1> QED BY <1>1, <1>2 DEF UninstallDisks, Says

\* codex-integration.ts uninstallCodexIntegration.
LEMMA UninstallLeads ==
  ASSUME OwnIsPlain, NEW b \in Disk, Sound(b), AgreedOn(b), b.primary # Missing,
         b.config = IF b.primary.active THEN Text(b.primary.route, TRUE) ELSE b.primary.previous,
         NEW d \in Disk, UninstallDisks(b, d)
  PROVE  /\ Sound(d)
         /\ Says(d, b.primary.previous, Missing, Missing, Missing) => Whole(d)
<1> DEFINE p == b.primary
           r == p.route
<1>1. p \in Journals /\ r \in Routes /\ b.config # Missing
  BY DiskFields, JournalFields, TextsDiffer
<1>2. /\ own.url \in Baselines /\ own.url \notin Routes /\ own.managed = FALSE
      /\ own # Missing /\ own = Text(own.url, FALSE) /\ Text(r, TRUE) # Missing
      /\ Text(r, TRUE).url = r /\ Text(r, TRUE).managed = TRUE
      /\ r \notin Baselines
  BY <1>1, TextsDiffer
<1>3. b.recovery = p /\ p.previous = own
  <2>1. b.recovery = p
    BY DEF AgreedOn
  <2>2. CASE p.active
    BY <1>1, <1>2, <2>1, <2>2 DEF Sound, Remembered
  <2>3. CASE ~p.active
    <3>1. p.previous.url \in Baselines /\ ~p.previous.managed
      BY DEF Sound, Remembered, Copies
    <3>2. own = Text(p.previous.url, FALSE)
      BY <1>1, <2>3, <3>1 DEF Sound, Remembered
    <3>3. p.previous = Text(p.previous.url, FALSE)
      BY <1>1, <3>1, JournalFields DEF Configs, Text
    <3> QED BY <2>1, <3>2, <3>3
  <2> QED BY <2>2, <2>3
<1> HIDE DEF p, r
<1>4. b.primary = p /\ p # Missing /\ p.route = r
  BY DEF p, r
<1>5. ASSUME Says(d, own, Missing, Missing, Missing) PROVE Sound(d) /\ Whole(d)
  <2>1. Remembered(d)
    BY <1>2, <1>5 DEF Says, Remembered, Copies
  <2>2. CatalogKnown(d)
    BY <1>5 DEF Says, CatalogKnown
  <2>3. Whole(d)
    BY <1>5 DEF Says, Whole, AgreedOn
  <2> QED BY <2>1, <2>2, <2>3 DEF Sound
<1>6. CASE Says(d, b.config, b.catalog, p, p)
  <2>1. Remembered(d)
    BY <1>3, <1>4, <1>6 DEF Says, Sound, Remembered, Copies, MatchesOn
  <2>2. CatalogKnown(d)
    BY <1>3, <1>4, <1>6 DEF Says, Sound, CatalogKnown, AgreedOn
  <2> QED BY <1>4, <1>6, <2>1, <2>2 DEF Sound, Says
<1>7. CASE \E c, q : Says(d, own, c, q, p) /\ q \in {p, Missing}
  <2>1. Remembered(d)
    BY <1>2, <1>3, <1>4, <1>7 DEF Says, Remembered, Copies
  <2>2. d.config = own /\ d.primary \in {p, Missing}
    BY <1>7 DEF Says
  <2>3. CatalogKnown(d)
    BY <1>2, <1>4, <2>2 DEF CatalogKnown
  <2> QED BY <1>4, <1>7, <2>1, <2>3 DEF Sound, Says
<1> QED BY <1>3, <1>4, <1>5, <1>6, <1>7 DEF UninstallDisks

-----------------------------------------------------------------------------
(* How an operation begins.                                                 *)

LEMMA ThreeTyped ==
  ASSUME NEW a, NEW b, NEW c, TypedWrite(a), TypedWrite(b), TypedWrite(c),
         a.file # b.file, a.file # c.file, b.file # c.file
  PROVE  TypedWrites(<<a, b, c>>)
<1> DEFINE w == <<a, b, c>>
<1>1. Len(w) = 3 /\ w[1] = a /\ w[2] = b /\ w[3] = c
  OBVIOUS
<1> HIDE DEF w
<1> QED BY <1>1 DEF TypedWrites, w

LEMMA FourTyped ==
  ASSUME NEW a, NEW b, NEW c, NEW d, TypedWrite(a), TypedWrite(b), TypedWrite(c), TypedWrite(d),
         a.file # b.file, a.file # c.file, a.file # d.file, b.file # c.file, b.file # d.file,
         c.file # d.file
  PROVE  TypedWrites(<<a, b, c, d>>)
<1> DEFINE w == <<a, b, c, d>>
<1>1. Len(w) = 4 /\ w[1] = a /\ w[2] = b /\ w[3] = c /\ w[4] = d
  OBVIOUS
<1>2. \A i \in 1..4 : w[i] \in {a, b, c, d}
  OBVIOUS
<1> HIDE DEF w
<1>3. \A i \in 1..4 : TypedWrite(w[i])
  BY <1>2
<1>4. \A i, j \in 1..4 : i # j => w[i].file # w[j].file
  BY <1>1
<1> QED BY <1>1, <1>3, <1>4 DEF TypedWrites, w

LEMMA FiveTyped ==
  ASSUME NEW a, NEW b, NEW c, NEW d, NEW e, TypedWrite(a), TypedWrite(b), TypedWrite(c),
         TypedWrite(d), TypedWrite(e),
         a.file # b.file, a.file # c.file, a.file # d.file, a.file # e.file, b.file # c.file,
         b.file # d.file, b.file # e.file, c.file # d.file, c.file # e.file, d.file # e.file
  PROVE  TypedWrites(<<a, b, c, d, e>>)
<1> DEFINE w == <<a, b, c, d, e>>
<1>1. Len(w) = 5 /\ w[1] = a /\ w[2] = b /\ w[3] = c /\ w[4] = d /\ w[5] = e
  OBVIOUS
<1>2. \A i \in 1..5 : w[i] \in {a, b, c, d, e}
  OBVIOUS
<1> HIDE DEF w
<1>3. \A i \in 1..5 : TypedWrite(w[i])
  BY <1>2
<1>4. \A i, j \in 1..5 : i # j => w[i].file # w[j].file
  BY <1>1
<1> QED BY <1>1, <1>3, <1>4 DEF TypedWrites, w

LEMMA WritesTyped ==
  /\ \A j \in Journals \cup {Missing} : TypedWrite(W("primary", j)) /\ TypedWrite(W("recovery", j))
  /\ \A c \in Catalogs \cup {Missing} : TypedWrite(W("catalog", c))
  /\ \A t \in Configs : TypedWrite(W("config", t))
  /\ TypedWrite(W("cache", FALSE))
  /\ \A f, x : W(f, x).file = f
BY DEF TypedWrite, W

LEMMA StateWritesTyped ==
  ASSUME NEW j \in Journals, NEW catalog, NEW config,
         catalog = <<>> \/ \E c \in Catalogs : catalog = <<W("catalog", c)>>,
         config = <<>> \/ \E t \in Configs : config = <<W("config", t)>>
  PROVE  TypedWrites(StateWrites(j, catalog, config))
<1> DEFINE intent == W("recovery", j)
           commit == W("primary", j)
           cache == W("cache", FALSE)
<1>1. /\ TypedWrite(intent) /\ TypedWrite(commit) /\ TypedWrite(cache)
      /\ intent.file = "recovery" /\ commit.file = "primary" /\ cache.file = "cache"
  BY WritesTyped
<1>2. \A c \in Catalogs : TypedWrite(W("catalog", c)) /\ W("catalog", c).file = "catalog"
  BY WritesTyped
<1>3. \A t \in Configs : TypedWrite(W("config", t)) /\ W("config", t).file = "config"
  BY WritesTyped
<1>4. \A x, y : /\ StateWrites(j, <<>>, <<>>) = <<intent, commit, cache>>
                /\ StateWrites(j, <<x>>, <<>>) = <<intent, x, commit, cache>>
                /\ StateWrites(j, <<>>, <<y>>) = <<intent, y, commit, cache>>
                /\ StateWrites(j, <<x>>, <<y>>) = <<intent, x, y, commit, cache>>
  BY StateWritesAre
<1> HIDE DEF intent, commit, cache
<1>5. CASE catalog = <<>> /\ config = <<>>
  <2>1. TypedWrites(<<intent, commit, cache>>)
    BY <1>1, ThreeTyped
  <2> QED BY <1>4, <1>5, <2>1
<1>6. ASSUME NEW c \in Catalogs, catalog = <<W("catalog", c)>>, config = <<>>
      PROVE  TypedWrites(StateWrites(j, catalog, config))
  <2> DEFINE x == W("catalog", c)
  <2>1. TypedWrite(x) /\ x.file = "catalog"
    BY <1>2
  <2>2. StateWrites(j, catalog, config) = <<intent, x, commit, cache>>
    BY <1>4, <1>6
  <2> HIDE DEF x
  <2> QED BY <1>1, <2>1, <2>2, FourTyped
<1>7. ASSUME NEW t \in Configs, config = <<W("config", t)>>, catalog = <<>>
      PROVE  TypedWrites(StateWrites(j, catalog, config))
  <2> DEFINE y == W("config", t)
  <2>1. TypedWrite(y) /\ y.file = "config"
    BY <1>3
  <2>2. StateWrites(j, catalog, config) = <<intent, y, commit, cache>>
    BY <1>4, <1>7
  <2> HIDE DEF y
  <2> QED BY <1>1, <2>1, <2>2, FourTyped
<1>8. ASSUME NEW c \in Catalogs, catalog = <<W("catalog", c)>>,
             NEW t \in Configs, config = <<W("config", t)>>
      PROVE  TypedWrites(StateWrites(j, catalog, config))
  <2> DEFINE x == W("catalog", c)
             y == W("config", t)
  <2>1. TypedWrite(x) /\ x.file = "catalog" /\ TypedWrite(y) /\ y.file = "config"
    BY <1>2, <1>3
  <2>2. StateWrites(j, catalog, config) = <<intent, x, y, commit, cache>>
    BY <1>4, <1>8
  <2> HIDE DEF x, y
  <2> QED BY <1>1, <2>1, <2>2, FiveTyped
<1> QED BY <1>5, <1>6, <1>7, <1>8

LEMMA UninstallWritesTyped ==
  ASSUME NEW t \in Configs PROVE TypedWrites(UninstallWrites(t))
<1> DEFINE a == W("config", t)
           b == W("catalog", Missing)
           c == W("cache", FALSE)
           d == W("primary", Missing)
           e == W("recovery", Missing)
<1>1. /\ TypedWrite(a) /\ TypedWrite(b) /\ TypedWrite(c) /\ TypedWrite(d) /\ TypedWrite(e)
      /\ a.file = "config" /\ b.file = "catalog" /\ c.file = "cache"
      /\ d.file = "primary" /\ e.file = "recovery"
  BY WritesTyped
<1>2. UninstallWrites(t) = <<a, b, c, d, e>>
  BY DEF UninstallWrites
<1> HIDE DEF a, b, c, d, e
<1> QED BY <1>1, <1>2, FiveTyped

\* What holds of a disk depends on nothing but what the user's routing is.
LEMMA OwnKept ==
  ASSUME own' = own, NEW d
  PROVE  /\ Sound(d)' <=> Sound(d)
         /\ Whole(d)' <=> Whole(d)
BY DEF Sound, Remembered, CatalogKnown, Whole

\* The writes lead through disks on which the operation may be stopped.
Safe(name, writes) ==
  \A o : \A n \in 0..Len(writes), d \in Disk :
    o.before = disk /\ o.writes = writes /\ IsAfter(o, n, d)
      => /\ Sound(d)
         /\ n = Len(writes) => Whole(d)
         /\ name \in Switching => Selectable(d)
         /\ name \in Releasing => Flawless(d)

\* An operation that is safe where it begins keeps the invariant.
LEMMA Begins ==
  ASSUME JournalInv, op = Idle, AgreedOn(disk), NEW name \in Names, NEW writes,
         Begin(name, writes), disk \in Disk, TypedWrites(writes),
         ~unrestored => Safe(name, writes)
  PROVE  JournalInv'
<1>1. /\ op'.name = name /\ op'.writes = writes /\ op'.before = disk
      /\ op'.at = 1 /\ op'.undo = FALSE
      /\ own' = own /\ clean' = clean /\ stopped' = stopped /\ edits' = edits
      /\ unrestored' = unrestored /\ disk' = disk
  BY DEF Begin
<1>2. op' # Idle
  BY <1>1 DEF Names, Idle
<1>3. (\E b \in Baselines : own = Text(b, FALSE))'
  BY <1>1 DEF JournalInv
<1>4. ASSUME ~unrestored PROVE Prepared(op)' /\ Positioned'
  <2>1. Fit(disk)
    BY <1>4 DEF JournalInv
  <2>2. Fit(op.before)'
    BY <1>1, <2>1, OwnKept DEF Fit
  <2>3. \A n \in 0..Len(op'.writes) : \A d \in Disk : IsAfter(op', n, d) =>
          /\ Sound(d)
          /\ n = Len(op'.writes) => Whole(d)
          /\ op'.name \in Switching => Selectable(d)
          /\ op'.name \in Releasing => Flawless(d)
    BY <1>1, <1>4 DEF Safe
  <2>4. Prepared(op)'
    BY <1>1, <2>2, <2>3, OwnKept DEF Prepared
  <2>5. IsAfter(op', 0, disk)
    BY <1>1, NoneDone
  <2> QED BY <1>1, <2>4, <2>5 DEF Positioned
<1> QED BY <1>1, <1>2, <1>3, <1>4 DEF JournalInv

LEMMA BeginsTyped ==
  ASSUME TypeInv, op = Idle, NEW name \in Names, NEW writes, Begin(name, writes),
         TypedWrites(writes)
  PROVE  TypeInv'
<1>1. op' = [name |-> name, writes |-> writes, before |-> disk, at |-> 1, undo |-> FALSE]
  BY DEF Begin
<1>2. /\ op'.name = name /\ op'.writes = writes /\ op'.before = disk
      /\ op'.at = 1 /\ op'.undo = FALSE
  BY <1>1
<1>3. 1 \in 1..Len(writes)
  BY DEF TypedWrites
<1>4. TypedWrites(op'.writes)
  BY <1>2
<1>5. TypeOK'
  BY <1>2, <1>3 DEF Begin, TypeInv, TypeOK, Names
<1> QED BY <1>1, <1>2, <1>4, <1>5 DEF TypeInv, TypedWrites, TypedWrite

\* What install starts from is a routing ...
LEMMA BaselineTyped ==
  ASSUME disk \in Disk, NEW replace \in BOOLEAN, NEW t \in InstallBaseline(replace)
  PROVE  t \in Configs
<1>1. CurrentText \in Configs
  BY JournalAssumption, DiskFields DEF CurrentText, Configs, Text
<1>2. CASE disk.primary = Missing
  BY <1>1, <1>2 DEF InstallBaseline
<1>3. CASE disk.primary # Missing
  <2> DEFINE j == disk.primary
  <2>1. j \in Journals /\ j.previous \in Configs /\ j.previous.url \in Baselines \cup Routes
        /\ j.previous.managed \in BOOLEAN
    BY <1>3, DiskFields, JournalFields DEF Configs
  <2>2. disk.config # Missing => disk.config.url \in Baselines \cup Routes
    BY DiskFields DEF Configs
  <2>3. t \in {j.previous} \cup ReplacementBaseline(j)
    BY <1>3 DEF InstallBaseline
  <2>4. CASE t \in ReplacementBaseline(j) /\ t # CurrentText
    <3>1. disk.config # Missing
      BY <2>4 DEF ReplacementBaseline
    <3>2. t = Text(IF disk.config.url = j.route THEN j.previous.url ELSE disk.config.url,
                   j.previous.managed)
      BY <2>4 DEF ReplacementBaseline
    <3> QED BY <2>1, <2>2, <3>1, <3>2 DEF Configs, Text
  <2> QED BY <1>1, <2>1, <2>3, <2>4
<1> QED BY <1>2, <1>3

\* ... and on a sound disk it is the routing of the user, whatever is left of
\* an installation: installBaselineSnapshot, replacementBaseline.
LEMMA BaselineIsOwn ==
  ASSUME OwnIsPlain, disk \in Disk, Sound(disk), Agreed,
         NEW replace \in BOOLEAN, NEW t \in InstallBaseline(replace)
  PROVE  t = own
<1> DEFINE j == disk.primary
<1>1. disk.recovery = j
  BY DEF Agreed
<1>2. disk.config # Missing =>
        /\ disk.config.url \in Baselines \cup Routes
        /\ disk.config.managed \in BOOLEAN
        /\ disk.config = Text(disk.config.url, disk.config.managed)
  BY DiskFields, TextIsItsFields DEF Configs
<1>3. ASSUME j = Missing \/ ~j.active PROVE CurrentText = own
  <2>1. disk.config # Missing => ~disk.config.managed /\ disk.config.url \notin Routes
    BY <1>1, <1>3 DEF Sound, Remembered, Copies
  <2>2. disk.config # Missing => own = Text(disk.config.url, FALSE)
    BY <1>2, <2>1 DEF Sound, Remembered
  <2> QED BY <1>2, <2>1, <2>2 DEF Sound, Remembered, CurrentText
<1>4. CASE j = Missing
  BY <1>3, <1>4 DEF InstallBaseline
<1>5. CASE j # Missing
  <2>1. /\ j.previous \in Configs /\ j.previous.url \in Baselines /\ j.previous.managed = FALSE
        /\ j.route \in Routes /\ j.previous = Text(j.previous.url, FALSE)
    <3>1. j \in Journals /\ j.previous.url \in Baselines /\ ~j.previous.managed
      BY <1>5, DiskFields DEF Sound, Remembered, Copies
    <3>2. j.previous \in Configs /\ j.route \in Routes /\ j.previous.managed \in BOOLEAN
      BY <3>1, JournalFields DEF Configs
    <3> QED BY <3>1, <3>2, TextIsItsFields
  <2>2. disk.config # Missing /\ disk.config.url = j.route => j.previous = own
    BY <1>1, <2>1 DEF Sound, Remembered
  <2>3. CASE disk.config # Missing /\ Matches(j) /\ t = j.previous
    <3>1. CASE j.active
      <4>1. disk.config = Text(j.route, TRUE)
        BY <2>3, <3>1 DEF Matches, Installed
      <4>2. disk.config.url = j.route
        BY <4>1 DEF Text
      <4> QED BY <2>2, <2>3, <4>2
    <3>2. CASE ~j.active
      BY <2>1, <2>3, <3>2 DEF Matches, Restored, Sound, Remembered
    <3> QED BY <3>1, <3>2
  <2>4. CASE t \in ReplacementBaseline(j)
    <3>1. CASE disk.config = Missing \/ ~j.active
      <4>1. t = CurrentText
        BY <2>4, <3>1 DEF ReplacementBaseline
      <4>2. disk.config = Missing => CurrentText = own
        BY DEF CurrentText, Sound, Remembered
      <4> QED BY <1>3, <3>1, <4>1, <4>2
    <3>2. CASE disk.config # Missing /\ j.active
      <4>1. t = Text(IF disk.config.url = j.route THEN j.previous.url ELSE disk.config.url, FALSE)
        BY <2>1, <2>4, <3>2 DEF ReplacementBaseline
      <4>2. disk.config.url # j.route => disk.config.url \in Baselines
        BY <1>1, <1>2, <3>2 DEF Sound, Remembered, Copies
      <4>3. disk.config.url # j.route => own = Text(disk.config.url, FALSE)
        BY <3>2, <4>2 DEF Sound, Remembered
      <4> QED BY <2>1, <2>2, <3>2, <4>1, <4>3
    <3> QED BY <3>1, <3>2
  <2> QED BY <1>5, <2>3, <2>4 DEF InstallBaseline
<1> QED BY <1>4, <1>5

-----------------------------------------------------------------------------
(* Every operation keeps the invariant where it begins.                     *)

LEMMA InstallSteps ==
  ASSUME TypeInv, JournalInv, NEW r \in Routes, NEW c \in Catalogs, NEW replace \in BOOLEAN,
         Install(r, c, replace)
  PROVE  TypeInv' /\ JournalInv'
<1>1. op = Idle /\ Agreed /\ disk \in Disk /\ OwnIsPlain
  BY DEF Install, Ready, TypeInv, TypeOK, JournalInv, OwnIsPlain
<1>2. PICK b \in InstallBaseline(replace) :
        Begin("install", StateWrites([active |-> TRUE, route |-> r, previous |-> b, catalog |-> c],
                                     <<W("catalog", c)>>, <<W("config", Text(r, TRUE))>>))
  BY DEF Install
<1> DEFINE j == [active |-> TRUE, route |-> r, previous |-> b, catalog |-> c]
           t == Text(r, TRUE)
           catalog == <<W("catalog", c)>>
           config == <<W("config", t)>>
           writes == StateWrites(j, catalog, config)
<1>3. j \in Journals
  BY <1>1, BaselineTyped DEF Journals
<1>4. j.active /\ j.route = r /\ j.previous = b /\ j.catalog = c
  OBVIOUS
<1>5. ~unrestored => Sound(disk) /\ b = own
  BY <1>1, BaselineIsOwn DEF JournalInv, Fit
<1>6. catalog = <<W("catalog", c)>> /\ config = <<W("config", t)>> /\ t \in Configs
  BY <1>1, TextsDiffer
<1>7. t = Text(r, TRUE) /\ writes = StateWrites(j, catalog, config) /\ Begin("install", writes)
  BY <1>2
<1> HIDE DEF j, t, catalog, config, writes
<1>8. TypedWrites(writes)
  BY <1>3, <1>6, <1>7, StateWritesTyped
<1>9. ASSUME ~unrestored, NEW o, NEW n \in 0..Len(writes), NEW d \in Disk,
             o.before = disk, o.writes = writes, IsAfter(o, n, d)
      PROVE  Sound(d) /\ (n = Len(writes) => Whole(d))
  <2>1. /\ StateDisks(disk, d, j, c, t)
        /\ n = Len(writes) => Written(disk, d, j, c, t)
    BY <1>1, <1>6, <1>7, <1>9, StateWritesLead
  <2> QED BY <1>1, <1>3, <1>4, <1>5, <1>7, <1>9, <2>1, InstallLeads DEF Agreed, AgreedOn
<1>10. "install" \in Names /\ "install" \notin Switching /\ "install" \notin Releasing
  BY DEF Names, Switching, Releasing
<1>11. ~unrestored => Safe("install", writes)
  <2> SUFFICES ASSUME ~unrestored, NEW o, NEW n \in 0..Len(writes), NEW d \in Disk,
                      o.before = disk, o.writes = writes, IsAfter(o, n, d)
               PROVE  /\ Sound(d)
                      /\ n = Len(writes) => Whole(d)
                      /\ "install" \in Switching => Selectable(d)
                      /\ "install" \in Releasing => Flawless(d)
    BY DEF Safe
  <2> QED BY <1>9, <1>10
<1>12. TypeInv'
  BY <1>1, <1>7, <1>8, <1>10, BeginsTyped
<1>13. JournalInv'
  BY <1>1, <1>7, <1>8, <1>10, <1>11, Begins DEF Agreed, AgreedOn
<1> QED BY <1>12, <1>13

LEMMA DeactivateSteps ==
  ASSUME TypeInv, JournalInv, Deactivate
  PROVE  TypeInv' /\ JournalInv'
<1>1. op = Idle /\ Agreed /\ disk \in Disk /\ OwnIsPlain /\ disk.primary # Missing
  BY DEF Deactivate, Ready, TypeInv, TypeOK, JournalInv, OwnIsPlain
<1> DEFINE p == disk.primary
           j == [p EXCEPT !.active = FALSE]
           t == p.previous
           config == <<W("config", t)>>
           writes == StateWrites(j, <<>>, config)
<1>2. p \in Journals /\ t \in Configs
  BY <1>1, DiskFields, JournalFields
<1>3. j \in Journals /\ ~j.active /\ j.route = p.route /\ j.previous = t /\ j.catalog = p.catalog
  BY <1>2 DEF Journals
<1>4. p.active /\ disk.config = Text(p.route, TRUE) /\ Begin("deactivate", writes)
  BY DEF Deactivate, Installed
<1>5. p = disk.primary /\ t = p.previous /\ config = <<W("config", t)>>
      /\ writes = StateWrites(j, <<>>, config)
  OBVIOUS
<1> HIDE DEF p, j, t, config, writes
<1>6. TypedWrites(writes)
  BY <1>2, <1>3, <1>5, StateWritesTyped
<1>7. ASSUME ~unrestored, NEW o, NEW n \in 0..Len(writes), NEW d \in Disk,
             o.before = disk, o.writes = writes, IsAfter(o, n, d)
      PROVE  Sound(d) /\ Selectable(d) /\ Flawless(d) /\ (n = Len(writes) => Whole(d))
  <2>1. /\ StateDisks(disk, d, j, disk.catalog, t)
        /\ n = Len(writes) => Written(disk, d, j, disk.catalog, t)
    BY <1>1, <1>5, <1>7, StateWritesLead
  <2>2. Sound(disk)
    BY <1>1, <1>7 DEF JournalInv, Fit
  <2> QED BY <1>1, <1>3, <1>4, <1>5, <1>7, <2>1, <2>2, DeactivateLeads DEF Agreed, AgreedOn
<1>8. ~unrestored => Safe("deactivate", writes)
  <2> SUFFICES ASSUME ~unrestored, NEW o, NEW n \in 0..Len(writes), NEW d \in Disk,
                      o.before = disk, o.writes = writes, IsAfter(o, n, d)
               PROVE  /\ Sound(d)
                      /\ n = Len(writes) => Whole(d)
                      /\ "deactivate" \in Switching => Selectable(d)
                      /\ "deactivate" \in Releasing => Flawless(d)
    BY DEF Safe
  <2> QED BY <1>7
<1>9. "deactivate" \in Names
  BY DEF Names
<1>10. TypeInv'
  BY <1>1, <1>4, <1>6, <1>9, BeginsTyped
<1>11. JournalInv'
  BY <1>1, <1>4, <1>6, <1>9, <1>8, Begins DEF Agreed, AgreedOn
<1> QED BY <1>10, <1>11

LEMMA ActivateSteps ==
  ASSUME TypeInv, JournalInv, NEW x \in Catalogs \cup {Missing}, Activate(x)
  PROVE  TypeInv' /\ JournalInv'
<1>1. op = Idle /\ Agreed /\ disk \in Disk /\ OwnIsPlain /\ disk.primary # Missing
      /\ disk.config # Missing
  BY DEF Activate, Ready, TypeInv, TypeOK, JournalInv, OwnIsPlain
<1> DEFINE p == disk.primary
           c == ConnectedCatalog(p, x)
           j == [p EXCEPT !.active = TRUE, !.catalog = c]
           t == Text(p.route, TRUE)
           catalog == IF x = Missing THEN <<>> ELSE <<W("catalog", x)>>
           config == <<W("config", t)>>
           writes == StateWrites(j, catalog, config)
<1>2. p \in Journals /\ p.route \in Routes /\ c \in Catalogs
  BY <1>1, DiskFields, JournalFields DEF ConnectedCatalog
<1>3. j \in Journals /\ j.active /\ j.route = p.route /\ j.previous = p.previous /\ j.catalog = c
  BY <1>2 DEF Journals
<1>4. ~p.active /\ disk.config = p.previous /\ disk.catalog = p.catalog
      /\ Begin("activate", writes)
  BY DEF Activate, Restored, CatalogOf
<1>5. p = disk.primary /\ t = Text(p.route, TRUE) /\ config = <<W("config", t)>>
      /\ writes = StateWrites(j, catalog, config) /\ t \in Configs
  BY <1>1, <1>2, TextsDiffer
<1>6. (catalog = <<>> /\ c = disk.catalog) \/ catalog = <<W("catalog", c)>>
  BY <1>4 DEF ConnectedCatalog
<1> HIDE DEF p, c, j, t, catalog, config, writes
<1>7. TypedWrites(writes)
  BY <1>2, <1>3, <1>5, <1>6, StateWritesTyped
<1>8. ASSUME ~unrestored, NEW o, NEW n \in 0..Len(writes), NEW d \in Disk,
             o.before = disk, o.writes = writes, IsAfter(o, n, d)
      PROVE  Sound(d) /\ Selectable(d) /\ (n = Len(writes) => Whole(d))
  <2>1. /\ StateDisks(disk, d, j, c, t)
        /\ n = Len(writes) => Written(disk, d, j, c, t)
    BY <1>1, <1>5, <1>6, <1>8, StateWritesLead
  <2>2. Sound(disk)
    BY <1>1, <1>8 DEF JournalInv, Fit
  <2> QED BY <1>1, <1>2, <1>3, <1>4, <1>5, <1>8, <2>1, <2>2, ActivateLeads DEF Agreed, AgreedOn
<1>9. "activate" \in Names /\ "activate" \notin Releasing
  BY DEF Names, Releasing
<1>10. ~unrestored => Safe("activate", writes)
  <2> SUFFICES ASSUME ~unrestored, NEW o, NEW n \in 0..Len(writes), NEW d \in Disk,
                      o.before = disk, o.writes = writes, IsAfter(o, n, d)
               PROVE  /\ Sound(d)
                      /\ n = Len(writes) => Whole(d)
                      /\ "activate" \in Switching => Selectable(d)
                      /\ "activate" \in Releasing => Flawless(d)
    BY DEF Safe
  <2> QED BY <1>8, <1>9
<1>11. TypeInv'
  BY <1>1, <1>4, <1>7, <1>9, BeginsTyped
<1>12. JournalInv'
  BY <1>1, <1>4, <1>7, <1>9, <1>10, Begins DEF Agreed, AgreedOn
<1> QED BY <1>11, <1>12

LEMMA RefreshSteps ==
  ASSUME TypeInv, JournalInv, NEW c \in Catalogs, Refresh(c)
  PROVE  TypeInv' /\ JournalInv'
<1>1. op = Idle /\ Agreed /\ disk \in Disk /\ OwnIsPlain /\ disk.primary # Missing
      /\ disk.config # Missing
  BY DEF Refresh, Ready, TypeInv, TypeOK, JournalInv, OwnIsPlain
<1> DEFINE p == disk.primary
           j == [p EXCEPT !.catalog = c]
           catalog == IF c = p.catalog THEN <<>> ELSE <<W("catalog", c)>>
           writes == StateWrites(j, catalog, <<>>)
<1>2. p \in Journals
  BY <1>1, DiskFields
<1>3. j \in Journals /\ j.active = p.active /\ j.route = p.route /\ j.previous = p.previous
      /\ j.catalog = c /\ (c = p.catalog => j = p)
  BY <1>2 DEF Journals
<1>4. p.active /\ disk.config = Text(p.route, TRUE) /\ disk.catalog = p.catalog
      /\ Begin("refresh", writes)
  BY DEF Refresh, Matches, Installed, CatalogOf
<1>5. p = disk.primary /\ writes = StateWrites(j, catalog, <<>>)
  OBVIOUS
<1>6. (catalog = <<>> /\ c = disk.catalog) \/ catalog = <<W("catalog", c)>>
  BY <1>4
<1> HIDE DEF p, j, catalog, writes
<1>7. TypedWrites(writes)
  BY <1>3, <1>5, <1>6, StateWritesTyped
<1>8. ASSUME ~unrestored, NEW o, NEW n \in 0..Len(writes), NEW d \in Disk,
             o.before = disk, o.writes = writes, IsAfter(o, n, d)
      PROVE  Sound(d) /\ Selectable(d) /\ Flawless(d) /\ (n = Len(writes) => Whole(d))
  <2>1. /\ StateDisks(disk, d, j, c, disk.config)
        /\ n = Len(writes) => Written(disk, d, j, c, disk.config)
    BY <1>1, <1>5, <1>6, <1>8, StateWritesLead
  <2>2. Sound(disk)
    BY <1>1, <1>8 DEF JournalInv, Fit
  <2> QED BY <1>1, <1>3, <1>4, <1>5, <1>8, <2>1, <2>2, RefreshLeads DEF Agreed, AgreedOn
<1>9. ~unrestored => Safe("refresh", writes)
  <2> SUFFICES ASSUME ~unrestored, NEW o, NEW n \in 0..Len(writes), NEW d \in Disk,
                      o.before = disk, o.writes = writes, IsAfter(o, n, d)
               PROVE  /\ Sound(d)
                      /\ n = Len(writes) => Whole(d)
                      /\ "refresh" \in Switching => Selectable(d)
                      /\ "refresh" \in Releasing => Flawless(d)
    BY DEF Safe
  <2> QED BY <1>8
<1>10. "refresh" \in Names
  BY DEF Names
<1>11. TypeInv'
  BY <1>1, <1>4, <1>7, <1>10, BeginsTyped
<1>12. JournalInv'
  BY <1>1, <1>4, <1>7, <1>10, <1>9, Begins DEF Agreed, AgreedOn
<1> QED BY <1>11, <1>12

LEMMA UninstallSteps ==
  ASSUME TypeInv, JournalInv, Uninstall
  PROVE  TypeInv' /\ JournalInv'
<1>1. op = Idle /\ Agreed /\ disk \in Disk /\ OwnIsPlain /\ disk.primary # Missing
  BY DEF Uninstall, Ready, TypeInv, TypeOK, JournalInv, OwnIsPlain
<1> DEFINE p == disk.primary
           writes == UninstallWrites(p.previous)
<1>2. p.previous \in Configs
  BY <1>1, DiskFields, JournalFields
<1>3. disk.config = (IF p.active THEN Text(p.route, TRUE) ELSE p.previous)
      /\ Begin("uninstall", writes)
  BY DEF Uninstall, Installed, Restored, UninstallWrites
<1>4. p = disk.primary /\ writes = UninstallWrites(p.previous)
  OBVIOUS
<1> HIDE DEF p, writes
<1>5. TypedWrites(writes)
  BY <1>2, <1>4, UninstallWritesTyped
<1>6. ASSUME ~unrestored, NEW o, NEW n \in 0..Len(writes), NEW d \in Disk,
             o.before = disk, o.writes = writes, IsAfter(o, n, d)
      PROVE  Sound(d) /\ (n = Len(writes) => Whole(d))
  <2>1. /\ UninstallDisks(disk, d)
        /\ n = Len(writes) => Says(d, p.previous, Missing, Missing, Missing)
    BY <1>1, <1>4, <1>6, UninstallWritesLead
  <2>2. Sound(disk)
    BY <1>1, <1>6 DEF JournalInv, Fit
  <2> QED BY <1>1, <1>3, <1>4, <1>6, <2>1, <2>2, UninstallLeads DEF Agreed, AgreedOn
<1>7. "uninstall" \in Names /\ "uninstall" \notin Switching /\ "uninstall" \notin Releasing
  BY DEF Names, Switching, Releasing
<1>8. ~unrestored => Safe("uninstall", writes)
  <2> SUFFICES ASSUME ~unrestored, NEW o, NEW n \in 0..Len(writes), NEW d \in Disk,
                      o.before = disk, o.writes = writes, IsAfter(o, n, d)
               PROVE  /\ Sound(d)
                      /\ n = Len(writes) => Whole(d)
                      /\ "uninstall" \in Switching => Selectable(d)
                      /\ "uninstall" \in Releasing => Flawless(d)
    BY DEF Safe
  <2> QED BY <1>6, <1>7
<1>9. TypeInv'
  BY <1>1, <1>3, <1>5, <1>7, BeginsTyped
<1>10. JournalInv'
  BY <1>1, <1>3, <1>5, <1>7, <1>8, Begins DEF Agreed, AgreedOn
<1> QED BY <1>9, <1>10

-----------------------------------------------------------------------------
(* Its writes, failures, rollbacks and stops.                               *)

LEMMA SameOperation ==
  ASSUME NEW o, NEW q, q.writes = o.writes, q.before = o.before, q.name = o.name
  PROVE  /\ \A n, d : IsAfter(q, n, d) <=> IsAfter(o, n, d)
         /\ Prepared(q) <=> Prepared(o)
<1>1. \A n, d : IsAfter(q, n, d) <=> IsAfter(o, n, d)
  BY DEF IsAfter
<1> QED BY <1>1 DEF Prepared

\* What an operation was prepared for does not depend on the disk it is at.
LEMMA PreparedKept ==
  ASSUME UNCHANGED <<own, clean, stopped, edits>>, Prepared(op),
         op'.writes = op.writes, op'.before = op.before, op'.name = op.name
  PROVE  Prepared(op)'
<1>1. Prepared(op')
  BY SameOperation
<1> QED BY <1>1, OwnKept DEF Prepared, Fit

\* At every moment of an operation the disk is one it was prepared for.
LEMMA OnTheWay ==
  ASSUME TypeInv, op # Idle, Prepared(op), Positioned
  PROVE  /\ Sound(disk)
         /\ op.name \in Switching => Selectable(disk)
         /\ op.name \in Releasing => Flawless(disk)
<1>1. disk \in Disk /\ op.at \in 1..Len(op.writes) /\ Len(op.writes) \in Nat
  BY DEF TypeInv, TypeOK, TypedWrites
<1>2. PICK n \in 0..Len(op.writes) : IsAfter(op, n, disk)
  <2>1. CASE op.undo
    <3>1. PICK n \in 0..op.at : IsAfter(op, n, disk)
      BY <2>1 DEF Positioned
    <3> QED BY <1>1, <3>1
  <2>2. CASE ~op.undo
    <3>1. op.at - 1 \in 0..Len(op.writes) /\ IsAfter(op, op.at - 1, disk)
      BY <1>1, <2>2 DEF Positioned
    <3> QED BY <3>1
  <2> QED BY <2>1, <2>2
<1> QED BY <1>1, <1>2 DEF Prepared

\* A whole installation resolves, and is one.
LEMMA WholeIsFit ==
  ASSUME NEW d, Sound(d), Whole(d)
  PROVE  Selectable(d) /\ Flawless(d) /\ Fit(d)
BY DEF Whole, Selectable, Flawless, Fit, MatchesOn

\* codex-integration-shared.ts writeFilesWithCompensation, the loop.
LEMMA WriteSteps ==
  ASSUME TypeInv, JournalInv, Write
  PROVE  TypeInv' /\ JournalInv'
<1>1. /\ disk \in Disk /\ op.before \in Disk /\ op # Idle /\ ~op.undo /\ TypedWrites(op.writes)
      /\ op.at \in 1..Len(op.writes) /\ Len(op.writes) \in Nat /\ Current = op.writes[op.at]
      /\ TypedWrite(Current)
  BY DEF Write, TypeInv, TypeOK, TypedWrites, Current
<1>2. disk' = [disk EXCEPT ![Current.file] = Current.data] /\ disk' \in Disk
  BY <1>1, DiskStaysTyped DEF Write
<1>3. UNCHANGED <<own, stopped, unrestored, crashes, faults, edits>>
  BY DEF Write
<1>4. (\E b \in Baselines : own = Text(b, FALSE))'
  BY <1>3 DEF JournalInv
<1>5. ~unrestored => Prepared(op) /\ IsAfter(op, op.at, disk')
  BY <1>1, <1>2, OneMore DEF JournalInv, Positioned
<1>6. CASE op.at = Len(op.writes)
  <2>1. op' = Idle /\ clean' = TRUE
    BY <1>6 DEF Write
  <2>2. TypeInv'
    BY <1>2, <1>3, <2>1 DEF TypeInv, TypeOK
  <2>3. ASSUME ~unrestored PROVE Fit(disk)'
    <3>1. Sound(disk') /\ Whole(disk')
      BY <1>1, <1>2, <1>5, <1>6, <2>3 DEF Prepared
    <3>2. Selectable(disk') /\ Flawless(disk')
      BY <3>1, WholeIsFit
    <3>3. Sound(disk)' /\ Whole(disk)'
      BY <1>3, <3>1 DEF Sound, Remembered, CatalogKnown, Whole
    <3> QED BY <3>2, <3>3 DEF Fit
  <2> QED BY <1>3, <1>4, <2>1, <2>2, <2>3 DEF JournalInv
<1>7. CASE op.at # Len(op.writes)
  <2>1. op' = [op EXCEPT !.at = @ + 1] /\ clean' = clean
    BY <1>7 DEF Write
  <2>2. op = [name |-> op.name, writes |-> op.writes, before |-> op.before,
              at |-> op.at, undo |-> op.undo]
    BY <1>1 DEF TypeInv
  <2>3. /\ op' = [name |-> op'.name, writes |-> op'.writes, before |-> op'.before,
                  at |-> op'.at, undo |-> op'.undo]
        /\ op'.name = op.name /\ op'.writes = op.writes /\ op'.before = op.before
        /\ op'.at = op.at + 1 /\ op'.undo = op.undo
    BY <2>1, <2>2
  <2>4. op'.at \in 1..Len(op'.writes)
    BY <1>1, <1>7, <2>3
  <2>5. TypeInv'
    BY <1>1, <1>2, <1>3, <2>1, <2>3, <2>4 DEF TypeInv, TypeOK, TypedWrites, TypedWrite
  <2>6. ASSUME ~unrestored PROVE Prepared(op)' /\ Positioned'
    <3>1. Prepared(op)'
      BY <1>3, <1>5, <2>1, <2>3, <2>6, PreparedKept
    <3>2. IsAfter(op', op.at, disk')
      BY <1>5, <2>3, <2>6, SameOperation
    <3>3. op'.at - 1 = op.at
      BY <1>1, <2>3
    <3> QED BY <1>1, <2>3, <3>1, <3>2, <3>3 DEF Positioned
  <2>7. op' # Idle
    BY <1>1, <2>3 DEF TypeInv, TypeOK, Idle
  <2> QED BY <1>3, <1>4, <2>5, <2>6, <2>7 DEF JournalInv
<1> QED BY <1>6, <1>7

LEMMA WriteFailsSteps ==
  ASSUME TypeInv, JournalInv, WriteFails
  PROVE  TypeInv' /\ JournalInv'
<1>1. /\ op # Idle /\ ~op.undo /\ TypedWrites(op.writes)
      /\ op.at \in 1..Len(op.writes) /\ Len(op.writes) \in Nat
  BY DEF WriteFails, TypeInv, TypeOK, TypedWrites
<1>2. UNCHANGED <<disk, own, clean, stopped, unrestored, crashes, edits>>
  BY DEF WriteFails
<1>3. op = [name |-> op.name, writes |-> op.writes, before |-> op.before,
            at |-> op.at, undo |-> op.undo]
  BY <1>1 DEF TypeInv
<1>4. op' = [op EXCEPT !.undo = TRUE, !.at = Len(op.writes)]
  BY DEF WriteFails
<1>5. /\ op' = [name |-> op'.name, writes |-> op'.writes, before |-> op'.before,
                at |-> op'.at, undo |-> op'.undo]
      /\ op'.name = op.name /\ op'.writes = op.writes /\ op'.before = op.before
      /\ op'.at = Len(op.writes) /\ op'.undo = TRUE
  BY <1>3, <1>4
<1>6. op'.at \in 1..Len(op'.writes)
  BY <1>1, <1>5
<1>7. faults' \in 0..MaxFaults
  BY JournalAssumption DEF WriteFails, TypeInv, TypeOK
<1>8. TypeInv'
  <2>1. TypedWrites(op'.writes)
    BY <1>1, <1>5
  <2>2. TypeOK'
    BY <1>1, <1>2, <1>5, <1>6, <1>7 DEF TypeInv, TypeOK
  <2> QED BY <1>5, <2>1, <2>2 DEF TypeInv, TypedWrites, TypedWrite
<1>9. ASSUME ~unrestored PROVE Prepared(op)' /\ Positioned'
  <2>1. Prepared(op) /\ IsAfter(op, op.at - 1, disk)
    BY <1>1, <1>9 DEF JournalInv, Positioned
  <2>2. Prepared(op)'
    BY <1>2, <1>5, <2>1, PreparedKept
  <2>3. IsAfter(op', op.at - 1, disk) /\ op.at - 1 \in 0..op'.at
    BY <1>1, <1>5, <2>1, SameOperation
  <2> QED BY <1>2, <1>5, <2>2, <2>3 DEF Positioned
<1>10. op' # Idle
  BY <1>1, <1>5 DEF TypeInv, TypeOK, Idle
<1> QED BY <1>2, <1>8, <1>9, <1>10 DEF JournalInv

\* The rollback of writeFilesWithCompensation.
LEMMA UndoSteps ==
  ASSUME TypeInv, JournalInv, Undo
  PROVE  TypeInv' /\ JournalInv'
<1>1. /\ disk \in Disk /\ op.before \in Disk /\ op # Idle /\ op.undo /\ TypedWrites(op.writes)
      /\ op.at \in 1..Len(op.writes) /\ Len(op.writes) \in Nat /\ Current = op.writes[op.at]
      /\ TypedWrite(Current)
  BY DEF Undo, TypeInv, TypeOK, TypedWrites, Current
<1>2. UNCHANGED <<own, clean, stopped, crashes, edits>>
  BY DEF Undo
<1>3. disk' \in Disk /\ faults' \in 0..MaxFaults /\ unrestored' \in BOOLEAN
  <2>1. CASE disk' = [disk EXCEPT ![Current.file] = UndoneData] /\ UNCHANGED <<faults, unrestored>>
    BY <1>1, <2>1, DiskStaysTyped DEF UndoneData, TypeInv, TypeOK
  <2>2. CASE faults < MaxFaults /\ faults' = faults + 1 /\ unrestored' = TRUE /\ UNCHANGED disk
    BY <1>1, <2>2, JournalAssumption DEF TypeInv, TypeOK
  <2> QED BY <2>1, <2>2 DEF Undo
<1>4. op' = Idle \/ /\ op' = [name |-> op'.name, writes |-> op'.writes, before |-> op'.before,
                              at |-> op'.at, undo |-> op'.undo]
                    /\ op'.name = op.name /\ op'.writes = op.writes /\ op'.before = op.before
                    /\ op'.at = op.at - 1 /\ op'.undo = op.undo /\ op.at # 1
  <2>1. op = [name |-> op.name, writes |-> op.writes, before |-> op.before,
              at |-> op.at, undo |-> op.undo]
    BY <1>1 DEF TypeInv
  <2>2. op' = Idle \/ (op' = [op EXCEPT !.at = @ - 1] /\ op.at # 1)
    BY DEF Undo
  <2> QED BY <2>1, <2>2
<1>5. op' # Idle => op'.at \in 1..Len(op'.writes)
  <2>1. op' # Idle => op'.at = op.at - 1 /\ op'.writes = op.writes /\ op.at # 1
    BY <1>4
  <2> QED BY <1>1, <2>1
<1>6. TypeInv'
  <2>1. CASE op' = Idle
    BY <1>2, <1>3, <2>1 DEF TypeInv, TypeOK
  <2>2. CASE op' # Idle
    <3>1. TypedWrites(op'.writes)
      BY <1>1, <1>4, <2>2
    <3>2. TypeOK'
      BY <1>1, <1>2, <1>3, <1>4, <1>5, <2>2 DEF TypeInv, TypeOK
    <3> QED BY <1>4, <2>2, <3>1, <3>2 DEF TypeInv, TypedWrites, TypedWrite
  <2> QED BY <2>1, <2>2
<1>7. ASSUME ~unrestored' PROVE IF op' = Idle THEN Fit(disk)' ELSE Prepared(op)' /\ Positioned'
  <2>1. ~unrestored /\ disk' = [disk EXCEPT ![Current.file] = UndoneData]
    BY <1>7 DEF Undo
  <2>2. Prepared(op) /\ \E m \in 0..op.at : IsAfter(op, m, disk)
    BY <1>1, <2>1 DEF JournalInv, Positioned
  <2>3. PICK k \in 0..(op.at - 1) : IsAfter(op, k, disk')
    BY <1>1, <2>1, <2>2, OneLess DEF UndoneData
  <2>4. CASE op.at = 1
    <3>1. op' = Idle /\ k = 0
      BY <2>4 DEF Undo
    <3>2. disk' = op.before
      BY <1>1, <1>3, <2>3, <3>1, NoneDone
    <3>3. Fit(op.before)
      BY <2>2 DEF Prepared
    <3>4. Fit(disk')
      BY <3>2, <3>3
    <3>5. Fit(disk)'
      BY <1>2, <3>4 DEF Fit, Sound, Remembered, CatalogKnown, Whole
    <3> QED BY <3>1, <3>5
  <2>5. CASE op.at # 1
    <3>1. /\ op'.name = op.name /\ op'.writes = op.writes /\ op'.before = op.before
          /\ op'.at = op.at - 1 /\ op'.undo
      <4>1. op' = [op EXCEPT !.at = @ - 1]
        BY <2>5 DEF Undo
      <4>2. op = [name |-> op.name, writes |-> op.writes, before |-> op.before,
                  at |-> op.at, undo |-> op.undo]
        BY <1>1 DEF TypeInv
      <4> QED BY <1>1, <4>1, <4>2
    <3>2. Prepared(op)'
      BY <1>2, <2>2, <3>1, PreparedKept
    <3>3. IsAfter(op', k, disk') /\ k \in 0..op'.at
      BY <2>3, <3>1, SameOperation
    <3>4. Positioned'
      BY <3>1, <3>3 DEF Positioned
    <3>5. op' # Idle
      BY <1>1, <3>1 DEF TypeInv, TypeOK, Idle
    <3> QED BY <3>2, <3>4, <3>5
  <2> QED BY <2>4, <2>5
<1> QED BY <1>2, <1>6, <1>7 DEF JournalInv

\* A stop of the process anywhere in an operation.
LEMMA CrashSteps ==
  ASSUME TypeInv, JournalInv, Crash
  PROVE  TypeInv' /\ JournalInv'
<1>1. /\ op # Idle /\ op' = Idle /\ clean' = FALSE /\ stopped' = stopped \cup {op.name}
      /\ UNCHANGED <<disk, own, unrestored, faults, edits>>
  BY DEF Crash
<1>2. crashes' \in 0..MaxCrashes /\ stopped' \subseteq CrashIn
  BY JournalAssumption DEF Crash, TypeInv, TypeOK
<1>3. TypeInv'
  BY <1>1, <1>2 DEF TypeInv, TypeOK
<1>4. ASSUME ~unrestored PROVE Fit(disk)'
  <2>1. /\ Sound(disk)
        /\ op.name \in Switching => Selectable(disk)
        /\ op.name \in Releasing => Flawless(disk)
    BY <1>1, <1>4, OnTheWay DEF JournalInv
  <2>2. Sound(disk)'
    BY <1>1, <2>1 DEF Sound, Remembered, CatalogKnown
  <2>3. op.name \in stopped' /\ Releasing \subseteq Switching
    BY <1>1 DEF Releasing, Switching
  <2>4. /\ Selectable(disk)' <=> Selectable(disk)
        /\ Flawless(disk)' <=> Flawless(disk)
    BY <1>1 DEF Selectable, Flawless
  <2> QED BY <1>1, <2>1, <2>2, <2>3, <2>4 DEF Fit
<1> QED BY <1>1, <1>3, <1>4 DEF JournalInv

-----------------------------------------------------------------------------
(* Between operations.                                                      *)

\* What readJournal makes of two copies that differ is a fit disk.
LEMMA ReconcileSteps ==
  ASSUME TypeInv, JournalInv, Reconcile
  PROVE  TypeInv' /\ JournalInv'
<1>1. /\ op = Idle /\ ~Agreed /\ disk \in Disk /\ OwnIsPlain
      /\ UNCHANGED <<op, own, clean, stopped, unrestored, crashes, faults, edits>>
  BY DEF Reconcile, TypeInv, TypeOK, JournalInv, OwnIsPlain
<1>2. PICK j \in Selected : disk' = [disk EXCEPT !.primary = j, !.recovery = j]
  BY DEF Reconcile
<1>3. j \in Journals /\ j \in Copies(disk)
  BY <1>1, DiskFields DEF Selected, Copies
<1>4. /\ disk' \in Disk /\ disk'.primary = j /\ disk'.recovery = j
      /\ disk'.config = disk.config /\ disk'.catalog = disk.catalog
  BY <1>1, <1>2, <1>3 DEF Disk
<1>5. TypeInv'
  BY <1>1, <1>4 DEF TypeInv, TypeOK
<1>6. ASSUME ~unrestored PROVE Fit(disk)'
  <2>1. Fit(disk) /\ Remembered(disk)
    BY <1>1, <1>6 DEF JournalInv, Fit, Sound
  <2>2. disk.recovery # Missing
    BY <1>1, <2>1 DEF Remembered, Agreed
  <2>3. MatchesOn(disk, j) /\ \A k \in Copies(disk) : MatchesOn(disk, k) => k = j
    BY <2>2 DEF Selected, Copies, MatchesOn, Matches, Installed, Restored, CatalogOf
  <2>4. /\ j # Missing /\ j.active \in BOOLEAN /\ j.route \in Routes /\ Copies(disk') = {j}
        /\ j.previous.url \in Baselines /\ ~j.previous.managed
        /\ Text(j.route, TRUE).url = j.route
    <3>1. j # Missing /\ j.active \in BOOLEAN /\ j.route \in Routes
      BY <1>3, JournalFields
    <3>2. Copies(disk') = {j}
      BY <1>4, <3>1 DEF Copies
    <3>3. j.previous.url \in Baselines /\ ~j.previous.managed
      BY <1>3, <2>1 DEF Remembered
    <3> QED BY <3>1, <3>2, <3>3, TextIsItsFields
  <2>5. j.previous.url \notin Routes
    BY <2>4, JournalAssumption
  <2>6. ASSUME disk.config # Missing, disk.config.url \in Routes \/ disk.config.managed
        PROVE  j.active /\ j.route = disk.config.url
    BY <2>3, <2>4, <2>5, <2>6 DEF MatchesOn
  <2>7. ASSUME disk.config # Missing, disk.config.url \in Routes PROVE j.previous = own
    <3>1. j = disk.recovery \/ j = disk.primary
      BY <1>3 DEF Copies
    <3>2. disk.recovery.previous = own
      BY <2>1, <2>7 DEF Remembered
    <3>3. CASE j = disk.primary
      <4>1. disk.primary.previous = own \/ MatchesOn(disk, disk.recovery)
        BY <2>1, <2>4, <2>7, <3>3 DEF Remembered
      <4>2. MatchesOn(disk, disk.recovery) => disk.recovery = j
        BY <2>2, <2>3 DEF Copies
      <4> QED BY <3>2, <3>3, <4>1, <4>2
    <3> QED BY <3>1, <3>2, <3>3
  <2>8. Remembered(disk')
    BY <1>4, <2>1, <2>4, <2>6, <2>7 DEF Remembered
  <2>9. MatchesOn(disk', j) /\ AgreedOn(disk')
    BY <1>4, <2>3 DEF MatchesOn, AgreedOn
  <2>10. CatalogKnown(disk')
    BY <1>4, <2>9 DEF CatalogKnown, MatchesOn
  <2>11. ~clean
    BY <1>1, <2>1 DEF Fit, Whole, Agreed, AgreedOn
  <2>12. Selectable(disk')
    BY <1>4, <2>9 DEF Selectable, MatchesOn
  <2>13. Flawless(disk) => Flawless(disk')
    BY <1>1, <1>3, <1>4, <2>3, <2>9 DEF Flawless, AgreedOn, Agreed
  <2>14. Fit(disk')
    BY <2>1, <2>8, <2>10, <2>11, <2>12, <2>13 DEF Fit, Sound
  <2> QED BY <1>1, <2>14 DEF Fit, Sound, Remembered, CatalogKnown, Whole
<1> QED BY <1>1, <1>5, <1>6 DEF JournalInv

\* An edit of the config, whose journals then describe what was.
LEMMA UserEditsSteps ==
  ASSUME TypeInv, JournalInv, UserEdits
  PROVE  TypeInv' /\ JournalInv'
<1>1. /\ op = Idle /\ disk \in Disk /\ OwnIsPlain /\ edits' = edits + 1 /\ clean' = FALSE
      /\ UNCHANGED <<op, stopped, unrestored, crashes, faults>>
      /\ edits \in 0..MaxEdits /\ edits < MaxEdits
  BY DEF UserEdits, TypeInv, TypeOK, JournalInv, OwnIsPlain
<1>2. edits' \in 0..MaxEdits /\ edits' # 0
  BY <1>1, JournalAssumption
<1>3. PICK b \in Baselines, managed \in BOOLEAN :
        /\ own' = Text(b, FALSE)
        /\ \/ /\ disk' = [disk EXCEPT !.config = Text(b, managed)]
              /\ managed => disk.config # Missing /\ disk.config.managed
           \/ disk' = [disk EXCEPT !.config = Missing] /\ b = Empty
  <2>1. CASE disk' = [disk EXCEPT !.config = Missing] /\ own' = Text(Empty, FALSE)
    BY <2>1, JournalAssumption
  <2>2. ASSUME NEW b \in Baselines, NEW managed \in {FALSE} \cup {CurrentText.managed},
               disk' = [disk EXCEPT !.config = Text(b, managed)], own' = Text(b, FALSE)
        PROVE  /\ managed \in BOOLEAN
               /\ managed => disk.config # Missing /\ disk.config.managed
    <3>1. CurrentText.managed \in BOOLEAN
          /\ (CurrentText.managed => disk.config # Missing /\ disk.config.managed)
      BY <1>1, DiskFields DEF CurrentText, Text, Configs
    <3> QED BY <2>2, <3>1
  <2> QED BY <2>1, <2>2 DEF UserEdits
<1>4. /\ disk' \in Disk /\ own' \in Configs
      /\ disk'.primary = disk.primary /\ disk'.recovery = disk.recovery
      /\ disk'.catalog = disk.catalog /\ disk'.config \in {Text(b, managed), Missing}
      /\ disk'.config = Missing => b = Empty
      /\ disk'.config # Missing => (managed => disk.config # Missing /\ disk.config.managed)
  <2>1. Text(b, managed) \in Configs /\ own' \in Configs /\ Text(b, managed) # Missing
    BY <1>3, MissingAssumption DEF Configs, Text
  <2>2. CASE disk' = [disk EXCEPT !.config = Missing] /\ b = Empty
    BY <1>1, <2>1, <2>2 DEF Disk
  <2>3. CASE /\ disk' = [disk EXCEPT !.config = Text(b, managed)]
             /\ managed => disk.config # Missing /\ disk.config.managed
    BY <1>1, <2>1, <2>3 DEF Disk
  <2> QED BY <1>3, <2>2, <2>3
<1>5. TypeInv'
  BY <1>1, <1>2, <1>4 DEF TypeInv, TypeOK
<1>6. ASSUME ~unrestored PROVE Fit(disk)'
  <2>1. Remembered(disk)
    BY <1>1, <1>6 DEF JournalInv, Fit, Sound
  <2>2. Copies(disk') = Copies(disk)
    BY <1>4 DEF Copies
  <2>3. /\ disk'.config # Missing =>
             disk'.config.url = b /\ disk'.config.managed = managed
        /\ b \notin Routes
    BY <1>4, TextIsItsFields, JournalAssumption
  <2>4. Remembered(disk)'
    BY <1>3, <1>4, <2>1, <2>2, <2>3 DEF Remembered
  <2>5. CatalogKnown(disk)'
    <3>1. disk.primary # Missing => disk.primary.route \in Routes
      BY <1>1, DiskFields, JournalFields
    <3>2. \A r \in Routes : disk'.config # Text(r, TRUE)
      BY <1>1, <2>3, TextsDiffer
    <3> QED BY <1>4, <3>1, <3>2 DEF CatalogKnown
  <2> QED BY <1>1, <1>2, <2>4, <2>5 DEF Fit, Sound
<1>7. (\E x \in Baselines : own = Text(x, FALSE))'
  BY <1>3
<1> QED BY <1>1, <1>5, <1>6, <1>7 DEF JournalInv

LEMMA CodexCachesModelsSteps ==
  ASSUME TypeInv, JournalInv, CodexCachesModels
  PROVE  TypeInv' /\ JournalInv'
<1>1. /\ op = Idle /\ disk \in Disk
      /\ UNCHANGED <<op, own, clean, stopped, unrestored, crashes, faults, edits>>
  BY DEF CodexCachesModels, TypeInv, TypeOK
<1>2. /\ disk' \in Disk
      /\ disk'.primary = disk.primary /\ disk'.recovery = disk.recovery
      /\ disk'.catalog = disk.catalog /\ disk'.config = disk.config
  BY <1>1 DEF CodexCachesModels, Disk
<1>3. TypeInv'
  BY <1>1, <1>2 DEF TypeInv, TypeOK
<1>4. ASSUME Fit(disk) PROVE Fit(disk)'
  <2>1. /\ Copies(disk') = Copies(disk)
        /\ AgreedOn(disk') <=> AgreedOn(disk)
        /\ \A j : MatchesOn(disk', j) <=> MatchesOn(disk, j)
    BY <1>2 DEF Copies, AgreedOn, MatchesOn
  <2>2. Sound(disk) => Sound(disk)'
    BY <1>1, <1>2, <2>1 DEF Sound, Remembered, CatalogKnown
  <2>3. Whole(disk) => Whole(disk)'
    BY <1>1, <1>2, <2>1 DEF Whole
  <2>4. Selectable(disk) => Selectable(disk')
    BY <1>2, <2>1 DEF Selectable
  <2>5. Flawless(disk) => Flawless(disk')
    BY <1>2, <2>1 DEF Flawless
  <2> QED BY <1>1, <1>4, <2>2, <2>3, <2>4, <2>5 DEF Fit
<1> QED BY <1>1, <1>3, <1>4 DEF JournalInv

-----------------------------------------------------------------------------
(* The theorems.                                                            *)

LEMMA Begun == Init => TypeInv /\ JournalInv
<1> SUFFICES ASSUME Init PROVE TypeInv /\ JournalInv
  OBVIOUS
<1>1. PICK b \in Baselines : own = Text(b, FALSE)
  BY DEF Init
<1>2. op = Idle /\ clean = TRUE /\ stopped = {} /\ unrestored = FALSE
      /\ crashes = 0 /\ faults = 0 /\ edits = 0
  BY DEF Init
<1>3. own \in Configs /\ own.url = b /\ own.managed = FALSE /\ b \notin Routes
  BY <1>1, JournalAssumption DEF Configs, Text
<1>4. PICK c \in {own} \cup (IF own.url = Empty THEN {Missing} ELSE {}) :
        disk = [config |-> c, catalog |-> Missing, primary |-> Missing,
                recovery |-> Missing, cache |-> TRUE]
  BY DEF Init
<1>5. /\ disk.catalog = Missing /\ disk.primary = Missing /\ disk.recovery = Missing
      /\ disk.config = own \/ (disk.config = Missing /\ own.url = Empty)
      /\ disk \in Disk
  BY <1>3, <1>4 DEF Disk
<1>6. TypeInv
  <2>1. 0 \in 0..MaxCrashes /\ 0 \in 0..MaxFaults /\ 0 \in 0..MaxEdits
    BY JournalAssumption
  <2> QED BY <1>2, <1>3, <1>5, <2>1 DEF TypeInv, TypeOK
<1>7. Remembered(disk)
  <2>1. Copies(disk) = {}
    BY <1>5 DEF Copies
  <2>2. own = Text(own.url, FALSE)
    BY <1>1, <1>3
  <2>3. CASE disk.config = own
    BY <1>3, <1>5, <2>1, <2>2, <2>3, MissingAssumption DEF Remembered
  <2>4. CASE disk.config = Missing /\ own.url = Empty
    <3>1. own = Text(Empty, FALSE)
      BY <2>2, <2>4
    <3> QED BY <1>5, <2>1, <2>4, <3>1 DEF Remembered
  <2> QED BY <1>5, <2>3, <2>4
<1>8. Sound(disk) /\ Whole(disk)
  BY <1>5, <1>7 DEF Sound, CatalogKnown, Whole, AgreedOn
<1>9. Fit(disk)
  BY <1>8, WholeIsFit
<1> QED BY <1>1, <1>2, <1>6, <1>9 DEF JournalInv

LEMMA Kept == TypeInv /\ JournalInv /\ [Next]_vars => (TypeInv /\ JournalInv)'
<1> SUFFICES ASSUME TypeInv, JournalInv, [Next]_vars PROVE (TypeInv /\ JournalInv)'
  OBVIOUS
<1>1. CASE Reconcile
  BY <1>1, ReconcileSteps
<1>2. ASSUME NEW r \in Routes, NEW c \in Catalogs, NEW replace \in BOOLEAN, Install(r, c, replace)
      PROVE  (TypeInv /\ JournalInv)'
  BY <1>2, InstallSteps
<1>3. CASE Deactivate
  BY <1>3, DeactivateSteps
<1>4. ASSUME NEW c \in Catalogs \cup {Missing}, Activate(c) PROVE (TypeInv /\ JournalInv)'
  BY <1>4, ActivateSteps
<1>5. ASSUME NEW c \in Catalogs, Refresh(c) PROVE (TypeInv /\ JournalInv)'
  BY <1>5, RefreshSteps
<1>6. CASE Uninstall
  BY <1>6, UninstallSteps
<1>7. CASE Write
  BY <1>7, WriteSteps
<1>8. CASE WriteFails
  BY <1>8, WriteFailsSteps
<1>9. CASE Undo
  BY <1>9, UndoSteps
<1>10. CASE Crash
  BY <1>10, CrashSteps
<1>11. CASE UserEdits
  BY <1>11, UserEditsSteps
<1>12. CASE CodexCachesModels
  BY <1>12, CodexCachesModelsSteps
<1>13. CASE UNCHANGED vars
  <2>1. UNCHANGED <<disk, op, own, clean, stopped, unrestored, crashes, faults, edits>>
    BY <1>13 DEF vars
  <2>2. TypeInv'
    BY <2>1 DEF TypeInv, TypeOK, TypedWrites, TypedWrite
  <2>3. JournalInv'
    BY <2>1
       DEF JournalInv, Fit, Sound, Remembered, CatalogKnown, Whole, Prepared, Positioned
  <2> QED BY <2>2, <2>3
<1> QED BY <1>1, <1>2, <1>3, <1>4, <1>5, <1>6, <1>7, <1>8, <1>9, <1>10, <1>11, <1>12, <1>13 DEF Next

LEMMA AlwaysFit == Spec => [](TypeInv /\ JournalInv)
<1>1. Init => TypeInv /\ JournalInv
  BY Begun
<1>2. (TypeInv /\ JournalInv) /\ [Next]_vars => (TypeInv /\ JournalInv)'
  BY Kept
<1> QED BY <1>1, <1>2, PTL DEF Spec

\* Files, journals and bounds have their types, through every operation.
THEOREM JournalTypeCorrect == Spec => []TypeOK
<1>1. TypeInv => TypeOK
  BY DEF TypeInv
<1> QED BY <1>1, AlwaysFit, PTL

LEMMA KeptSafe == TypeInv /\ JournalInv => NothingIsLost
<1> SUFFICES ASSUME TypeInv, JournalInv PROVE NothingIsLost
  OBVIOUS
<1>1. disk \in Disk
  BY DEF TypeInv, TypeOK
<1>2. ASSUME disk.config # Missing, ~unrestored
      PROVE  /\ disk.config.url \in Baselines /\ ~disk.config.managed => disk.config = own
             /\ disk.config.url \in Routes =>
                  \E j \in {disk.primary, disk.recovery} \ {Missing} : j.previous = own
  <2>1. Remembered(disk)
    <3>1. CASE op = Idle
      BY <1>2, <3>1 DEF JournalInv, Fit, Sound
    <3>2. CASE op # Idle
      BY <1>2, <3>2, OnTheWay DEF JournalInv, Sound
    <3> QED BY <3>1, <3>2
  <2>2. disk.config = Text(disk.config.url, disk.config.managed) /\ disk.config.managed \in BOOLEAN
    BY <1>1, <1>2, DiskFields, TextIsItsFields DEF Configs
  <2>3. ASSUME disk.config.url \in Routes
        PROVE  disk.recovery # Missing /\ disk.recovery.previous = own
    BY <1>2, <2>1, <2>3 DEF Remembered, Copies
  <2>4. ASSUME disk.config.url \in Baselines, ~disk.config.managed PROVE disk.config = own
    BY <1>2, <2>1, <2>2, <2>4 DEF Remembered
  <2> QED BY <2>3, <2>4
<1>3. ASSUME op = Idle, clean, ~unrestored
      PROVE  /\ Agreed
             /\ IF disk.primary = Missing
                  THEN disk.catalog = Missing /\ disk.config \in {own, Missing}
                  ELSE disk.config # Missing /\ Matches(disk.primary) /\ CatalogOf(disk.primary)
  <2>1. Whole(disk)
    BY <1>3 DEF JournalInv, Fit
  <2> QED BY <2>1 DEF Whole, Agreed, AgreedOn, Matches, MatchesOn, Installed, Restored, CatalogOf
<1> QED BY <1>2, <1>3 DEF NothingIsLost, UserConfigKept, AllOrNothing

\* No operation costs the user the routing: it is in the config, or remembered
\* by a journal whose route is, through every write, failing write, rollback,
\* stop, repair and edit in any number and order; and an operation that ends,
\* in success or rolled back, leaves a whole installation or none.  Not
\* promised when a rollback could not restore a file.
THEOREM JournalLosesNothing == Spec => []NothingIsLost
<1>1. TypeInv /\ JournalInv => NothingIsLost
  BY KeptSafe
<1> QED BY <1>1, AlwaysFit, PTL

LEMMA KeptRecoverable == TypeInv /\ JournalInv => SwitchRecovers
<1> SUFFICES ASSUME TypeInv, JournalInv PROVE SwitchRecovers
  OBVIOUS
<1>1. disk \in Disk
  BY DEF TypeInv, TypeOK
<1>2. \A j : MatchesOn(disk, j) <=> Matches(j)
  BY DEF MatchesOn, Matches, Installed, Restored, CatalogOf
<1>3. AgreedOn(disk) <=> Agreed
  BY DEF AgreedOn, Agreed
<1>4. ASSUME Undisturbed, stopped \subseteq {"activate", "deactivate", "refresh"}
      PROVE  Sound(disk) /\ Selectable(disk) /\ Resolved
  <2>1. Sound(disk) /\ Selectable(disk)
    BY <1>4 DEF JournalInv, Fit, Undisturbed, Switching
  <2>2. CASE ~Agreed
    <3>1. PICK j \in Copies(disk) : /\ MatchesOn(disk, j)
                                    /\ \A k \in Copies(disk) : MatchesOn(disk, k) => j = k
      BY <1>3, <2>1, <2>2 DEF Selectable
    <3>2. disk.recovery # Missing
      BY <2>1, <2>2 DEF Sound, Remembered, Agreed
    <3>3. j \in Selected
      BY <1>2, <3>1, <3>2 DEF Selected, Copies
    <3> QED BY <2>1, <3>3 DEF Resolved
  <2>3. CASE Agreed
    BY <2>1, <2>3 DEF Resolved
  <2> QED BY <2>2, <2>3
<1>5. ASSUME Undisturbed, stopped \subseteq {"deactivate", "refresh"} PROVE StopLeavesNoError
  <2>1. Resolved /\ Flawless(disk) /\ Sound(disk)
    BY <1>4, <1>5 DEF JournalInv, Fit, Undisturbed, Releasing
  <2>2. CASE Agreed
    BY <1>2, <1>3, <2>1, <2>2 DEF Flawless, StopLeavesNoError, CatalogOf
  <2>3. CASE ~Agreed
    <3>1. disk.recovery # Missing
      BY <2>1, <2>3 DEF Sound, Remembered, Agreed
    <3>2. \A j \in Selected : j \in Copies(disk) /\ Matches(j)
      BY <3>1 DEF Selected, Copies
    <3>3. \A j \in Selected : Matches(j) /\ CatalogOf(j)
      BY <1>2, <1>3, <2>1, <2>3, <3>2 DEF Flawless, CatalogOf
    <3> QED BY <2>1, <2>3, <3>3 DEF StopLeavesNoError
  <2> QED BY <2>2, <2>3
<1>6. ASSUME Undisturbed, stopped \subseteq {"activate", "deactivate", "refresh"}, Agreed,
             disk.cache
      PROVE  \E b \in InstallBaseline(TRUE) : CatalogSource(b)
  <2>1. Sound(disk) /\ Selectable(disk)
    BY <1>4, <1>6
  <2>2. \A b : CatalogSource(b)
    BY <1>6 DEF CatalogSource
  <2>3. InstallBaseline(TRUE) # {}
    <3>1. CASE disk.primary = Missing
      BY <3>1 DEF InstallBaseline
    <3>2. CASE disk.primary # Missing /\ (disk.config = Missing \/ ~disk.primary.active)
      BY <3>2 DEF InstallBaseline, ReplacementBaseline
    <3>3. CASE disk.primary # Missing /\ disk.config # Missing /\ disk.primary.active
      <4>1. disk.config = Text(disk.primary.route, TRUE)
        BY <1>3, <1>6, <2>1, <3>3 DEF Selectable
      <4>2. disk.catalog = disk.primary.catalog
        BY <1>3, <1>6, <2>1, <3>3, <4>1 DEF Sound, CatalogKnown
      <4>3. Matches(disk.primary)
        BY <3>3, <4>1, <4>2 DEF Matches, Installed, CatalogOf
      <4> QED BY <3>3, <4>3 DEF InstallBaseline
    <3> QED BY <3>1, <3>2, <3>3
  <2> QED BY <2>2, <2>3
<1> QED BY <1>4, <1>5, <1>6 DEF SwitchRecovers, SwitchResolves, DisconnectLeavesNoError, SetupRepairs

\* After stops while connecting, disconnecting and refreshing, however many,
\* the config selects one journal and AsterBridge can be set up anew; after
\* stops while disconnecting and refreshing it selects a whole installation.
THEOREM SwitchesRecover == Spec => []SwitchRecovers
<1>1. TypeInv /\ JournalInv => SwitchRecovers
  BY KeptRecoverable
<1> QED BY <1>1, AlwaysFit, PTL
=============================================================================
