--------------------------- MODULE Pipelines_proofs ---------------------------
(***************************************************************************)
(* What Pipelines promises of every handler, for any number of titles,     *)
(* names and retries.                                                      *)
(*                                                                         *)
(* A script is a walk: between two instructions it stands at a place, that *)
(* is, with one step open or none, a set of steps closed and what was      *)
(* captured at one stage of its way (raw, encoded, in the library), and    *)
(* every instruction is one that may be made at its place and leads to the *)
(* next.  Walks that meet can be put together, so that a handler's script  *)
(* is a walk because its pieces are; the first part proves this of every   *)
(* registered handler and each of its halves.                              *)
(*                                                                         *)
(* The second part is about behaviours.  While a function runs, its rows   *)
(* and files are those of the place its counter is at (Walking), and from  *)
(* this every promise follows: at the end of a walk each step is done and  *)
(* all is in the library; a call fails inside the one open step; and       *)
(* nothing reads the disc at a place after the tray was opened.            *)
(***************************************************************************)
EXTENDS Pipelines, FiniteSetTheorems, SequenceTheorems, TLAPS

(* Instructions, and where a script stands between two of them: the step   *)
(* that is open, those that are closed, and where what was captured is.    *)
Plain ==
    {"workdir", "files", "tools", "probe", "scan", "pick", "mkdir", "space",
     "metadata", "extras", "size", "hash", "render", "learn", "verify",
     "keycache", "mount", "umount", "sidecars"}
Discward == {"scan", "titles", "image", "tracks"}
Names == {"listed", "bare", "own"}
Stages == {"raw", "enc", "decrypted-or-raw", "lib"}
Instructions ==
    [op : {"start", "done", "need", "read", "early", "do", "move",
           "movedir"},
     step : Steps \cup Stages \cup {"-"},
     what : Plain \cup Discward \cup Names
            \cup {"-", "encode", "decrypt", "eject"}]
Places ==
    [open : Steps \cup {"none"}, closed : SUBSET Steps, stage : Stages]
P(o, C, g) == [open |-> o, closed |-> C, stage |-> g]

(* What an instruction may be at a place, and the place after it, in a     *)
(* script that is to run the steps of D.                                   *)
Busy(D, p) == p.open \in D \ {"eject"}
GoStart(D, p, i, n) ==
    /\ i.op = "start" /\ i.what = "-"
    /\ p.open = "none" /\ i.step \in D \ p.closed
    /\ n = P(i.step, p.closed, p.stage)
GoDone(D, p, i, n) ==
    /\ i.op = "done" /\ i.what = "-"
    /\ i.step = p.open /\ i.step \in D
    /\ n = P("none", p.closed \cup {i.step}, p.stage)
GoEarly(D, p, i, n) ==
    /\ i.op = "early" /\ i.what \in Plain
    /\ p.open = "none" /\ i.step \in D \ (p.closed \cup {"eject"}) /\ n = p
GoDo(D, p, i, n) ==
    /\ i.op = "do" /\ n = p
    /\ i.what \in Plain \/ (i.what = "eject" /\ p.open = "eject")
GoDecrypt(D, p, i, n) ==
    /\ i.op = "do" /\ i.what = "decrypt"
    /\ p.stage = "raw" /\ n = P(p.open, p.closed, "decrypted-or-raw")
GoNeed(D, p, i, n) ==
    /\ i.op = "need" /\ i.what \in Plain /\ Busy(D, p) /\ n = p
GoEncode(D, p, i, n) ==
    /\ i.op = "need" /\ i.what = "encode" /\ Busy(D, p)
    /\ p.stage = "raw" /\ n = P(p.open, p.closed, "enc")
GoRead(D, p, i, n) ==
    /\ i.op = "read" /\ i.what \in Discward /\ Busy(D, p)
    /\ "eject" \notin p.closed /\ p.stage = "raw" /\ n = p
GoMove(D, p, i, n) ==
    /\ i.op \in {"move", "movedir"} /\ i.what \in Names
    /\ i.op = "movedir" => i.step = "raw"
    /\ p.open = "move" /\ "move" \in D
    /\ i.step = p.stage /\ i.step # "lib"
    /\ n = P(p.open, p.closed, "lib")
Goes(D, p, i, n) ==
    \/ GoStart(D, p, i, n) \/ GoDone(D, p, i, n) \/ GoEarly(D, p, i, n)
    \/ GoDo(D, p, i, n) \/ GoDecrypt(D, p, i, n) \/ GoNeed(D, p, i, n)
    \/ GoEncode(D, p, i, n) \/ GoRead(D, p, i, n) \/ GoMove(D, p, i, n)

(* A walk through a script: a place before each instruction and one after  *)
(* the last.  Once the tray was opened it has been.                        *)
Opened(p) == "eject" \in p.closed \cup {p.open}
IsWalk(D, q, w) ==
    /\ q \in Seq(Instructions)
    /\ w \in [1..Len(q) + 1 -> Places]
    /\ \A k \in 1..Len(q) : Goes(D, w[k], q[k], w[k + 1])
    /\ \A k, l \in 1..Len(q) + 1 : k <= l /\ Opened(w[k]) => Opened(w[l])
Walk(D, q, p, n) ==
    \E w : IsWalk(D, q, w) /\ w[1] = p /\ w[Len(q) + 1] = n
Walks(D, q, g) == Walk(D, q, P("none", {}, "raw"), P("none", D, g))

(* What the handlers' scripts are walks of.                                *)
Sound(h) ==
    /\ h.rip # <<>> =>
          /\ Walks(Steps \ TranscodeSteps, h.rip, "raw")
          /\ Walks(TranscodeSteps \ h.skips.enc, h.enc, "lib")
    /\ Walks(Steps \ h.skips.plan, h.run, "lib")
    /\ h.scan # <<>> => Walks(ScanSteps, h.scan, "raw")

----------------------------------------------------------------------------

(* The job at its place.                                                   *)
Kind ==
    IF half = "compute" THEN TranscodeSteps
    ELSE IF job.mode = "scan" THEN ScanSteps ELSE Steps
Due ==
    IF half = "compute" THEN TranscodeSteps \ H.skips.enc
    ELSE IF job.mode = "split" THEN Steps \ TranscodeSteps
    ELSE IF job.mode = "scan" THEN ScanSteps ELSE Steps \ H.skips.plan
Goal == IF half = "compute" \/ job.mode = "whole" THEN "lib" ELSE "raw"
FirstRow(s) ==
    IF s \notin Kind THEN "absent" ELSE IF s \in Due THEN "pending"
    ELSE "skipped"
RowsAt(p) ==
    \A s \in Steps :
       IF s = p.open
       THEN rows[half][s] \in {"running"} \cup
               (IF s = "eject" THEN {"failed"} ELSE {})
       ELSE rows[half][s] = IF s \in p.closed THEN "done" ELSE FirstRow(s)

Left(t) == \E k \in DOMAIN todo : todo[k].title = t
StageHolds(g) ==
    /\ g = "enc" => \A t \in captured : t \in enc \/ InLibrary(t)
    /\ g = "decrypted-or-raw" => enc \in {{}, raw}
    /\ g = "lib" => \A t \in captured : InLibrary(t)
LoopHolds ==
    /\ pc <= Len(Script) /\ Looping
    /\ Now.what = "encode" =>
          \A t \in captured : t \in enc \/ InLibrary(t) \/ Left(t)
    /\ Now.op \in {"move", "movedir"} =>
          \A t \in captured : InLibrary(t) \/ Left(t)
Here(p) ==
    /\ RowsAt(p)
    /\ IF todo = NoLoop THEN StageHolds(p.stage) ELSE LoopHolds
Stands(w) ==
    /\ half = "drive" /\ tray = "out" => Opened(w[pc])
    /\ result = "none" => Here(w[pc])
Path(w) ==
    /\ IsWalk(Due, Script, w)
    /\ w[1] = P("none", {}, "raw")
    /\ w[Len(Script) + 1] = P("none", Due, Goal)
Walking == \E w : Path(w) /\ Stands(w)

Modes ==
    /\ job.mode = "split" => H.rip # <<>>
    /\ job.mode = "scan" => H.scan # <<>>
    /\ half = "compute" => job.mode = "split"
Works ==
    /\ half = "compute" => (work <=> result # "ok")
    /\ half = "drive" /\ job.mode = "split" => (work <=> result = "none")
    /\ result \in {"ok", "err"} => ~mounted
    /\ half = "drive" /\ result # "none" => ~work
    /\ result # "none" => todo = NoLoop
Sheltered ==
    result = "none" \/ (half = "compute" /\ result # "ok") =>
       \A t \in captured : t \in raw \/ InLibrary(t)
RowsKept ==
    half = "compute" =>
       \A s \in Steps :
          /\ rows["drive"][s] = IF s \in TranscodeSteps THEN "skipped"
                                ELSE "done"
          /\ rows["compute"][s] = "absent" <=> s \notin TranscodeSteps
          /\ rows["compute"][s] = "skipped" <=>
                s \in TranscodeSteps \cap H.skips.enc
AllDelivered ==
    result = "ok" /\ job.mode # "scan" => \A t \in captured : InLibrary(t)

IInv ==
    /\ TypeOK /\ Modes /\ Works /\ Sheltered /\ RowsKept /\ AllDelivered
    /\ PlanHonoured /\ ErrorIsShown /\ Walking

----------------------------------------------------------------------------

(* Walks.                                                                  *)

(* The empty walk.                                                         *)
LEMMA NoWalk ==
    ASSUME NEW D, NEW p \in Places
    PROVE  Walk(D, <<>>, p, p)
<1> DEFINE w == [k \in 1..1 |-> p]
<1>1. <<>> \in Seq(Instructions) /\ Len(<<>>) = 0
  BY EmptySeq
<1>2. w \in [1..Len(<<>>) + 1 -> Places] /\ w[1] = p
  BY <1>1
<1>3. \A k \in 1..Len(<<>>) : Goes(D, w[k], <<>>[k], w[k + 1])
  BY <1>1
<1>4. \A k, l \in 1..Len(<<>>) + 1 : w[k] = p /\ w[l] = p
  BY <1>1
<1>5. IsWalk(D, <<>>, w)
  BY <1>1, <1>2, <1>3, <1>4 DEF IsWalk
<1>6. w[Len(<<>>) + 1] = p
  BY <1>1
<1> QED  BY <1>2, <1>5, <1>6 DEF Walk

(* A walk of one instruction.                                              *)
LEMMA OneWalk ==
    ASSUME NEW D, NEW p \in Places, NEW n \in Places,
           NEW i \in Instructions, Goes(D, p, i, n), Opened(p) => Opened(n)
    PROVE  Walk(D, <<i>>, p, n)
<1> DEFINE q == <<i>>
           w == [k \in 1..2 |-> IF k = 1 THEN p ELSE n]
<1>1. q \in Seq(Instructions) /\ Len(q) = 1 /\ q[1] = i
  OBVIOUS
<1>2. w \in [1..2 -> Places] /\ w[1] = p /\ w[2] = n
  OBVIOUS
<1> HIDE DEF q, w
<1>3. \A k \in 1..Len(q) : Goes(D, w[k], q[k], w[k + 1])
  <2> SUFFICES ASSUME NEW k \in 1..Len(q)
               PROVE  Goes(D, w[k], q[k], w[k + 1])
    OBVIOUS
  <2>1. k = 1 /\ k + 1 = 2
    BY <1>1
  <2> QED  BY <1>1, <1>2, <2>1
<1>4. \A k, l \in 1..Len(q) + 1 : k <= l /\ Opened(w[k]) => Opened(w[l])
  <2> SUFFICES ASSUME NEW k \in 1..Len(q) + 1, NEW l \in 1..Len(q) + 1,
                      k <= l, Opened(w[k])
               PROVE  Opened(w[l])
    OBVIOUS
  <2>1. k \in {1, 2} /\ l \in {1, 2} /\ (k = 2 => l = 2)
    BY <1>1
  <2> QED  BY <1>2, <2>1
<1>5. Len(q) + 1 = 2
  BY <1>1
<1>6. IsWalk(D, q, w)
  BY <1>1, <1>2, <1>3, <1>4, <1>5 DEF IsWalk
<1> QED  BY <1>2, <1>5, <1>6 DEF Walk, q

(* One walk after another.                                                 *)
LEMMA Glue ==
    ASSUME NEW D, NEW a, NEW b, NEW p, NEW m, NEW n,
           Walk(D, a, p, m), Walk(D, b, m, n)
    PROVE  Walk(D, a \o b, p, n)
<1>1. PICK v : IsWalk(D, a, v) /\ v[1] = p /\ v[Len(a) + 1] = m
  BY DEF Walk
<1>2. PICK u : IsWalk(D, b, u) /\ u[1] = m /\ u[Len(b) + 1] = n
  BY DEF Walk
<1> DEFINE x == Len(a)
           y == Len(b)
           q == a \o b
           w == [k \in 1..x + y + 1 |-> IF k <= x THEN v[k] ELSE u[k - x]]
<1>3. a \in Seq(Instructions) /\ b \in Seq(Instructions)
      /\ x \in Nat /\ y \in Nat
  BY <1>1, <1>2 DEF IsWalk
<1>4. /\ q \in Seq(Instructions) /\ Len(q) = x + y
      /\ \A k \in 1..x + y : q[k] = IF k <= x THEN a[k] ELSE b[k - x]
  BY <1>3, ConcatProperties
<1>5. /\ v \in [1..x + 1 -> Places] /\ u \in [1..y + 1 -> Places]
      /\ \A k \in 1..x : Goes(D, v[k], a[k], v[k + 1])
      /\ \A k \in 1..y : Goes(D, u[k], b[k], u[k + 1])
      /\ \A k, l \in 1..x + 1 : k <= l /\ Opened(v[k]) => Opened(v[l])
      /\ \A k, l \in 1..y + 1 : k <= l /\ Opened(u[k]) => Opened(u[l])
  BY <1>1, <1>2 DEF IsWalk
<1> HIDE DEF x, y, q
<1>6. /\ w \in [1..x + y + 1 -> Places]
      /\ \A k \in 1..x : w[k] = v[k]
      /\ \A k \in 1..y + 1 : w[x + k] = u[k]
  BY <1>3, <1>5
<1>7. w[x + 1] = v[x + 1] /\ w[x + 1] = m
  <2>1. 1 \in 1..y + 1
    BY <1>3
  <2> QED  BY <1>1, <1>2, <1>6, <2>1 DEF x
<1>8. \A k \in 1..x + 1 : w[k] = v[k]
  <2>1. \A k \in 1..x + 1 : k \in 1..x \/ k = x + 1
    BY <1>3
  <2> QED  BY <1>6, <1>7, <2>1
<1> HIDE DEF w
<1>9. \A k \in 1..x + y : Goes(D, w[k], q[k], w[k + 1])
  <2> SUFFICES ASSUME NEW k \in 1..x + y
               PROVE  Goes(D, w[k], q[k], w[k + 1])
    OBVIOUS
  <2>1. CASE k <= x
    <3>1. k \in 1..x /\ k \in 1..x + 1 /\ k + 1 \in 1..x + 1
      BY <1>3, <2>1
    <3>2. q[k] = a[k]
      BY <1>4, <2>1
    <3> QED  BY <1>5, <1>8, <3>1, <3>2
  <2>2. CASE ~(k <= x)
    <3>1. PICK j \in 1..y : k = x + j /\ j = k - x
      BY <1>3, <2>2
    <3>2. j \in 1..y + 1 /\ j + 1 \in 1..y + 1 /\ k + 1 = x + (j + 1)
      BY <1>3, <3>1
    <3>3. q[k] = b[j]
      BY <1>4, <2>2, <3>1
    <3>4. w[k] = u[j] /\ w[k + 1] = u[j + 1]
      BY <1>6, <3>1, <3>2
    <3> QED  BY <1>5, <3>1, <3>3, <3>4
  <2> QED  BY <2>1, <2>2
<1>10. \A k, l \in 1..x + y + 1 : k <= l /\ Opened(w[k]) => Opened(w[l])
  <2> SUFFICES ASSUME NEW k \in 1..x + y + 1, NEW l \in 1..x + y + 1,
                      k <= l, Opened(w[k])
               PROVE  Opened(w[l])
    OBVIOUS
  <2>1. CASE l <= x + 1
    <3>1. k \in 1..x + 1 /\ l \in 1..x + 1
      BY <1>3, <2>1
    <3>2. w[k] = v[k] /\ w[l] = v[l]
      BY <1>8, <3>1
    <3> QED  BY <1>5, <3>1, <3>2
  <2>2. CASE ~(l <= x + 1)
    <3>1. PICK j \in 1..y + 1 : l = x + j
      BY <1>3, <2>2
    <3>2. \E i \in 1..y + 1 : i <= j /\ Opened(u[i])
      <4>1. CASE k <= x
        <5>1. k \in 1..x + 1 /\ x + 1 \in 1..x + 1 /\ k <= x + 1
              /\ 1 \in 1..y + 1 /\ 1 <= j
          BY <1>3, <4>1
        <5>2. Opened(v[k])
          BY <1>8, <5>1
        <5>3. Opened(v[x + 1])
          BY <1>5, <5>1, <5>2
        <5>4. v[x + 1] = u[1]
          BY <1>2, <1>7
        <5> QED  BY <5>1, <5>3, <5>4
      <4>2. CASE ~(k <= x)
        <5>1. PICK i \in 1..y + 1 : k = x + i /\ i <= j
          BY <1>3, <3>1, <4>2
        <5>2. w[k] = u[i]
          BY <1>6, <5>1
        <5> QED  BY <5>1, <5>2
      <4> QED  BY <4>1, <4>2
    <3>3. Opened(u[j])
      BY <1>5, <3>2
    <3> QED  BY <1>6, <3>1, <3>3
  <2> QED  BY <2>1, <2>2
<1>11. IsWalk(D, q, w)
  BY <1>4, <1>6, <1>9, <1>10 DEF IsWalk
<1>12. w[1] = p
  <2>1. 1 \in 1..x + 1
    BY <1>3
  <2> QED  BY <1>1, <1>8, <2>1
<1>13. w[Len(q) + 1] = n
  <2>1. y + 1 \in 1..y + 1 /\ Len(q) + 1 = x + (y + 1)
    BY <1>3, <1>4
  <2>2. w[Len(q) + 1] = u[y + 1]
    BY <1>6, <2>1
  <2> QED  BY <1>2, <2>2 DEF y
<1> QED  BY <1>11, <1>12, <1>13 DEF Walk, q

(* Calls that leave the place as it is.                                    *)
LEMMA StillWalk ==
    ASSUME NEW D, NEW p \in Places, NEW S \in SUBSET Instructions,
           \A i \in S : Goes(D, p, i, p), NEW q \in Seq(S)
    PROVE  Walk(D, q, p, p)
<1> DEFINE w == [k \in 1..Len(q) + 1 |-> p]
<1>1. /\ q \in Seq(Instructions) /\ Len(q) \in Nat
      /\ \A k \in 1..Len(q) : q[k] \in S
  <2>1. Len(q) \in Nat /\ q \in [1..Len(q) -> S]
    BY LenProperties
  <2>2. \A k \in 1..Len(q) : q[k] \in S
    BY <2>1
  <2>3. q \in Seq(Instructions)
    OBVIOUS
  <2> QED  BY <2>1, <2>2, <2>3
<1>2. w \in [1..Len(q) + 1 -> Places] /\ \A k \in 1..Len(q) + 1 : w[k] = p
  OBVIOUS
<1> HIDE DEF w
<1>3. \A k \in 1..Len(q) : k \in 1..Len(q) + 1 /\ k + 1 \in 1..Len(q) + 1
  BY <1>1
<1>4. 1 \in 1..Len(q) + 1 /\ Len(q) + 1 \in 1..Len(q) + 1
  BY <1>1
<1>5. \A k \in 1..Len(q) : Goes(D, w[k], q[k], w[k + 1])
  BY <1>1, <1>2, <1>3
<1>6. \A k, l \in 1..Len(q) + 1 : w[k] = w[l]
  BY <1>2
<1>7. IsWalk(D, q, w)
  BY <1>1, <1>2, <1>5, <1>6 DEF IsWalk
<1> QED  BY <1>2, <1>4, <1>7 DEF Walk

(* A place is a place.                                                     *)
LEMMA PlaceIs ==
    ASSUME NEW o \in Steps \cup {"none"}, NEW C \in SUBSET Steps,
           NEW g \in Stages
    PROVE  /\ P(o, C, g) \in Places
           /\ P(o, C, g).open = o /\ P(o, C, g).closed = C
           /\ P(o, C, g).stage = g
           /\ Opened(P(o, C, g)) <=> "eject" \in C \/ o = "eject"
BY DEF P, Places, Opened

(* The instructions.                                                       *)
LEMMA InstructionsAre ==
    /\ \A s \in Steps : /\ Start(s) \in Instructions
                        /\ Done(s) \in Instructions
                        /\ Start(s).op = "start" /\ Start(s).step = s
                        /\ Start(s).what = "-"
                        /\ Done(s).op = "done" /\ Done(s).step = s
                        /\ Done(s).what = "-"
    /\ \A s \in Steps, x \in Plain :
          /\ Early(s, x) \in Instructions
          /\ Early(s, x).op = "early" /\ Early(s, x).step = s
          /\ Early(s, x).what = x
    /\ \A x \in Plain \cup {"encode"} :
          /\ Need(x) \in Instructions /\ Need(x).op = "need"
          /\ Need(x).what = x
    /\ \A x \in Discward : /\ Read(x) \in Instructions
                           /\ Read(x).op = "read" /\ Read(x).what = x
    /\ \A x \in Plain \cup {"eject", "decrypt"} :
          /\ Do(x) \in Instructions /\ Do(x).op = "do" /\ Do(x).what = x
    /\ \A g \in Stages, x \in Names :
          /\ MoveFiles(g, x) \in Instructions
          /\ MoveFiles(g, x).op = "move" /\ MoveFiles(g, x).step = g
          /\ MoveFiles(g, x).what = x
    /\ MoveDir \in Instructions /\ MoveDir.op = "movedir"
    /\ MoveDir.step = "raw" /\ MoveDir.what = "own"
    /\ MoveImageOrDir = MoveFiles("decrypted-or-raw", "own")
BY DEF Ins, Start, Done, Early, Need, Read, Do, MoveFiles, MoveDir,
       MoveImageOrDir, Instructions, Plain, Discward, Names, Stages, Steps

(* A step with its calls.                                                  *)
LEMMA WithinWalk ==
    ASSUME NEW D \in SUBSET Steps, NEW C \in SUBSET Steps, NEW s \in D \ C,
           NEW x \in Stages, NEW y \in Stages, NEW c,
           Walk(D, c, P(s, C, x), P(s, C, y))
    PROVE  Walk(D, Within(s, c), P("none", C, x), P("none", C \cup {s}, y))
<1>1. s \in Steps /\ s # "none" /\ C \cup {s} \in SUBSET Steps
  BY DEF Steps
<1>2. /\ P("none", C, x) \in Places /\ P(s, C, x) \in Places
      /\ P(s, C, y) \in Places /\ P("none", C \cup {s}, y) \in Places
  BY <1>1, PlaceIs
<1>3. Goes(D, P("none", C, x), Start(s), P(s, C, x))
  BY SMTT(30), <1>1, PlaceIs, InstructionsAre DEF Goes, GoStart
<1>4. Goes(D, P(s, C, y), Done(s), P("none", C \cup {s}, y))
  <2>1. /\ P(s, C, y).open = s /\ P(s, C, y).closed = C
        /\ P(s, C, y).stage = y
    BY <1>1, PlaceIs
  <2>2. /\ Done(s).op = "done" /\ Done(s).step = s /\ Done(s).what = "-"
    BY <1>1, InstructionsAre
  <2>3. GoDone(D, P(s, C, y), Done(s), P("none", C \cup {s}, y))
    BY <2>1, <2>2 DEF GoDone
  <2> QED  BY <2>3 DEF Goes
<1>5. Opened(P("none", C, x)) => Opened(P(s, C, x))
  BY <1>1, PlaceIs
<1>6. Opened(P(s, C, y)) => Opened(P("none", C \cup {s}, y))
  BY SMTT(30), <1>1, PlaceIs
<1>7. Walk(D, <<Start(s)>>, P("none", C, x), P(s, C, x))
  BY <1>1, <1>2, <1>3, <1>5, OneWalk, InstructionsAre
<1>8. Walk(D, <<Done(s)>>, P(s, C, y), P("none", C \cup {s}, y))
  BY <1>1, <1>2, <1>4, <1>6, OneWalk, InstructionsAre
<1>9. Walk(D, <<Start(s)>> \o c, P("none", C, x), P(s, C, y))
  BY <1>7, Glue
<1> QED  BY <1>8, <1>9, Glue DEF Within

(* What may be called while a step runs, and leaves all where it is.       *)
StepCalls == {Need(x) : x \in Plain} \cup {Do(x) : x \in Plain}

(* None of them moves the place of a running step.                         *)
LEMMA CallsStay ==
    ASSUME NEW D \in SUBSET Steps, NEW C \in SUBSET Steps,
           NEW s \in D \ {"eject"}, NEW g \in Stages
    PROVE  /\ StepCalls \in SUBSET Instructions
           /\ \A i \in StepCalls : Goes(D, P(s, C, g), i, P(s, C, g))
<1>1. StepCalls \in SUBSET Instructions
  BY InstructionsAre DEF StepCalls
<1>0. s \in Steps
  OBVIOUS
<1>2. P(s, C, g).open = s
  BY <1>0, PlaceIs
<1>3. \A x \in Plain : Goes(D, P(s, C, g), Need(x), P(s, C, g))
  BY <1>2, InstructionsAre DEF Goes, GoNeed, Busy
<1>4. \A x \in Plain : Goes(D, P(s, C, g), Do(x), P(s, C, g))
  BY InstructionsAre DEF Goes, GoDo
<1> QED  BY <1>1, <1>3, <1>4 DEF StepCalls

(* While the disc is read there are reads among them.                      *)
RipCalls == StepCalls \cup {Read(x) : x \in Discward}

(* None of these does either, before the tray has been opened.             *)
LEMMA RipCallsStay ==
    ASSUME NEW D \in SUBSET Steps, NEW C \in SUBSET Steps,
           NEW s \in D \ {"eject"}, "eject" \notin C
    PROVE  /\ RipCalls \in SUBSET Instructions
           /\ \A i \in RipCalls :
                 Goes(D, P(s, C, "raw"), i, P(s, C, "raw"))
<1>1. "raw" \in Stages
  BY DEF Stages
<1>2. RipCalls \in SUBSET Instructions
  <2>1. StepCalls \in SUBSET Instructions
    BY <1>1, CallsStay
  <2> QED  BY <2>1, InstructionsAre DEF RipCalls
<1>3. /\ s \in Steps /\ P(s, C, "raw").open = s
      /\ P(s, C, "raw").closed = C /\ P(s, C, "raw").stage = "raw"
  BY <1>1, PlaceIs
<1>4. \A x \in Discward : Goes(D, P(s, C, "raw"), Read(x), P(s, C, "raw"))
  BY <1>3, InstructionsAre DEF Goes, GoRead, Busy
<1>5. \A i \in StepCalls : Goes(D, P(s, C, "raw"), i, P(s, C, "raw"))
  BY <1>1, CallsStay
<1> QED  BY <1>2, <1>4, <1>5 DEF RipCalls

(* A step in which nothing but such calls is made.                         *)
LEMMA CallsWalk ==
    ASSUME NEW D \in SUBSET Steps, NEW C \in SUBSET Steps,
           NEW s \in D \ (C \cup {"eject"}), NEW g \in Stages,
           NEW c \in Seq(StepCalls)
    PROVE  /\ Walk(D, c, P(s, C, g), P(s, C, g))
           /\ Walk(D, Within(s, c), P("none", C, g),
                   P("none", C \cup {s}, g))
<1>1. P(s, C, g) \in Places
  BY PlaceIs
<1>2. Walk(D, c, P(s, C, g), P(s, C, g))
  BY <1>1, CallsStay, StillWalk
<1> QED  BY <1>2, WithinWalk

(* The rip step, in which the disc is read as well.                        *)
LEMMA RipCallsWalk ==
    ASSUME NEW D \in SUBSET Steps, NEW C \in SUBSET Steps,
           NEW s \in D \ (C \cup {"eject"}), "eject" \notin C,
           NEW c \in Seq(RipCalls)
    PROVE  Walk(D, Within(s, c), P("none", C, "raw"),
                P("none", C \cup {s}, "raw"))
<1>0. "raw" \in Stages
  BY DEF Stages
<1>1. P(s, C, "raw") \in Places
  BY <1>0, PlaceIs
<1>2. Walk(D, c, P(s, C, "raw"), P(s, C, "raw"))
  BY <1>1, RipCallsStay, StillWalk
<1> QED  BY <1>0, <1>2, WithinWalk

(* A step without calls.                                                   *)
LEMMA StepWalk ==
    ASSUME NEW D \in SUBSET Steps, NEW C \in SUBSET Steps,
           NEW s \in D \ C, NEW g \in Stages
    PROVE  Walk(D, Step(s), P("none", C, g), P("none", C \cup {s}, g))
<1>1. Walk(D, <<>>, P(s, C, g), P(s, C, g))
  BY NoWalk, PlaceIs
<1> QED  BY <1>1, WithinWalk DEF Step

(* The steps a handler begins with, and those it ends with.                *)
LEMMA OpeningWalk ==
    ASSUME NEW D \in SUBSET Steps, {"detect", "identify"} \subseteq D
    PROVE  Walk(D, Opening, P("none", {}, "raw"),
                P("none", {"detect", "identify"}, "raw"))
<1>1. "raw" \in Stages /\ {} \cup {"detect"} = {"detect"}
      /\ {"detect"} \cup {"identify"} = {"detect", "identify"}
      /\ {"detect"} \in SUBSET Steps /\ {} \in SUBSET Steps
      /\ "identify" \notin {"detect"}
  BY DEF Stages, Steps
<1>2. Walk(D, Step("detect"), P("none", {}, "raw"),
           P("none", {"detect"}, "raw"))
  BY <1>1, StepWalk
<1>3. Walk(D, Step("identify"), P("none", {"detect"}, "raw"),
           P("none", {"detect", "identify"}, "raw"))
  BY <1>1, StepWalk
<1> QED  BY <1>2, <1>3, Glue DEF Opening

(* The step that notifies.                                                 *)
LEMMA NotifyWalk ==
    ASSUME NEW D \in SUBSET Steps, NEW C \in SUBSET Steps,
           "notify" \in D \ C, NEW g \in Stages
    PROVE  Walk(D, RunNotifyStep, P("none", C, g),
                P("none", C \cup {"notify"}, g))
BY StepWalk DEF RunNotifyStep

(* The step that ejects: after it the tray counts as opened.               *)
LEMMA EjectWalk ==
    ASSUME NEW D \in SUBSET Steps, NEW C \in SUBSET Steps,
           "eject" \in D \ C, NEW g \in Stages
    PROVE  Walk(D, RunEjectStep, P("none", C, g),
                P("none", C \cup {"eject"}, g))
<1>1. /\ P("eject", C, g) \in Places /\ P("eject", C, g).open = "eject"
      /\ Do("eject") \in Instructions /\ Do("eject").op = "do"
      /\ Do("eject").what = "eject"
  BY PlaceIs, InstructionsAre
<1>2. Goes(D, P("eject", C, g), Do("eject"), P("eject", C, g))
  BY <1>1 DEF Goes, GoDo
<1>3. Walk(D, <<Do("eject")>>, P("eject", C, g), P("eject", C, g))
  BY <1>1, <1>2, OneWalk
<1> QED  BY <1>3, WithinWalk DEF RunEjectStep

(* The steps in which files move or are encoded.                           *)
LEMMA MoveWalk ==
    ASSUME NEW D \in SUBSET Steps, NEW C \in SUBSET Steps,
           "move" \in D \ C, NEW g \in Stages \ {"lib"}, NEW x \in Names,
           NEW c \in Seq(StepCalls)
    PROVE  Walk(D, Within("move", c \o <<MoveFiles(g, x)>>),
                P("none", C, g), P("none", C \cup {"move"}, "lib"))
<1>1. "lib" \in Stages /\ "move" \in Steps
  BY DEF Stages, Steps
<1>2. /\ P("move", C, g) \in Places /\ P("move", C, "lib") \in Places
      /\ P("move", C, g).open = "move" /\ P("move", C, g).closed = C
      /\ P("move", C, g).stage = g
      /\ Opened(P("move", C, g)) => Opened(P("move", C, "lib"))
  <2>1. /\ P("move", C, g) \in Places
        /\ P("move", C, g).open = "move" /\ P("move", C, g).closed = C
        /\ P("move", C, g).stage = g
        /\ Opened(P("move", C, g)) <=> "eject" \in C
    BY <1>1, PlaceIs
  <2>2. /\ P("move", C, "lib") \in Places
        /\ Opened(P("move", C, "lib")) <=> "eject" \in C
    BY <1>1, PlaceIs
  <2> QED  BY <2>1, <2>2
<1>3. /\ MoveFiles(g, x) \in Instructions /\ MoveFiles(g, x).op = "move"
      /\ MoveFiles(g, x).step = g /\ MoveFiles(g, x).what = x
  BY InstructionsAre
<1>4. Goes(D, P("move", C, g), MoveFiles(g, x), P("move", C, "lib"))
  BY <1>2, <1>3 DEF Goes, GoMove
<1>5. Walk(D, <<MoveFiles(g, x)>>, P("move", C, g), P("move", C, "lib"))
  BY <1>2, <1>3, <1>4, OneWalk
<1>6. Walk(D, c, P("move", C, g), P("move", C, g))
  BY CallsWalk
<1>7. Walk(D, c \o <<MoveFiles(g, x)>>, P("move", C, g),
           P("move", C, "lib"))
  BY <1>5, <1>6, Glue
<1> QED  BY <1>1, <1>7, WithinWalk

(* A step whose last call encodes: what was raw is then encoded.           *)
LEMMA EncodeWalk ==
    ASSUME NEW D \in SUBSET Steps, NEW C \in SUBSET Steps,
           NEW s \in D \ (C \cup {"eject"}), NEW c \in Seq(StepCalls)
    PROVE  Walk(D, Within(s, c \o <<Need("encode")>>),
                P("none", C, "raw"), P("none", C \cup {s}, "enc"))
<1>1. "raw" \in Stages /\ "enc" \in Stages /\ s \in Steps
  BY DEF Stages, Steps
<1>2. /\ P(s, C, "raw") \in Places /\ P(s, C, "enc") \in Places
      /\ P(s, C, "raw").open = s /\ P(s, C, "raw").closed = C
      /\ P(s, C, "raw").stage = "raw"
      /\ Opened(P(s, C, "raw")) => Opened(P(s, C, "enc"))
  <2>1. /\ P(s, C, "raw") \in Places
        /\ P(s, C, "raw").open = s /\ P(s, C, "raw").closed = C
        /\ P(s, C, "raw").stage = "raw"
        /\ Opened(P(s, C, "raw")) <=> "eject" \in C \/ s = "eject"
    BY <1>1, PlaceIs
  <2>2. /\ P(s, C, "enc") \in Places
        /\ Opened(P(s, C, "enc")) <=> "eject" \in C \/ s = "eject"
    BY <1>1, PlaceIs
  <2> QED  BY <2>1, <2>2
<1>3. /\ Need("encode") \in Instructions /\ Need("encode").op = "need"
      /\ Need("encode").what = "encode"
  BY InstructionsAre
<1>4. Goes(D, P(s, C, "raw"), Need("encode"), P(s, C, "enc"))
  BY <1>2, <1>3 DEF Goes, GoEncode, Busy
<1>5. Walk(D, <<Need("encode")>>, P(s, C, "raw"), P(s, C, "enc"))
  BY <1>2, <1>3, <1>4, OneWalk
<1>6. Walk(D, c, P(s, C, "raw"), P(s, C, "raw"))
  BY <1>1, CallsWalk
<1>7. Walk(D, c \o <<Need("encode")>>, P(s, C, "raw"), P(s, C, "enc"))
  BY <1>5, <1>6, Glue
<1> QED  BY <1>1, <1>7, WithinWalk

(* A list of calls, and the last of them.                                  *)
LEMMA LastOfTwo ==
    ASSUME NEW T, NEW a \in T, NEW b \in T
    PROVE  <<a, b>> = <<a>> \o <<b>>
<1>1. /\ <<a, b>> \in Seq(T) /\ Len(<<a, b>>) = 2
      /\ <<a, b>>[1] = a /\ <<a, b>>[2] = b
  OBVIOUS
<1>2. /\ <<a>> \in Seq(T) /\ Len(<<a>>) = 1 /\ <<a>>[1] = a
      /\ <<b>> \in Seq(T) /\ Len(<<b>>) = 1 /\ <<b>>[1] = b
  OBVIOUS
<1> DEFINE q == <<a>> \o <<b>>
<1>3. /\ q \in Seq(T) /\ Len(q) = 1 + 1
      /\ \A i \in 1..1 + 1 : q[i] = IF i <= 1 THEN <<a>>[i] ELSE <<b>>[i - 1]
  BY <1>2, ConcatProperties
<1> HIDE DEF q
<1>4. Len(q) = 2 /\ q[1] = a /\ q[2] = b
  BY <1>2, <1>3
<1>5. \A i \in 1..2 : <<a, b>>[i] = q[i]
  <2>1. \A i \in 1..2 : i = 1 \/ i = 2
    OBVIOUS
  <2> QED  BY <1>1, <1>4, <2>1
<1> QED  BY <1>1, <1>3, <1>4, <1>5, SeqEqual DEF q

(* The last of three.                                                      *)
LEMMA LastOfThree ==
    ASSUME NEW T, NEW a \in T, NEW b \in T, NEW c \in T
    PROVE  <<a, b, c>> = <<a, b>> \o <<c>>
<1> DEFINE u == <<a, b, c>>
           v == <<a, b>>
           q == v \o <<c>>
<1>1. /\ u \in Seq(T) /\ Len(u) = 3 /\ u[1] = a /\ u[2] = b /\ u[3] = c
  OBVIOUS
<1>2. /\ v \in Seq(T) /\ Len(v) = 2 /\ v[1] = a /\ v[2] = b
      /\ <<c>> \in Seq(T) /\ Len(<<c>>) = 1 /\ <<c>>[1] = c
  OBVIOUS
<1> HIDE DEF u, v
<1>3. /\ q \in Seq(T) /\ Len(q) = 2 + 1
      /\ \A i \in 1..2 + 1 : q[i] = IF i <= 2 THEN v[i] ELSE <<c>>[i - 2]
  BY SMTT(30), <1>2, ConcatProperties
<1> HIDE DEF q
<1>4. Len(q) = 3 /\ q[1] = a /\ q[2] = b /\ q[3] = c
  BY <1>2, <1>3
<1>5. \A i \in 1..3 : u[i] = q[i]
  <2>1. \A i \in 1..3 : i = 1 \/ i = 2 \/ i = 3
    OBVIOUS
  <2> QED  BY <1>1, <1>4, <2>1
<1> QED  BY <1>1, <1>3, <1>4, <1>5, SeqEqual DEF q, u, v

(* The last of five.                                                       *)
LEMMA LastOfFive ==
    ASSUME NEW T, NEW a \in T, NEW b \in T, NEW c \in T, NEW d \in T,
           NEW e \in T
    PROVE  <<a, b, c, d, e>> = <<a, b, c, d>> \o <<e>>
<1> DEFINE u == <<a, b, c, d, e>>
           v == <<a, b, c, d>>
           z == <<e>>
           q == v \o z
<1>1. /\ u \in Seq(T) /\ Len(u) = 5 /\ u[1] = a /\ u[2] = b /\ u[3] = c
      /\ u[4] = d /\ u[5] = e
  OBVIOUS
<1>2. /\ v \in Seq(T) /\ Len(v) = 4 /\ v[1] = a /\ v[2] = b /\ v[3] = c
      /\ v[4] = d /\ z \in Seq(T) /\ Len(z) = 1 /\ z[1] = e
  OBVIOUS
<1> HIDE DEF u, v, z
<1>3. /\ q \in Seq(T) /\ Len(q) = 4 + 1
      /\ \A i \in 1..4 + 1 : q[i] = IF i <= 4 THEN v[i] ELSE z[i - 4]
  <2>1. v \in Seq(T) /\ z \in Seq(T) /\ Len(v) = 4 /\ Len(z) = 1
    BY <1>2
  <2>2. /\ q \in Seq(T) /\ Len(q) = Len(v) + Len(z)
        /\ \A i \in 1..Len(v) + Len(z) :
              q[i] = IF i <= Len(v) THEN v[i] ELSE z[i - Len(v)]
    BY <2>1, ConcatProperties
  <2> QED  BY <2>1, <2>2
<1> HIDE DEF q
<1>4. Len(q) = 5 /\ q[1] = a /\ q[2] = b /\ q[3] = c /\ q[4] = d /\ q[5] = e
  BY <1>2, <1>3
<1>5. \A i \in 1..5 : u[i] = q[i]
  <2>1. \A i \in 1..5 : i = 1 \/ i = 2 \/ i = 3 \/ i = 4 \/ i = 5
    OBVIOUS
  <2> QED  BY <1>1, <1>4, <2>1
<1> QED  BY <1>1, <1>3, <1>4, <1>5, SeqEqual DEF q, u, v, z

(* The calls there are.                                                    *)
LEMMA CallsAre ==
    /\ \A x \in Plain : /\ Need(x) \in StepCalls /\ Do(x) \in StepCalls
                        /\ Need(x) \in RipCalls /\ Do(x) \in RipCalls
    /\ \A x \in Discward : Read(x) \in RipCalls
    /\ StepCalls \in SUBSET Instructions /\ RipCalls \in SUBSET Instructions
    /\ <<>> \in Seq(StepCalls)
BY InstructionsAre DEF StepCalls, RipCalls

(* A single call is the last of a list.                                    *)
LEMMA MoveOnlyWalk ==
    ASSUME NEW D \in SUBSET Steps, NEW C \in SUBSET Steps,
           "move" \in D \ C, NEW g \in Stages \ {"lib"}, NEW x \in Names
    PROVE  Walk(D, Within("move", <<MoveFiles(g, x)>>),
                P("none", C, g), P("none", C \cup {"move"}, "lib"))
<1>1. <<>> \o <<MoveFiles(g, x)>> = <<MoveFiles(g, x)>>
  BY ConcatEmptySeq, InstructionsAre
<1>2. <<>> \in Seq(StepCalls)
  BY CallsAre
<1>3. Walk(D, Within("move", <<>> \o <<MoveFiles(g, x)>>),
           P("none", C, g), P("none", C \cup {"move"}, "lib"))
  BY <1>2, MoveWalk
<1> QED  BY <1>1, <1>3

(* A step that only encodes.                                               *)
LEMMA EncodeOnlyWalk ==
    ASSUME NEW D \in SUBSET Steps, NEW C \in SUBSET Steps,
           NEW s \in D \ (C \cup {"eject"})
    PROVE  Walk(D, Within(s, <<Need("encode")>>),
                P("none", C, "raw"), P("none", C \cup {s}, "enc"))
<1>1. <<>> \o <<Need("encode")>> = <<Need("encode")>>
  BY ConcatEmptySeq, InstructionsAre
<1>2. <<>> \in Seq(StepCalls)
  BY CallsAre
<1>3. Walk(D, Within(s, <<>> \o <<Need("encode")>>),
           P("none", C, "raw"), P("none", C \cup {s}, "enc"))
  BY <1>2, EncodeWalk
<1> QED  BY <1>1, <1>3

(* The step that copies a finished file into the library, with its         *)
(* sidecars.                                                               *)
LEMMA DeliveringWalk ==
    ASSUME NEW D \in SUBSET Steps, NEW C \in SUBSET Steps,
           "move" \in D \ C
    PROVE  Walk(D, Delivering, P("none", C, "raw"),
                P("none", C \cup {"move"}, "lib"))
<1>1. "raw" \in Stages \ {"lib"} /\ "own" \in Names /\ "render" \in Plain
  BY DEF Stages, Names, Plain
<1>2. /\ Need("render") \in StepCalls
      /\ Need("render") \in Instructions
      /\ MoveFiles("raw", "own") \in Instructions
      /\ <<Need("render")>> \in Seq(StepCalls)
  BY <1>1, CallsAre, InstructionsAre
<1>3. <<Need("render"), MoveFiles("raw", "own")>> =
         <<Need("render")>> \o <<MoveFiles("raw", "own")>>
  BY <1>2, LastOfTwo
<1> QED  BY <1>1, <1>2, <1>3, MoveWalk DEF Delivering

----------------------------------------------------------------------------

(* The halves of a handler, and the whole of it.                           *)
RipSteps == {"detect", "identify", "rip", "eject"}
RipWalks(q) ==
    \A D \in SUBSET Steps :
       RipSteps \subseteq D =>
          Walk(D, q, P("none", {}, "raw"), P("none", RipSteps, "raw"))
EncWalks(X, q) ==
    \A D, C \in SUBSET Steps :
       X \subseteq D \ C =>
          Walk(D, q, P("none", C, "raw"), P("none", C \cup X, "lib"))

(* A failure reported before its step.                                     *)
Earlies(s) == {Early(s, x) : x \in Plain}

(* Such reports leave the place as it is: the step has not begun.          *)
LEMMA EarlyWalk ==
    ASSUME NEW D \in SUBSET Steps, NEW C \in SUBSET Steps,
           NEW s \in D \ (C \cup {"eject"}), NEW g \in Stages,
           NEW q \in Seq(Earlies(s))
    PROVE  Walk(D, q, P("none", C, g), P("none", C, g))
<1>1. P("none", C, g) \in Places
  BY DEF P, Places
<1> DEFINE p == P("none", C, g)
<1>0. p.open = "none" /\ p.closed = C
  BY DEF P
<1> HIDE DEF p
<1>2. Earlies(s) \in SUBSET Instructions
  BY InstructionsAre DEF Earlies
<1>3. \A i \in Earlies(s) : Goes(D, p, i, p)
  <2>1. \A x \in Plain : /\ Early(s, x).op = "early"
                         /\ Early(s, x).step = s /\ Early(s, x).what = x
    BY InstructionsAre
  <2> QED  BY <1>0, <2>1 DEF Goes, GoEarly, Earlies
<1> QED  BY <1>1, <1>2, <1>3, StillWalk DEF p

(* A call whose failure nobody minds.                                      *)
LEMMA DoWalk ==
    ASSUME NEW D, NEW p \in Places, NEW x \in Plain
    PROVE  Walk(D, <<Do(x)>>, p, p)
<1>1. Do(x) \in Instructions /\ Do(x).op = "do" /\ Do(x).what = x
  BY InstructionsAre
<1>2. Goes(D, p, Do(x), p)
  BY <1>1 DEF Goes, GoDo
<1> QED  BY <1>1, <1>2, OneWalk

(* The drive half: opening, rip, eject.                                    *)
LEMMA RipHalf ==
    ASSUME NEW c \in Seq(RipCalls)
    PROVE  RipWalks(Opening \o Within("rip", c) \o RunEjectStep)
<1> SUFFICES ASSUME NEW D \in SUBSET Steps, RipSteps \subseteq D
             PROVE  Walk(D, Opening \o Within("rip", c) \o RunEjectStep,
                         P("none", {}, "raw"), P("none", RipSteps, "raw"))
  BY DEF RipWalks
<1> DEFINE A == {"detect", "identify"}
           B == A \cup {"rip"}
<1>1. /\ A \in SUBSET Steps /\ B \in SUBSET Steps /\ A \subseteq D
      /\ "rip" \in D \ (A \cup {"eject"}) /\ "eject" \notin A
      /\ "eject" \in D \ B /\ "raw" \in Stages
      /\ B \cup {"eject"} = RipSteps
  BY DEF RipSteps, Steps, Stages
<1>2. Walk(D, Opening, P("none", {}, "raw"), P("none", A, "raw"))
  BY <1>1, OpeningWalk
<1> HIDE DEF A
<1>3. Walk(D, Within("rip", c), P("none", A, "raw"), P("none", B, "raw"))
  BY <1>1, RipCallsWalk
<1> HIDE DEF B
<1>4. Walk(D, RunEjectStep, P("none", B, "raw"),
           P("none", RipSteps, "raw"))
  BY <1>1, EjectWalk
<1>5. Walk(D, Opening \o Within("rip", c), P("none", {}, "raw"),
           P("none", B, "raw"))
  BY <1>2, <1>3, Glue
<1> QED  BY <1>4, <1>5, Glue

(* Both halves, alone and together.                                        *)
LEMMA SplitSound ==
    ASSUME NEW rip, NEW cmp, NEW skip \in SUBSET TranscodeSteps,
           RipWalks(rip), EncWalks(TranscodeSteps \ skip, cmp)
    PROVE  /\ Walks(Steps \ TranscodeSteps, rip, "raw")
           /\ Walks(TranscodeSteps \ skip, cmp, "lib")
           /\ Walks(Steps \ skip, Whole(rip, cmp), "lib")
<1> DEFINE X == TranscodeSteps \ skip
           D == Steps \ skip
<1>1. /\ Steps \ TranscodeSteps = RipSteps
      /\ X \in SUBSET Steps /\ D \in SUBSET Steps /\ RipSteps \subseteq D
      /\ X \subseteq D \ RipSteps /\ RipSteps \cup X = D
      /\ RipSteps \in SUBSET Steps /\ "rip" \in D \ ({} \cup {"eject"})
      /\ {} \in SUBSET Steps /\ {} \cup X = X /\ X \subseteq X \ {}
      /\ "raw" \in Stages /\ "workdir" \in Plain
  BY DEF RipSteps, Steps, TranscodeSteps, Stages, Plain
<1>2. Walk(RipSteps, rip, P("none", {}, "raw"), P("none", RipSteps, "raw"))
  BY <1>1 DEF RipWalks
<1>3. Walk(X, cmp, P("none", {}, "raw"), P("none", X, "lib"))
  <2>1. Walk(X, cmp, P("none", {}, "raw"), P("none", {} \cup X, "lib"))
    BY <1>1 DEF EncWalks
  <2> QED  BY <1>1, <2>1
<1>4. Walk(D, rip, P("none", {}, "raw"), P("none", RipSteps, "raw"))
  BY <1>1 DEF RipWalks
<1>5. Walk(D, cmp, P("none", RipSteps, "raw"), P("none", D, "lib"))
  <2>1. Walk(D, cmp, P("none", RipSteps, "raw"),
             P("none", RipSteps \cup X, "lib"))
    BY <1>1 DEF EncWalks
  <2> QED  BY <1>1, <2>1
<1>6. <<Early("rip", "workdir")>> \in Seq(Earlies("rip"))
  BY <1>1 DEF Earlies
<1> HIDE DEF D, X
<1>7. Walk(D, <<Early("rip", "workdir")>>, P("none", {}, "raw"),
           P("none", {}, "raw"))
  BY <1>1, <1>6, EarlyWalk
<1>8. Walk(D, <<Early("rip", "workdir")>> \o rip, P("none", {}, "raw"),
           P("none", RipSteps, "raw"))
  BY <1>4, <1>7, Glue
<1>9. Walk(D, Whole(rip, cmp), P("none", {}, "raw"), P("none", D, "lib"))
  BY <1>5, <1>8, Glue DEF Whole
<1> QED  BY <1>1, <1>2, <1>3, <1>9 DEF Walks, D, X

(* Three pieces, four and five, one after the other.                       *)
LEMMA Glue3 ==
    ASSUME NEW D, NEW a, NEW b, NEW c, NEW p, NEW x, NEW y, NEW n,
           Walk(D, a, p, x), Walk(D, b, x, y), Walk(D, c, y, n)
    PROVE  Walk(D, a \o b \o c, p, n)
<1>1. Walk(D, a \o b, p, y)
  BY Glue
<1> QED  BY <1>1, Glue

(* Five.                                                                   *)
LEMMA Glue5 ==
    ASSUME NEW D, NEW a, NEW b, NEW c, NEW d, NEW e,
           NEW p, NEW x, NEW y, NEW z, NEW t, NEW n,
           Walk(D, a, p, x), Walk(D, b, x, y), Walk(D, c, y, z),
           Walk(D, d, z, t), Walk(D, e, t, n)
    PROVE  Walk(D, a \o b \o c \o d \o e, p, n)
<1>1. Walk(D, a \o b \o c, p, z)
  BY Glue3
<1>2. Walk(D, a \o b \o c \o d, p, t)
  BY <1>1, Glue
<1> QED  BY <1>2, Glue

(* Files into the library, and the notification.                           *)
LEMMA ShelvingWalk ==
    ASSUME NEW D \in SUBSET Steps, NEW C \in SUBSET Steps,
           {"move", "notify"} \subseteq D \ C,
           NEW g \in Stages \ {"lib"}, NEW x \in Names
    PROVE  Walk(D, Shelving(g, x), P("none", C, g),
                P("none", C \cup {"move", "notify"}, "lib"))
<1> DEFINE B == C \cup {"move"}
<1>1. /\ B \in SUBSET Steps /\ "move" \in D \ C /\ "notify" \in D \ B
      /\ B \cup {"notify"} = C \cup {"move", "notify"}
      /\ "sidecars" \in Plain /\ "lib" \in Stages
  BY DEF Steps, Plain, Stages
<1>2. Walk(D, Within("move", <<MoveFiles(g, x)>>), P("none", C, g),
           P("none", B, "lib"))
  BY <1>1, MoveOnlyWalk
<1> HIDE DEF B
<1>3. Walk(D, <<Do("sidecars")>>, P("none", B, "lib"), P("none", B, "lib"))
  BY SMTT(30), <1>1, PlaceIs, DoWalk
<1>4. Walk(D, RunNotifyStep, P("none", B, "lib"),
           P("none", B \cup {"notify"}, "lib"))
  BY <1>1, NotifyWalk
<1> QED  BY <1>1, <1>2, <1>3, <1>4, Glue3 DEF Shelving

(* The compute half of the video handlers that encode.                     *)
LEMMA EncodedWalk ==
    ASSUME NEW D \in SUBSET Steps, NEW C \in SUBSET Steps,
           {"transcode", "move", "notify"} \subseteq D \ C,
           NEW e \in Seq(Earlies("transcode")), NEW c,
           NEW g \in {"raw", "enc"}, NEW x \in Names,
           Walk(D, c, P("none", C, "raw"), P("none", C \cup {"transcode"}, g))
    PROVE  Walk(D, e \o c \o Shelving(g, x), P("none", C, "raw"),
                P("none", C \cup {"transcode", "move", "notify"}, "lib"))
<1> DEFINE B == C \cup {"transcode"}
<1>1. /\ B \in SUBSET Steps /\ {"move", "notify"} \subseteq D \ B
      /\ B \cup {"move", "notify"} = C \cup {"transcode", "move", "notify"}
      /\ "raw" \in Stages /\ g \in Stages \ {"lib"}
      /\ "transcode" \in D \ (C \cup {"eject"})
  BY DEF Steps, Stages
<1>2. Walk(D, e, P("none", C, "raw"), P("none", C, "raw"))
  BY <1>1, EarlyWalk
<1> HIDE DEF B
<1>3. Walk(D, Shelving(g, x), P("none", B, g),
           P("none", B \cup {"move", "notify"}, "lib"))
  BY <1>1, ShelvingWalk
<1> QED  BY <1>1, <1>2, <1>3, Glue3 DEF B
Encoding == {"transcode", "move", "notify"}

(* Such a compute half, from the start of its script to its end.           *)
LEMMA EncodedHalf ==
    ASSUME NEW e \in Seq(Earlies("transcode")), NEW c,
           NEW g \in {"raw", "enc"}, NEW x \in Names,
           \A D, C \in SUBSET Steps :
              "transcode" \in D \ C =>
                 Walk(D, c, P("none", C, "raw"),
                      P("none", C \cup {"transcode"}, g))
    PROVE  EncWalks(Encoding, e \o c \o Shelving(g, x))
<1> SUFFICES ASSUME NEW D \in SUBSET Steps, NEW C \in SUBSET Steps,
                    Encoding \subseteq D \ C
             PROVE  Walk(D, e \o c \o Shelving(g, x), P("none", C, "raw"),
                         P("none", C \cup Encoding, "lib"))
  BY DEF EncWalks
<1>1. "transcode" \in D \ C /\ {"transcode", "move", "notify"} \subseteq D \ C
  BY DEF Encoding
<1>2. Walk(D, c, P("none", C, "raw"), P("none", C \cup {"transcode"}, g))
  BY <1>1
<1> QED  BY <1>1, <1>2, EncodedWalk DEF Encoding

(* Their transcode steps.                                                  *)
LEMMA EncodeSteps ==
    ASSUME NEW D \in SUBSET Steps, NEW C \in SUBSET Steps,
           "transcode" \in D \ C
    PROVE  LET p == P("none", C, "raw")
               B == C \cup {"transcode"}
           IN  /\ Walk(D, Within("transcode", <<Need("encode")>>), p,
                       P("none", B, "enc"))
               /\ Walk(D, TranscodeMakeMKVRips, p, P("none", B, "enc"))
               /\ Walk(D, Step("transcode"), p, P("none", B, "raw"))
               /\ Walk(D, Within("transcode",
                             <<Need("scan"), Do("metadata"), Need("tools"),
                               Need("pick"), Need("encode")>>), p,
                       P("none", B, "enc"))
<1>1. /\ "transcode" \in D \ (C \cup {"eject"}) /\ "raw" \in Stages
      /\ {"scan", "metadata", "tools", "pick"} \subseteq Plain
  BY DEF Stages, Plain
<1>2. Walk(D, Within("transcode", <<Need("encode")>>),
           P("none", C, "raw"), P("none", C \cup {"transcode"}, "enc"))
  BY <1>1, EncodeOnlyWalk
<1>3. Walk(D, <<Early("transcode", "tools")>>,
           P("none", C, "raw"), P("none", C, "raw"))
  <2>1. <<Early("transcode", "tools")>> \in Seq(Earlies("transcode"))
    BY <1>1 DEF Earlies
  <2> QED  BY <1>1, <2>1, EarlyWalk
<1>4. Walk(D, TranscodeMakeMKVRips,
           P("none", C, "raw"), P("none", C \cup {"transcode"}, "enc"))
  BY <1>2, <1>3, Glue DEF TranscodeMakeMKVRips
<1>5. Walk(D, Step("transcode"),
           P("none", C, "raw"), P("none", C \cup {"transcode"}, "raw"))
  BY <1>1, StepWalk
<1> DEFINE c == <<Need("scan"), Do("metadata"), Need("tools"), Need("pick")>>
           e == <<Need("scan"), Do("metadata"), Need("tools"), Need("pick"),
                  Need("encode")>>
<1>6. c \in Seq(StepCalls)
  BY <1>1, CallsAre
<1>7. e = c \o <<Need("encode")>>
  <2>1. /\ Need("scan") \in Instructions /\ Do("metadata") \in Instructions
        /\ Need("tools") \in Instructions /\ Need("pick") \in Instructions
        /\ Need("encode") \in Instructions
    BY <1>1, InstructionsAre
  <2> QED  BY <2>1, LastOfFive
<1> HIDE DEF c, e
<1>8. Walk(D, Within("transcode", e),
           P("none", C, "raw"), P("none", C \cup {"transcode"}, "enc"))
  BY <1>1, <1>6, <1>7, EncodeWalk
<1> QED  BY <1>2, <1>4, <1>5, <1>8 DEF e

(* The compute halves of the video handlers.                               *)
LEMMA BdmvEncWalks == EncWalks(Encoding, BdmvEnc)
<1>1. /\ <<Early("transcode", "files"), Early("transcode", "tools")>>
            \in Seq(Earlies("transcode"))
      /\ "listed" \in Names
  BY DEF Earlies, Plain, Names
<1> QED  BY <1>1, EncodeSteps, EncodedHalf DEF BdmvEnc

(* The UHD half encodes nothing: it moves and notifies.                    *)
LEMMA UhdEncWalks == EncWalks({"move", "notify"}, UhdEnc)
<1> SUFFICES ASSUME NEW D \in SUBSET Steps, NEW C \in SUBSET Steps,
                    {"move", "notify"} \subseteq D \ C
             PROVE  Walk(D, UhdEnc, P("none", C, "raw"),
                         P("none", C \cup {"move", "notify"}, "lib"))
  BY DEF EncWalks
<1>1. /\ <<Early("move", "files")>> \in Seq(Earlies("move"))
      /\ "listed" \in Names /\ "raw" \in Stages \ {"lib"} /\ "raw" \in Stages
      /\ "move" \in D \ (C \cup {"eject"})
  BY DEF Earlies, Plain, Names, Stages
<1>2. Walk(D, <<Early("move", "files")>>,
           P("none", C, "raw"), P("none", C, "raw"))
  BY <1>1, EarlyWalk
<1>3. Walk(D, Shelving("raw", "listed"), P("none", C, "raw"),
           P("none", C \cup {"move", "notify"}, "lib"))
  BY <1>1, ShelvingWalk
<1> QED  BY <1>2, <1>3, Glue DEF UhdEnc

(* The DVD halves, from a backup or from MakeMKV's titles.                 *)
LEMMA DvdEncWalks ==
    /\ EncWalks(Encoding, DvdHandBrakeEnc)
    /\ EncWalks(Encoding, DvdMakeMKVEnc(Step("transcode"), "raw"))
    /\ EncWalks(Encoding, DvdMakeMKVEnc(TranscodeMakeMKVRips, "enc"))
<1>1. /\ <<Early("transcode", "files")>> \in Seq(Earlies("transcode"))
      /\ "listed" \in Names /\ "bare" \in Names
  BY DEF Earlies, Plain, Names
<1>2. EncWalks(Encoding, DvdHandBrakeEnc)
  BY <1>1, EncodeSteps, EncodedHalf DEF DvdHandBrakeEnc
<1>3. EncWalks(Encoding, DvdMakeMKVEnc(Step("transcode"), "raw"))
  BY <1>1, EncodeSteps, EncodedHalf DEF DvdMakeMKVEnc
<1>4. EncWalks(Encoding, DvdMakeMKVEnc(TranscodeMakeMKVRips, "enc"))
  BY <1>1, EncodeSteps, EncodedHalf DEF DvdMakeMKVEnc
<1> QED  BY <1>2, <1>3, <1>4

(* The compute halves of the game discs.                                   *)
LEMMA CdGameEncWalks == EncWalks({"compress", "move", "notify"}, CdGameEnc)
<1> DEFINE X == {"compress", "move", "notify"}
<1> SUFFICES ASSUME NEW D \in SUBSET Steps, NEW C \in SUBSET Steps,
                    X \subseteq D \ C
             PROVE  Walk(D, CdGameEnc, P("none", C, "raw"),
                         P("none", C \cup X, "lib"))
  BY DEF EncWalks
<1> DEFINE A == C \cup {"compress"}
           B == A \cup {"move"}
<1>1. /\ A \in SUBSET Steps /\ B \in SUBSET Steps
      /\ "compress" \in D \ (C \cup {"eject"}) /\ "move" \in D \ A
      /\ "notify" \in D \ B /\ B \cup {"notify"} = C \cup X
      /\ "enc" \in Stages \ {"lib"} /\ "lib" \in Stages
      /\ {"learn", "render"} \subseteq Plain /\ "own" \in Names
  BY DEF Steps, Stages, Plain, Names
<1>2. /\ Do("learn") \in Instructions /\ Need("encode") \in Instructions
      /\ Need("render") \in Instructions
      /\ MoveFiles("enc", "own") \in Instructions
  BY <1>1, InstructionsAre
<1>3. /\ <<Do("learn")>> \in Seq(StepCalls)
      /\ <<Need("render")>> \in Seq(StepCalls)
  BY <1>1, CallsAre
<1> HIDE DEF A, B, X
<1>4. Walk(D, Within("compress", <<Do("learn"), Need("encode")>>),
           P("none", C, "raw"), P("none", A, "enc"))
  <2>1. <<Do("learn"), Need("encode")>>
           = <<Do("learn")>> \o <<Need("encode")>>
    BY <1>2, LastOfTwo
  <2>2. Walk(D, Within("compress", <<Do("learn")>> \o <<Need("encode")>>),
             P("none", C, "raw"), P("none", C \cup {"compress"}, "enc"))
    BY <1>1, <1>3, EncodeWalk
  <2> QED  BY <2>1, <2>2 DEF A
<1>5. Walk(D, Within("move", <<Need("render"), MoveFiles("enc", "own")>>),
           P("none", A, "enc"), P("none", B, "lib"))
  <2>1. <<Need("render"), MoveFiles("enc", "own")>>
           = <<Need("render")>> \o <<MoveFiles("enc", "own")>>
    BY <1>2, LastOfTwo
  <2>2. Walk(D, Within("move", <<Need("render")>>
                               \o <<MoveFiles("enc", "own")>>),
             P("none", A, "enc"), P("none", A \cup {"move"}, "lib"))
    BY <1>1, <1>3, MoveWalk
  <2> QED  BY <2>1, <2>2 DEF B
<1>6. Walk(D, RunNotifyStep, P("none", B, "lib"), P("none", C \cup X, "lib"))
  <2>1. Walk(D, RunNotifyStep, P("none", B, "lib"),
             P("none", B \cup {"notify"}, "lib"))
    BY <1>1, NotifyWalk
  <2> QED  BY <1>1, <2>1
<1> QED  BY <1>4, <1>5, <1>6, Glue3 DEF CdGameEnc

(* A compute half that delivers without compressing first.                 *)
LEMMA DeliveredHalf ==
    ASSUME NEW x \in Plain
    PROVE  EncWalks({"move", "notify"},
                    <<Do(x)>> \o Delivering \o RunNotifyStep)
<1> DEFINE X == {"move", "notify"}
<1> SUFFICES ASSUME NEW D \in SUBSET Steps, NEW C \in SUBSET Steps,
                    X \subseteq D \ C
             PROVE  Walk(D, <<Do(x)>> \o Delivering \o RunNotifyStep,
                         P("none", C, "raw"), P("none", C \cup X, "lib"))
  BY DEF EncWalks
<1> DEFINE B == C \cup {"move"}
<1>1. /\ B \in SUBSET Steps /\ "move" \in D \ C
      /\ "notify" \in D \ B /\ B \cup {"notify"} = C \cup X
      /\ "raw" \in Stages /\ "lib" \in Stages
  BY DEF Steps, Stages
<1> HIDE DEF X
<1>2. Walk(D, <<Do(x)>>, P("none", C, "raw"), P("none", C, "raw"))
  BY <1>1, PlaceIs, DoWalk
<1>3. Walk(D, Delivering, P("none", C, "raw"), P("none", B, "lib"))
  BY <1>1, DeliveringWalk
<1> HIDE DEF B
<1>4. Walk(D, RunNotifyStep, P("none", B, "lib"),
           P("none", B \cup {"notify"}, "lib"))
  BY <1>1, NotifyWalk
<1> QED  BY <1>1, <1>2, <1>3, <1>4, Glue3

(* The Xbox halves and the Wii half.                                       *)
LEMMA XboxEncWalks ==
    /\ EncWalks({"move", "notify"}, XboxEnc)
    /\ EncWalks({"move", "notify"}, Xbox360Enc)
<1>1. "verify" \in Plain /\ "learn" \in Plain
  BY DEF Plain
<1> QED  BY <1>1, DeliveredHalf DEF XboxEnc, Xbox360Enc

(* The Wii U half, which may find its image decrypted.                     *)
LEMMA WiiUEncWalks == EncWalks({"move", "notify"}, WiiUEnc)
<1> DEFINE X == {"move", "notify"}
<1> SUFFICES ASSUME NEW D \in SUBSET Steps, NEW C \in SUBSET Steps,
                    X \subseteq D \ C
             PROVE  Walk(D, WiiUEnc, P("none", C, "raw"),
                         P("none", C \cup X, "lib"))
  BY DEF EncWalks
<1> DEFINE B == C \cup {"move"}
           g == "decrypted-or-raw"
           a == <<Need("render")>>
           b == <<Do("decrypt")>>
           m == <<MoveImageOrDir>>
<1>1. /\ B \in SUBSET Steps /\ "move" \in D \ C
      /\ "notify" \in D \ B /\ B \cup {"notify"} = C \cup X
      /\ "raw" \in Stages /\ "lib" \in Stages /\ g \in Stages /\ g # "lib"
      /\ {"learn", "render"} \subseteq Plain /\ "own" \in Names
      /\ "move" \in Steps /\ "move" \in D \ (C \cup {"eject"})
  BY DEF Steps, Stages, Plain, Names
<1>2. /\ Need("render") \in Instructions /\ Do("decrypt") \in Instructions
      /\ MoveImageOrDir \in Instructions
      /\ Do("decrypt").op = "do" /\ Do("decrypt").what = "decrypt"
      /\ MoveImageOrDir.op = "move" /\ MoveImageOrDir.step = g
      /\ MoveImageOrDir.what = "own"
  BY <1>1, InstructionsAre
<1>3. /\ P("move", C, "raw") \in Places /\ P("move", C, g) \in Places
      /\ P("move", C, "lib") \in Places
      /\ P("move", C, "raw").open = "move" /\ P("move", C, "raw").closed = C
      /\ P("move", C, "raw").stage = "raw"
      /\ P("move", C, g).open = "move" /\ P("move", C, g).closed = C
      /\ P("move", C, g).stage = g
      /\ Opened(P("move", C, "raw")) => Opened(P("move", C, g))
      /\ Opened(P("move", C, g)) => Opened(P("move", C, "lib"))
  <2>1. /\ P("move", C, "raw") \in Places
        /\ P("move", C, "raw").open = "move"
        /\ P("move", C, "raw").closed = C
        /\ P("move", C, "raw").stage = "raw"
        /\ Opened(P("move", C, "raw")) <=> "eject" \in C
    BY <1>1, PlaceIs
  <2>2. /\ P("move", C, g) \in Places
        /\ P("move", C, g).open = "move" /\ P("move", C, g).closed = C
        /\ P("move", C, g).stage = g
        /\ Opened(P("move", C, g)) <=> "eject" \in C
    BY SMTT(30), <1>1, PlaceIs
  <2>3. /\ P("move", C, "lib") \in Places
        /\ Opened(P("move", C, "lib")) <=> "eject" \in C
    BY <1>1, PlaceIs
  <2> QED  BY <2>1, <2>2, <2>3
<1>4. a \in Seq(StepCalls)
  BY <1>1, CallsAre
<1>5. <<Need("render"), Do("decrypt"), MoveImageOrDir>> = a \o b \o m
  BY <1>2, LastOfTwo, LastOfThree
<1> HIDE DEF X, B, g
<1>6. Walk(D, <<Do("learn")>>, P("none", C, "raw"), P("none", C, "raw"))
  <2>1. P("none", C, "raw") \in Places
    BY <1>1, PlaceIs
  <2> QED  BY <1>1, <2>1, DoWalk
<1>7. Walk(D, a, P("move", C, "raw"), P("move", C, "raw"))
  BY <1>1, <1>4, CallsWalk
<1>8. Walk(D, b, P("move", C, "raw"), P("move", C, g))
  <2>1. GoDecrypt(D, P("move", C, "raw"), Do("decrypt"), P("move", C, g))
    BY <1>2, <1>3 DEF GoDecrypt, g
  <2> QED  BY <1>2, <1>3, <2>1, OneWalk DEF Goes
<1>9. Walk(D, m, P("move", C, g), P("move", C, "lib"))
  <2>1. GoMove(D, P("move", C, g), MoveImageOrDir, P("move", C, "lib"))
    BY <1>1, <1>2, <1>3 DEF GoMove
  <2> QED  BY <1>2, <1>3, <2>1, OneWalk DEF Goes
<1>10. Walk(D, <<Need("render"), Do("decrypt"), MoveImageOrDir>>,
            P("move", C, "raw"), P("move", C, "lib"))
  BY <1>5, <1>7, <1>8, <1>9, Glue3
<1>11. Walk(D, Within("move", <<Need("render"), Do("decrypt"),
                                MoveImageOrDir>>),
            P("none", C, "raw"), P("none", B, "lib"))
  BY <1>1, <1>10, WithinWalk DEF B
<1>12. Walk(D, RunNotifyStep, P("none", B, "lib"),
            P("none", B \cup {"notify"}, "lib"))
  BY <1>1, NotifyWalk
<1> QED  BY <1>1, <1>6, <1>11, <1>12, Glue3 DEF WiiUEnc

(* The PS3 half.                                                           *)
LEMMA Ps3EncWalks == EncWalks({"move", "notify"}, Ps3Enc)
<1> DEFINE X == {"move", "notify"}
<1> SUFFICES ASSUME NEW D \in SUBSET Steps, NEW C \in SUBSET Steps,
                    X \subseteq D \ C
             PROVE  Walk(D, Ps3Enc, P("none", C, "raw"),
                         P("none", C \cup X, "lib"))
  BY DEF EncWalks
<1> DEFINE B == C \cup {"move"}
           a == <<Need("render")>>
           m == <<MoveDir>>
<1>1. /\ B \in SUBSET Steps /\ "move" \in D \ C
      /\ "notify" \in D \ B /\ B \cup {"notify"} = C \cup X
      /\ "raw" \in Stages /\ "lib" \in Stages
      /\ "render" \in Plain /\ "own" \in Names
      /\ "move" \in Steps /\ "move" \in D \ (C \cup {"eject"})
  BY DEF Steps, Stages, Plain, Names
<1>2. /\ Need("render") \in Instructions /\ MoveDir \in Instructions
      /\ MoveDir.op = "movedir" /\ MoveDir.step = "raw"
      /\ MoveDir.what = "own"
  BY <1>1, InstructionsAre
<1>3. /\ P("move", C, "raw") \in Places
      /\ P("move", C, "lib") \in Places
      /\ P("move", C, "raw").open = "move"
      /\ P("move", C, "raw").closed = C
      /\ P("move", C, "raw").stage = "raw"
      /\ Opened(P("move", C, "raw")) => Opened(P("move", C, "lib"))
  <2>1. "move" \in Steps \cup {"none"} /\ "raw" \in Stages /\ "lib" \in Stages
    BY <1>1
  <2> QED  BY <2>1, PlaceIs
<1>4. a \in Seq(StepCalls)
  BY <1>1, CallsAre
<1>5. <<Need("render"), MoveDir>> = a \o m
  BY <1>2, LastOfTwo
<1> HIDE DEF X, B
<1>6. <<Early("move", "files")>> \in Seq(Earlies("move"))
  BY DEF Earlies, Plain
<1>7. Walk(D, <<Early("move", "files")>>, P("none", C, "raw"),
           P("none", C, "raw"))
  BY <1>1, <1>6, EarlyWalk
<1>8. Walk(D, a, P("move", C, "raw"), P("move", C, "raw"))
  BY <1>1, <1>4, CallsWalk
<1>9. Walk(D, m, P("move", C, "raw"), P("move", C, "lib"))
  <2>1. GoMove(D, P("move", C, "raw"), MoveDir, P("move", C, "lib"))
    BY <1>1, <1>2, <1>3 DEF GoMove
  <2> QED  BY <1>2, <1>3, <2>1, OneWalk DEF Goes
<1>10. Walk(D, <<Need("render"), MoveDir>>,
            P("move", C, "raw"), P("move", C, "lib"))
  BY <1>5, <1>8, <1>9, Glue
<1>11. Walk(D, Within("move", <<Need("render"), MoveDir>>),
            P("none", C, "raw"), P("none", B, "lib"))
  BY <1>1, <1>10, WithinWalk DEF B
<1>12. Walk(D, RunNotifyStep, P("none", B, "lib"),
            P("none", B \cup {"notify"}, "lib"))
  BY <1>1, NotifyWalk
<1> QED  BY <1>1, <1>7, <1>11, <1>12, Glue3 DEF Ps3Enc

(* The drive halves.                                                       *)
LEMMA RipHalvesWalk ==
    /\ RipWalks(BdmvRip) /\ RipWalks(CdGameRip) /\ RipWalks(Ps3Rip)
    /\ RipWalks(DvdRip(DvdBackupRip)) /\ RipWalks(DvdRip(DvdMakeMKVRip))
<1>0. /\ {"probe", "tools", "pick", "mkdir", "space", "files", "keycache",
          "mount", "learn", "umount"} \subseteq Plain
      /\ {"scan", "titles", "image"} \subseteq Discward
  BY DEF Plain, Discward
<1>1. /\ Need("probe") \in RipCalls /\ Need("tools") \in RipCalls
      /\ Need("pick") \in RipCalls /\ Need("mkdir") \in RipCalls
      /\ Need("space") \in RipCalls /\ Need("files") \in RipCalls
      /\ Need("keycache") \in RipCalls /\ Need("mount") \in RipCalls
      /\ Do("learn") \in RipCalls
      /\ Read("scan") \in RipCalls /\ Read("titles") \in RipCalls
      /\ Read("image") \in RipCalls
  BY <1>0, CallsAre
<1>2. RipWalks(BdmvRip)
  <2> DEFINE c == <<Need("probe"), Need("tools"), Read("scan"),
                    Need("pick"), Need("mkdir"), Need("space"),
                    Read("titles"), Need("files")>>
  <2>1. c \in Seq(RipCalls)
    BY <1>1
  <2> QED  BY <2>1, RipHalf DEF BdmvRip
<1>3. RipWalks(CdGameRip)
  <2> DEFINE c == <<Need("probe"), Need("tools"), Need("mkdir"),
                    Read("image")>>
  <2>1. c \in Seq(RipCalls)
    BY <1>1
  <2> QED  BY <2>1, RipHalf DEF CdGameRip
<1>4. RipWalks(Ps3Rip)
  <2> DEFINE c == <<Need("probe"), Need("tools"), Need("mkdir"),
                    Need("keycache"), Need("mount"), Read("image"),
                    Do("learn")>>
             q == Opening \o Within("rip", c) \o RunEjectStep
  <2>1. c \in Seq(RipCalls)
    BY <1>1
  <2>2. RipWalks(q)
    BY <2>1, RipHalf
  <2> HIDE DEF q
  <2>3. SUFFICES ASSUME NEW D \in SUBSET Steps, RipSteps \subseteq D
                 PROVE  Walk(D, q \o <<Do("umount")>>,
                             P("none", {}, "raw"), P("none", RipSteps, "raw"))
    BY DEF RipWalks, Ps3Rip, q
  <2>4. Walk(D, q, P("none", {}, "raw"), P("none", RipSteps, "raw"))
    BY <2>2, <2>3 DEF RipWalks
  <2>5. P("none", RipSteps, "raw") \in Places /\ "umount" \in Plain
    <3>1. RipSteps \in SUBSET Steps /\ "raw" \in Stages
      BY DEF RipSteps, Steps, Stages
    <3> QED  BY <1>0, <3>1, PlaceIs
  <2>6. Walk(D, <<Do("umount")>>, P("none", RipSteps, "raw"),
             P("none", RipSteps, "raw"))
    BY <2>5, DoWalk
  <2> QED  BY <2>4, <2>6, Glue
<1>5. ASSUME NEW e \in Seq(RipCalls)
      PROVE  RipWalks(DvdRip(e))
  <2> DEFINE c == <<Need("probe"), Need("mkdir")>>
  <2>1. c \in Seq(RipCalls)
    BY <1>1
  <2> HIDE DEF c
  <2>2. c \o e \in Seq(RipCalls)
    BY <2>1, ConcatProperties
  <2> QED  BY <2>2, RipHalf DEF DvdRip, c
<1>6. DvdBackupRip \in Seq(RipCalls) /\ DvdMakeMKVRip \in Seq(RipCalls)
  BY <1>1 DEF DvdBackupRip, DvdMakeMKVRip
<1> QED  BY <1>2, <1>3, <1>4, <1>5, <1>6

(* Discs ripped in one job.                                                *)
OneJobSteps == Steps \ {"transcode", "compress"}

(* Such a job rips, moves, notifies and ejects, in this order.             *)
LEMMA OneJob ==
    ASSUME NEW c \in Seq(RipCalls), NEW m,
           Walk(OneJobSteps, m,
                P("none", {"detect", "identify", "rip"}, "raw"),
                P("none", {"detect", "identify", "rip", "move"}, "lib"))
    PROVE  Walks(OneJobSteps,
                 Opening \o Within("rip", c) \o m \o RunNotifyStep
                 \o RunEjectStep, "lib")
<1> DEFINE D == OneJobSteps
           A == {"detect", "identify"}
           B == {"detect", "identify", "rip"}
           E == {"detect", "identify", "rip", "move"}
           F == {"detect", "identify", "rip", "move", "notify"}
<1>1. /\ D \in SUBSET Steps /\ A \in SUBSET Steps /\ E \in SUBSET Steps
      /\ F \in SUBSET Steps /\ A \subseteq D /\ A \cup {"rip"} = B
      /\ "rip" \in D \ (A \cup {"eject"}) /\ "eject" \notin A
      /\ "notify" \in D \ E /\ E \cup {"notify"} = F
      /\ "eject" \in D \ F /\ F \cup {"eject"} = D
      /\ "raw" \in Stages /\ "lib" \in Stages
  BY DEF OneJobSteps, Steps, Stages
<1>2. Walk(D, Opening, P("none", {}, "raw"), P("none", A, "raw"))
  BY <1>1, OpeningWalk
<1> HIDE DEF D, A, B, E, F
<1>3. Walk(D, Within("rip", c), P("none", A, "raw"), P("none", B, "raw"))
  <2>1. Walk(D, Within("rip", c), P("none", A, "raw"),
             P("none", A \cup {"rip"}, "raw"))
    BY <1>1, RipCallsWalk
  <2> QED  BY <1>1, <2>1
<1>4. Walk(D, m, P("none", B, "raw"), P("none", E, "lib"))
  BY DEF D, B, E
<1>5. Walk(D, RunNotifyStep, P("none", E, "lib"), P("none", F, "lib"))
  <2>1. Walk(D, RunNotifyStep, P("none", E, "lib"),
             P("none", E \cup {"notify"}, "lib"))
    BY <1>1, NotifyWalk
  <2> QED  BY <1>1, <2>1
<1>6. Walk(D, RunEjectStep, P("none", F, "lib"), P("none", D, "lib"))
  <2>1. Walk(D, RunEjectStep, P("none", F, "lib"),
             P("none", F \cup {"eject"}, "lib"))
    BY <1>1, EjectWalk
  <2> QED  BY <1>1, <2>1
<1> QED  BY <1>2, <1>3, <1>4, <1>5, <1>6, Glue5 DEF Walks, D

(* The scripts of the audio, data and video CD handlers.                   *)
LEMMA OneJobWalks ==
    /\ Walks(OneJobSteps, AudioRun, "lib")
    /\ Walks(OneJobSteps, DataRun, "lib")
    /\ Walks(OneJobSteps, VcdRun, "lib")
<1> DEFINE B == {"detect", "identify", "rip"}
           E == {"detect", "identify", "rip", "move"}
<1>1. /\ {"workdir", "probe", "tools", "extras", "size", "hash",
          "files"} \subseteq Plain
      /\ {"tracks", "image"} \subseteq Discward
      /\ "raw" \in Stages \ {"lib"} /\ "own" \in Names /\ "files" \in Plain
      /\ OneJobSteps \in SUBSET Steps /\ B \in SUBSET Steps
      /\ "move" \in OneJobSteps \ B /\ B \cup {"move"} = E
  BY DEF Plain, Discward, Stages, Names, OneJobSteps, Steps
<1>2. /\ Need("workdir") \in RipCalls /\ Need("probe") \in RipCalls
      /\ Need("tools") \in RipCalls /\ Do("extras") \in RipCalls
      /\ Do("size") \in RipCalls /\ Need("hash") \in RipCalls
      /\ Need("files") \in RipCalls
      /\ Read("tracks") \in RipCalls /\ Read("image") \in RipCalls
      /\ Need("files") \in StepCalls
  BY <1>1, CallsAre
<1>3. Need("files") \in Instructions
      /\ MoveFiles("raw", "own") \in Instructions
  BY <1>1, InstructionsAre
<1> HIDE DEF B, E
<1>4. Walk(OneJobSteps, Delivering, P("none", B, "raw"), P("none", E, "lib"))
  <2>1. Walk(OneJobSteps, Delivering, P("none", B, "raw"),
             P("none", B \cup {"move"}, "lib"))
    BY <1>1, DeliveringWalk
  <2> QED  BY <1>1, <2>1
<1>5. Walk(OneJobSteps,
           Within("move", <<Need("files"), MoveFiles("raw", "own")>>),
           P("none", B, "raw"), P("none", E, "lib"))
  <2>1. <<Need("files"), MoveFiles("raw", "own")>>
           = <<Need("files")>> \o <<MoveFiles("raw", "own")>>
    BY <1>3, LastOfTwo
  <2>2. <<Need("files")>> \in Seq(StepCalls)
    BY <1>2
  <2>3. Walk(OneJobSteps,
             Within("move", <<Need("files")>> \o <<MoveFiles("raw", "own")>>),
             P("none", B, "raw"), P("none", B \cup {"move"}, "lib"))
    BY <1>1, <2>2, MoveWalk
  <2> QED  BY <1>1, <2>1, <2>3
<1>6. Walks(OneJobSteps, AudioRun, "lib")
  <2>1. <<Need("workdir"), Need("probe"), Need("tools"), Read("tracks"),
          Do("extras")>> \in Seq(RipCalls)
    BY <1>2
  <2> QED  BY <1>5, <2>1, OneJob DEF AudioRun, B, E
<1>7. Walks(OneJobSteps, DataRun, "lib")
  <2>1. <<Need("workdir"), Need("probe"), Do("size"), Need("tools"),
          Read("image"), Need("hash")>> \in Seq(RipCalls)
    BY <1>2
  <2> QED  BY <1>4, <2>1, OneJob DEF DataRun, B, E
<1>8. Walks(OneJobSteps, VcdRun, "lib")
  <2>1. <<Need("workdir"), Need("probe"), Need("tools"), Read("tracks"),
          Need("files")>> \in Seq(RipCalls)
    BY <1>2
  <2> QED  BY <1>4, <2>1, OneJob DEF VcdRun, B, E
<1> QED  BY <1>6, <1>7, <1>8

(* The scan for the titles of a disc.                                      *)
LEMMA ScanWalks == Walks(ScanSteps, BdmvScan, "raw")
<1>1. /\ ScanSteps \in SUBSET Steps /\ {} \in SUBSET Steps
      /\ "identify" \in ScanSteps \ ({} \cup {"eject"})
      /\ "eject" \notin {} /\ {} \cup {"identify"} = ScanSteps
      /\ "tools" \in Plain /\ "scan" \in Discward
  BY DEF ScanSteps, Steps, Plain, Discward
<1>2. <<Need("tools"), Read("scan")>> \in Seq(RipCalls)
  BY <1>1, CallsAre
<1>3. Walk(ScanSteps, BdmvScan, P("none", {}, "raw"),
           P("none", {} \cup {"identify"}, "raw"))
  BY <1>1, <1>2, RipCallsWalk DEF BdmvScan
<1> QED  BY <1>1, <1>3 DEF Walks

(* Every registered handler is sound.                                      *)
LEMMA SplitHandler ==
    ASSUME NEW skip \in SUBSET TranscodeSteps, NEW rip, NEW cmp,
           RipWalks(rip), EncWalks(TranscodeSteps \ skip, cmp)
    PROVE  LET h == Split(Skips(skip), rip, cmp, Whole(rip, cmp))
           IN  Sound(h) /\ Sound(Scanning(h, BdmvScan))
<1> DEFINE h == Split(Skips(skip), rip, cmp, Whole(rip, cmp))
           k == Scanning(h, BdmvScan)
<1>1. /\ h.skips.plan = skip /\ h.skips.enc = skip
      /\ h.rip = rip /\ h.enc = cmp /\ h.run = Whole(rip, cmp)
      /\ h.scan = <<>>
  BY DEF Split, Skips
<1>2. /\ k.skips.plan = skip /\ k.skips.enc = skip
      /\ k.rip = rip /\ k.enc = cmp /\ k.run = Whole(rip, cmp)
      /\ k.scan = BdmvScan
  BY DEF Split, Skips, Scanning
<1> HIDE DEF h, k
<1>3. /\ Walks(Steps \ TranscodeSteps, rip, "raw")
      /\ Walks(TranscodeSteps \ skip, cmp, "lib")
      /\ Walks(Steps \ skip, Whole(rip, cmp), "lib")
  BY SplitSound
<1>4. Sound(h)
  BY <1>1, <1>3 DEF Sound
<1>5. Sound(k)
  BY <1>2, <1>3, ScanWalks DEF Sound
<1> QED  BY <1>4, <1>5 DEF h, k

(* A handler with one script for the whole job is sound if the script is.  *)
LEMMA SingleHandler ==
    ASSUME NEW run, Walks(OneJobSteps, run, "lib")
    PROVE  Sound(Single(Skips({"transcode", "compress"}), run))
<1> DEFINE h == Single(Skips({"transcode", "compress"}), run)
<1>1. /\ h.skips.plan = {"transcode", "compress"}
      /\ h.rip = <<>> /\ h.run = run /\ h.scan = <<>>
  BY DEF Single, Split, Skips
<1> HIDE DEF h
<1>2. Sound(h)
  BY <1>1 DEF Sound, OneJobSteps
<1> QED  BY <1>2 DEF h

(* The handlers of Blu-ray, UHD and DVD.                                   *)
LEMMA VideoSound ==
    /\ Sound(Handlers.bdmv) /\ Sound(Handlers.uhd)
    /\ Sound(Handlers.dvd_handbrake) /\ Sound(Handlers.dvd_makemkv)
    /\ Sound(Handlers.dvd_both)
<1>1. /\ {"compress"} \in SUBSET TranscodeSteps
      /\ {"transcode", "compress"} \in SUBSET TranscodeSteps
      /\ TranscodeSteps \ {"compress"} = Encoding
      /\ TranscodeSteps \ {"transcode", "compress"} = {"move", "notify"}
  BY DEF TranscodeSteps, Encoding
<1>2. Sound(Scanning(Split(BdmvSkips, BdmvRip, BdmvEnc, BdmvRun), BdmvScan))
  BY <1>1, RipHalvesWalk, BdmvEncWalks, SplitHandler DEF BdmvSkips, BdmvRun
<1>3. Sound(Scanning(Split(UhdSkips, UhdRip, UhdEnc, UhdRun), UhdScan))
  BY <1>1, RipHalvesWalk, UhdEncWalks, SplitHandler
     DEF UhdSkips, UhdRun, UhdRip, UhdScan
<1>4. ASSUME NEW rip, NEW cmp, RipWalks(DvdRip(rip)), EncWalks(Encoding, cmp)
      PROVE  Sound(Dvd(rip, cmp))
  BY <1>1, <1>4, SplitHandler DEF Dvd, DvdSkips, DvdRun, DvdScan
<1>5. /\ Sound(Dvd(DvdBackupRip, DvdHandBrakeEnc))
      /\ Sound(Dvd(DvdMakeMKVRip, DvdMakeMKVEnc(Step("transcode"), "raw")))
      /\ Sound(Dvd(DvdMakeMKVRip,
                   DvdMakeMKVEnc(TranscodeMakeMKVRips, "enc")))
  BY <1>4, RipHalvesWalk, DvdEncWalks
<1> QED  BY <1>2, <1>3, <1>5 DEF Handlers

(* The handlers of discs ripped in one job.                                *)
LEMMA SinglesSound ==
    Sound(Handlers.audiocd) /\ Sound(Handlers.data) /\ Sound(Handlers.vcd)
BY OneJobWalks, SingleHandler DEF Handlers, AudioSkips, DataSkips, VcdSkips

(* The handlers of game discs.                                             *)
LEMMA GamesSound ==
    /\ Sound(Handlers.cdgame) /\ Sound(Handlers.dreamcast)
    /\ Sound(Handlers.xbox) /\ Sound(Handlers.xbox360)
    /\ Sound(Handlers.wii) /\ Sound(Handlers.wiiu) /\ Sound(Handlers.ps3)
<1>1. /\ {"transcode"} \in SUBSET TranscodeSteps
      /\ {"transcode", "compress"} \in SUBSET TranscodeSteps
      /\ TranscodeSteps \ {"transcode"} = {"compress", "move", "notify"}
      /\ TranscodeSteps \ {"transcode", "compress"} = {"move", "notify"}
  BY DEF TranscodeSteps
<1>2. ASSUME NEW rip, NEW cmp, RipWalks(rip),
             EncWalks({"move", "notify"}, cmp)
      PROVE  Sound(Split(Skips({"transcode", "compress"}), rip, cmp,
                         Whole(rip, cmp)))
  BY <1>1, <1>2, SplitHandler
<1>3. Sound(Split(CdGameSkips, CdGameRip, CdGameEnc, CdGameRun))
  BY <1>1, RipHalvesWalk, CdGameEncWalks, SplitHandler
     DEF CdGameSkips, CdGameRun
<1>4. Sound(Split(DreamcastSkips, DreamcastRip, DreamcastEnc, DreamcastRun))
  BY <1>3 DEF DreamcastSkips, DreamcastRip, DreamcastEnc, DreamcastRun,
              CdGameSkips, CdGameRun
<1>5. Sound(Split(XboxSkips, XboxRip, XboxEnc, XboxRun))
  BY <1>2, RipHalvesWalk, XboxEncWalks DEF XboxSkips, XboxRun, XboxRip
<1>6. Sound(Split(Xbox360Skips, Xbox360Rip, Xbox360Enc, Xbox360Run))
  BY <1>2, RipHalvesWalk, XboxEncWalks
     DEF Xbox360Skips, Xbox360Run, Xbox360Rip
<1>7. Sound(Split(WiiSkips, WiiRip, WiiEnc, WiiRun))
  BY <1>2, RipHalvesWalk, XboxEncWalks DEF WiiSkips, WiiRun, WiiRip, WiiEnc
<1>8. Sound(Split(WiiUSkips, WiiURip, WiiUEnc, WiiURun))
  BY <1>2, RipHalvesWalk, WiiUEncWalks DEF WiiUSkips, WiiURun, WiiURip
<1>9. Sound(Split(Ps3Skips, Ps3Rip, Ps3Enc, Ps3Run))
  BY <1>2, RipHalvesWalk, Ps3EncWalks DEF Ps3Skips, Ps3Run
<1> QED  BY <1>3, <1>4, <1>5, <1>6, <1>7, <1>8, <1>9 DEF Handlers

(* All that are registered.                                                *)
LEMMA HandlersSound == \A h \in DOMAIN Handlers : Sound(Handlers[h])
<1>1. DOMAIN Handlers =
         {"bdmv", "uhd", "dvd_handbrake", "dvd_makemkv", "dvd_both",
          "audiocd", "data", "vcd", "cdgame", "dreamcast", "xbox",
          "xbox360", "wii", "wiiu", "ps3"}
  BY DEF Handlers
<1> QED  BY <1>1, VideoSound, SinglesSound, GamesSound

----------------------------------------------------------------------------

(* The job on its way.                                                     *)

(* What a handler's function is called with does not change under it.      *)
LEMMA Same ==
    ASSUME UNCHANGED <<job, half>>
    PROVE  /\ H' = H /\ Script' = Script /\ Due' = Due /\ Kind' = Kind
           /\ Goal' = Goal
           /\ \A s : FirstRow(s)' = FirstRow(s)
           /\ \A w : Path(w)' <=> Path(w)
BY DEF H, Script, Due, Kind, Goal, FirstRow, Path

(* The steps a half is to run are among those it has rows for.             *)
LEMMA DueIsOfKind ==
    ASSUME TypeOK
    PROVE  Due \subseteq Kind /\ Kind \subseteq Steps
BY DEF TypeOK, Due, Kind, TranscodeSteps, ScanSteps, Steps

(* A script is a sequence of instructions, and a number counts them.       *)
LEMMA PathIs ==
    ASSUME NEW w, Path(w)
    PROVE  /\ Script \in Seq(Instructions) /\ Len(Script) \in Nat
           /\ w \in [1..Len(Script) + 1 -> Places]
           /\ \A k \in 1..Len(Script) : Goes(Due, w[k], Script[k], w[k + 1])
           /\ \A k, l \in 1..Len(Script) + 1 :
                 k <= l /\ Opened(w[k]) => Opened(w[l])
BY DEF Path, IsWalk

(* No loop over titles looks like the absence of one.                      *)
Files == [title : Titles, slot : Slots]

(* The mark is neither a list of files nor the empty list.                 *)
LEMMA NoLoopIsNone == NoLoop \notin Seq(Files) /\ NoLoop # <<>>
<1>1. NoLoop[1] = [title |-> 0, slot |-> 0] /\ Len(NoLoop) = 1
  BY DEF NoLoop
<1>2. \A q \in Seq(Files) : Len(q) = 1 => q[1] \in Files
  BY ElementOfSeq
<1>3. 0 \notin Titles
  BY DEF Titles
<1>4. [title |-> 0, slot |-> 0] \notin Files
  BY <1>3 DEF Files
<1>5. Len(<<>>) = 0
  OBVIOUS
<1> QED  BY <1>1, <1>2, <1>4, <1>5

(* Between two instructions.                                               *)
Between(w, p, n) ==
    /\ Path(w) /\ Stands(w)
    /\ pc \in 1..Len(Script) /\ p = w[pc] /\ n = w[pc + 1]
    /\ p \in Places /\ n \in Places /\ Now \in Instructions
    /\ Goes(Due, p, Now, n)
    /\ Here(p) /\ (Opened(p) => Opened(n))
    /\ half = "drive" /\ tray = "out" => Opened(p)

(* While a function runs, a walk and the two places around pc exist.       *)
LEMMA Standing ==
    ASSUME TypeOK, Walking, Running
    PROVE  \E w, p, n : Between(w, p, n)
<1>1. PICK w : Path(w) /\ Stands(w)
  BY DEF Walking
<1>2. /\ Len(Script) \in Nat /\ pc \in 1..Len(Script)
      /\ pc \in 1..Len(Script) + 1 /\ pc + 1 \in 1..Len(Script) + 1
      /\ pc <= pc + 1
  BY <1>1, PathIs DEF TypeOK, Running
<1>3. /\ w[pc] \in Places /\ w[pc + 1] \in Places
      /\ Goes(Due, w[pc], Script[pc], w[pc + 1])
      /\ Opened(w[pc]) => Opened(w[pc + 1])
  BY <1>1, <1>2, PathIs
<1>4. Now \in Instructions
  BY <1>1, <1>2, PathIs, ElementOfSeq DEF Now
<1>5. Between(w, w[pc], w[pc + 1])
  BY <1>1, <1>2, <1>3, <1>4 DEF Between, Stands, Now, Running
<1> QED  BY <1>5

(* On to the next instruction, or not yet.                                 *)
LEMMA Forward ==
    ASSUME UNCHANGED <<job, half>>, NEW w, NEW p, NEW n, Between(w, p, n),
           pc' = pc + 1, Here(n)',
           half = "drive" /\ tray' = "out" => tray = "out" \/ Opened(n)
    PROVE  Walking' /\ pc' \in 1..Len(Script') + 1
<1>1. Path(w)' /\ Script' = Script
  BY Same DEF Between
<1>2. n = w[pc'] /\ pc' \in 1..Len(Script') + 1
  <2>1. Len(Script) \in Nat
    BY PathIs DEF Between
  <2> QED  BY <1>1, <2>1 DEF Between
<1>3. half' = "drive" /\ tray' = "out" => Opened(n)
  BY DEF Between
<1>4. Stands(w)'
  BY <1>2, <1>3 DEF Stands
<1> QED  BY <1>1, <1>2, <1>4 DEF Walking

(* The counter has not moved and the place is held again.                  *)
LEMMA Waiting ==
    ASSUME UNCHANGED <<job, half, tray, pc>>, NEW w, NEW p, NEW n,
           Between(w, p, n), result' = "none" => Here(p)'
    PROVE  Walking' /\ pc' \in 1..Len(Script') + 1
<1>1. Path(w)' /\ Script' = Script
  BY Same DEF Between
<1>2. p = w[pc'] /\ pc' \in 1..Len(Script') + 1
  <2>1. Len(Script) \in Nat
    BY PathIs DEF Between
  <2> QED  BY <1>1, <2>1 DEF Between
<1>3. half' = "drive" /\ tray' = "out" => Opened(p)
  BY DEF Between
<1>4. Stands(w)'
  BY <1>2, <1>3 DEF Stands
<1> QED  BY <1>1, <1>2, <1>4 DEF Walking

(* What a step of a function that has not returned must keep.              *)
LEMMA StillGoing ==
    ASSUME IInv, UNCHANGED <<job, half>>, result = "none", result' = "none",
           TypeOK', work => work', Sheltered', RowsKept', Walking'
    PROVE  IInv'
<1>1. Modes'
  BY Same DEF IInv, Modes
<1>2. Works'
  BY DEF IInv, Modes, Works, TypeOK
<1>3. AllDelivered' /\ PlanHonoured' /\ ErrorIsShown'
  BY DEF AllDelivered, PlanHonoured, ErrorIsShown
<1> QED  BY <1>1, <1>2, <1>3 DEF IInv

(* An event of a step that is due, or that is not the half's own.          *)
LEMMA RowWritten ==
    ASSUME TypeOK, Modes, RowsKept, UNCHANGED <<job, half>>, NEW s \in Steps,
           NEW st \in {"running", "done", "failed"},
           UpdateJobStepState(s, st),
           half = "compute" => s \in Due \/ s \notin TranscodeSteps
    PROVE  /\ rows' \in [{"drive", "compute"} -> [Steps -> RowStates]]
           /\ RowsKept'
           /\ \A o \in Steps :
                 rows'[half][o] = IF o = s /\ rows[half][o] # "absent"
                                  THEN st ELSE rows[half][o]
<1>1. /\ rows \in [{"drive", "compute"} -> [Steps -> RowStates]]
      /\ half \in {"drive", "compute"} /\ st \in RowStates
  BY DEF TypeOK, RowStates
<1>2. /\ rows' \in [{"drive", "compute"} -> [Steps -> RowStates]]
      /\ \A h \in {"drive", "compute"}, o \in Steps :
            rows'[h][o] = IF h = half /\ o = s /\ rows[h][o] # "absent"
                          THEN st ELSE rows[h][o]
  BY <1>1 DEF UpdateJobStepState
<1>3. RowsKept'
  <2> SUFFICES ASSUME half = "compute", NEW o \in Steps
               PROVE  /\ rows'["drive"][o] = IF o \in TranscodeSteps
                                             THEN "skipped" ELSE "done"
                      /\ rows'["compute"][o] = "absent"
                            <=> o \notin TranscodeSteps
                      /\ rows'["compute"][o] = "skipped" <=>
                            o \in TranscodeSteps \cap H.skips.enc
    BY Same DEF RowsKept
  <2>1. rows'["drive"][o] = rows["drive"][o]
    BY <1>2
  <2>2. CASE o = s /\ rows["compute"][o] # "absent"
    <3>1. rows'["compute"][o] = st
      BY <1>2, <2>2
    <3>2. o \in Due
      BY <2>2 DEF RowsKept
    <3> QED  BY <2>1, <2>2, <3>1, <3>2 DEF RowsKept, Due
  <2>3. CASE ~(o = s /\ rows["compute"][o] # "absent")
    <3>1. rows'["compute"][o] = rows["compute"][o]
      BY <1>2, <2>3
    <3> QED  BY <2>1, <3>1 DEF RowsKept
  <2> QED  BY <2>2, <2>3
<1> QED  BY <1>1, <1>2, <1>3

(* What is not looping is at its place with its files there.               *)
LEMMA NotLooping ==
    ASSUME NEW p, Here(p), ~Looping
    PROVE  todo = NoLoop /\ StageHolds(p.stage) /\ RowsAt(p)
BY DEF Here, LoopHolds

(* Files that stay where they are stay in the library or at their stage.   *)
LEMMA FilesSame ==
    ASSUME UNCHANGED <<raw, enc, lib, captured>>
    PROVE  /\ \A t : InLibrary(t)' <=> InLibrary(t)
           /\ \A g : StageHolds(g)' <=> StageHolds(g)
BY DEF InLibrary, StageHolds

(* Outside a loop a place is held by its rows and its files.               *)
LEMMA HereAgain ==
    ASSUME NEW n, todo' = NoLoop, RowsAt(n)', StageHolds(n.stage)'
    PROVE  Here(n)'
BY DEF Here

(* A step starts.                                                          *)
LEMMA StartsPending ==
    ASSUME IInv, StepStart, NEW w, NEW p, NEW n, Between(w, p, n)
    PROVE  /\ GoStart(Due, p, Now, n)
           /\ Now.step \in Steps /\ rows[half][Now.step] = "pending"
           /\ \A o \in Steps : rows[half][o] # "running"
<1>1. Now.op = "start" /\ Goes(Due, p, Now, n) /\ RowsAt(p) /\ TypeOK
  BY DEF StepStart, Between, Here, IInv
<1>2. GoStart(Due, p, Now, n)
  BY <1>1 DEF Goes, GoStart, GoDone, GoEarly, GoDo, GoDecrypt, GoNeed,
              GoEncode, GoRead, GoMove
<1>3. p.open = "none" /\ Now.step \in Due /\ Now.step \notin p.closed
  BY <1>2 DEF GoStart
<1>4. Now.step \in Steps /\ Now.step \in Kind /\ "none" \notin Steps
  BY <1>1, <1>3, DueIsOfKind DEF Steps
<1>5. \A o \in Steps :
         rows[half][o] = IF o \in p.closed THEN "done" ELSE FirstRow(o)
  BY <1>1, <1>3, <1>4 DEF RowsAt
<1>6. FirstRow(Now.step) = "pending"
      /\ \A o \in Steps : FirstRow(o) # "running"
  BY <1>3, <1>4 DEF FirstRow
<1> QED  BY <1>2, <1>3, <1>4, <1>5, <1>6

(* Starting a step keeps the invariant.                                    *)
LEMMA StepStartKeeps ==
    ASSUME IInv, StepStart
    PROVE  IInv'
<1>1. PICK w, p, n : Between(w, p, n)
  BY Standing DEF IInv, StepStart
<1>2. /\ TypeOK /\ Modes /\ RowsKept /\ UNCHANGED <<job, half>>
      /\ UNCHANGED <<todo, result, tray, work, mounted, raw, enc, lib,
                     captured, stored, seen, tries>>
      /\ pc' = pc + 1 /\ result = "none" /\ Running
      /\ UpdateJobStepState(Now.step, "running") /\ Now.op = "start"
  BY DEF IInv, StepStart, fixed, place, files, names, Advance, Running
<1>3. /\ GoStart(Due, p, Now, n) /\ Now.step \in Steps
      /\ rows[half][Now.step] = "pending"
  BY <1>1, StartsPending
<1>4. Now.step \in Due /\ n = P(Now.step, p.closed, p.stage)
      /\ p.open = "none" /\ Now.what = "-"
  BY <1>3 DEF GoStart
<1>5. /\ rows' \in [{"drive", "compute"} -> [Steps -> RowStates]]
      /\ RowsKept'
      /\ \A o \in Steps :
            rows'[half][o] = IF o = Now.step /\ rows[half][o] # "absent"
                             THEN "running" ELSE rows[half][o]
  BY <1>2, <1>3, <1>4, RowWritten
<1>6. n.open = Now.step /\ n.closed = p.closed /\ n.stage = p.stage
  BY <1>4 DEF P
<1>7. RowsAt(p) /\ todo = NoLoop /\ StageHolds(p.stage)
  <2>1. ~Looping
    BY <1>2, <1>4 DEF Looping
  <2> QED  BY <1>1, <2>1, NotLooping DEF Between
<1>8. RowsAt(n)'
  <2>1. \A o \in Steps : o # Now.step =>
           rows'[half][o] = IF o \in n.closed THEN "done" ELSE FirstRow(o)
    BY <1>4, <1>5, <1>6, <1>7 DEF RowsAt, Steps
  <2>2. rows'[half][Now.step] = "running"
    BY <1>3, <1>5
  <2> QED  BY <1>2, <1>6, <2>1, <2>2, Same DEF RowsAt
<1>9. Here(n)'
  BY <1>2, <1>6, <1>7, <1>8, FilesSame, HereAgain
<1>10. Walking' /\ pc' \in 1..Len(Script') + 1
  BY <1>1, <1>2, <1>9, Forward
<1>11. TypeOK'
  BY <1>2, <1>5, <1>10 DEF TypeOK
<1>12. Sheltered'
  BY <1>2, FilesSame DEF IInv, Sheltered
<1> QED  BY <1>2, <1>5, <1>10, <1>11, <1>12, StillGoing

(* A step ends.                                                            *)
LEMMA StepDoneKeeps ==
    ASSUME IInv, StepDone
    PROVE  IInv'
<1>1. PICK w, p, n : Between(w, p, n)
  BY Standing DEF IInv, StepDone
<1>2. /\ TypeOK /\ Modes /\ RowsKept /\ UNCHANGED <<job, half>>
      /\ UNCHANGED <<todo, result, tray, work, mounted, raw, enc, lib,
                     captured, stored, seen, tries>>
      /\ pc' = pc + 1 /\ result = "none" /\ Running
      /\ UpdateJobStepState(Now.step, "done") /\ Now.op = "done"
  BY DEF IInv, StepDone, fixed, place, files, names, Advance, Running
<1>3. GoDone(Due, p, Now, n)
  BY <1>1, <1>2 DEF Between, Goes, GoStart, GoDone, GoEarly, GoDo, GoDecrypt,
                    GoNeed, GoEncode, GoRead, GoMove
<1>4. /\ Now.step \in Due /\ p.open = Now.step /\ Now.what = "-"
      /\ n = P("none", p.closed \cup {Now.step}, p.stage)
  BY <1>3 DEF GoDone
<1>5. Now.step \in Steps /\ "none" \notin Steps
  BY <1>2, <1>4, DueIsOfKind DEF Steps
<1>6. /\ rows' \in [{"drive", "compute"} -> [Steps -> RowStates]]
      /\ RowsKept'
      /\ \A o \in Steps :
            rows'[half][o] = IF o = Now.step /\ rows[half][o] # "absent"
                             THEN "done" ELSE rows[half][o]
  BY <1>2, <1>4, <1>5, RowWritten
<1>7. /\ n.open = "none" /\ n.closed = p.closed \cup {Now.step}
      /\ n.stage = p.stage
  BY <1>4 DEF P
<1>8. RowsAt(p) /\ todo = NoLoop /\ StageHolds(p.stage)
  <2>1. ~Looping
    BY <1>2, <1>4 DEF Looping
  <2> QED  BY <1>1, <2>1, NotLooping DEF Between
<1>9. RowsAt(n)'
  <2>1. \A o \in Steps : o # Now.step =>
           rows'[half][o] = IF o \in n.closed THEN "done" ELSE FirstRow(o)
    BY SMTT(30), <1>4, <1>6, <1>7, <1>8 DEF RowsAt
  <2>2. rows[half][Now.step] \in {"running", "failed"}
    BY <1>4, <1>5, <1>8 DEF RowsAt
  <2>3. rows'[half][Now.step] = "done"
    BY <1>5, <1>6, <2>2
  <2>4. \A o \in Steps :
           rows'[half][o] = IF o \in n.closed THEN "done" ELSE FirstRow(o)
    BY <1>7, <2>1, <2>3
  <2>5. \A o \in Steps : o # n.open
    BY <1>5, <1>7
  <2> QED  BY <1>2, <2>4, <2>5, Same DEF RowsAt
<1>10. Here(n)'
  BY <1>2, <1>7, <1>8, <1>9, FilesSame, HereAgain
<1>11. Walking' /\ pc' \in 1..Len(Script') + 1
  BY <1>1, <1>2, <1>10, Forward
<1>12. TypeOK'
  BY <1>2, <1>6, <1>11 DEF TypeOK
<1>13. Sheltered'
  BY <1>2, FilesSame DEF IInv, Sheltered
<1> QED  BY <1>2, <1>6, <1>11, <1>12, <1>13, StillGoing

(* A call that leaves the place as it is.                                  *)
LEMMA OnTheSpot ==
    ASSUME UNCHANGED <<job, half, todo, rows, tray>>, pc' = pc + 1,
           NEW w, NEW p, NEW n, Between(w, p, n), ~Looping,
           n.open = p.open, n.closed = p.closed,
           StageHolds(n.stage)'
    PROVE  Walking' /\ pc' \in 1..Len(Script') + 1
<1>1. todo = NoLoop /\ RowsAt(p)
  BY NotLooping DEF Between
<1>2. RowsAt(n)'
  BY <1>1, Same DEF RowsAt
<1>3. Here(n)'
  BY <1>1, <1>2, HereAgain
<1> QED  BY <1>3, Forward

(* Rows that are not written stay those of the plan.                       *)
LEMMA RowsStay ==
    ASSUME RowsKept, UNCHANGED <<job, half, rows>>
    PROVE  RowsKept'
BY Same DEF RowsKept

(* A call that succeeds keeps the invariant.                               *)
LEMMA CallKeeps ==
    ASSUME IInv, Call
    PROVE  IInv'
<1>1. PICK w, p, n : Between(w, p, n)
  BY Standing DEF IInv, Call
<1>2. /\ TypeOK /\ RowsKept /\ Sheltered /\ UNCHANGED <<job, half>>
      /\ UNCHANGED <<todo, rows, result, tray, raw, enc, lib, captured,
                     stored, seen, tries>>
      /\ pc' = pc + 1 /\ result = "none" /\ Running
      /\ Now.op \in Calls /\ ~Looping
      /\ Now.what \notin {"image", "tracks", "learn", "decrypt", "eject"}
      /\ work' = (work \/ Now.what = "workdir")
      /\ mounted' = ((mounted \/ Now.what = "mount") /\ Now.what # "umount")
  BY DEF IInv, Call, fixed, files, names, Advance, Running
<1>3. n = p
  <2>1. Goes(Due, p, Now, n) /\ Now.what # "encode"
    BY <1>1, <1>2 DEF Between, Looping
  <2> QED  BY <1>2, <2>1 DEF Goes, GoStart, GoDone, GoEarly, GoDo,
              GoDecrypt, GoNeed, GoEncode, GoRead, GoMove, Calls
<1>4. StageHolds(n.stage)'
  BY <1>1, <1>2, <1>3, FilesSame, NotLooping DEF Between
<1>5. Walking' /\ pc' \in 1..Len(Script') + 1
  BY <1>1, <1>2, <1>3, <1>4, OnTheSpot
<1>6. TypeOK'
  BY <1>2, <1>5 DEF TypeOK
<1>7. Sheltered'
  BY <1>2, FilesSame DEF Sheltered
<1>8. RowsKept' /\ (work => work')
  BY <1>2, RowsStay
<1> QED  BY <1>2, <1>5, <1>6, <1>7, <1>8, StillGoing

(* The disc is read whole.                                                 *)
LEMMA ReadWholeKeeps ==
    ASSUME IInv, ReadWhole
    PROVE  IInv'
<1>1. PICK w, p, n : Between(w, p, n)
  BY Standing DEF IInv, ReadWhole
<1>2. /\ TypeOK /\ RowsKept /\ UNCHANGED <<job, half>>
      /\ UNCHANGED <<todo, rows, result, tray, work, mounted, enc, lib,
                     stored, seen, tries>>
      /\ pc' = pc + 1 /\ result = "none" /\ Running
      /\ Now.what \in {"image", "tracks"}
      /\ raw' \in IF Now.what = "image" THEN {1..job.n}
                  ELSE SUBSET (1..job.n)
      /\ captured' = raw'
  BY DEF IInv, ReadWhole, fixed, place, names, Advance, Running
<1>3. GoRead(Due, p, Now, n)
  BY <1>1, <1>2 DEF Between, Goes, GoStart, GoDone, GoEarly, GoDo, GoDecrypt,
                    GoNeed, GoEncode, GoRead, GoMove, Plain, Names
<1>4. n = p /\ p.stage = "raw" /\ Now.op = "read" /\ ~Looping
  BY <1>2, <1>3 DEF GoRead, Looping
<1>5. StageHolds(n.stage)'
  BY <1>4 DEF StageHolds
<1>6. Walking' /\ pc' \in 1..Len(Script') + 1
  BY <1>1, <1>2, <1>4, <1>5, OnTheSpot
<1>7. raw' \subseteq Titles
  <2>1. job.n \in Titles
    BY <1>2 DEF TypeOK
  <2>2. 1..job.n \subseteq Titles
    BY <2>1, BoundsAssumption DEF Titles
  <2> QED  BY <1>2, <2>2
<1>8. TypeOK'
  BY <1>2, <1>6, <1>7 DEF TypeOK
<1>9. Sheltered'
  BY <1>2 DEF Sheltered
<1>10. RowsKept'
  BY <1>2, RowsStay
<1> QED  BY <1>2, <1>6, <1>8, <1>9, <1>10, StillGoing

(* A title learnt on the way.                                              *)
LEMMA LearnKeeps ==
    ASSUME IInv, Learn
    PROVE  IInv'
<1>1. PICK w, p, n : Between(w, p, n)
  BY Standing DEF IInv, Learn, At
<1>2. /\ TypeOK /\ RowsKept /\ Sheltered /\ UNCHANGED <<job, half>>
      /\ UNCHANGED <<todo, rows, result, tray, work, mounted, raw, enc, lib,
                     captured, stored, tries>>
      /\ pc' = pc + 1 /\ result = "none" /\ Running
      /\ Now.op = "do" /\ Now.what = "learn" /\ seen' \in {seen, TRUE}
  BY DEF IInv, Learn, At, fixed, place, files, Advance, Running
<1>3. n = p /\ ~Looping
  BY <1>1, <1>2 DEF Between, Goes, GoStart, GoDone, GoEarly, GoDo, GoDecrypt,
                    GoNeed, GoEncode, GoRead, GoMove, Looping
<1>4. StageHolds(n.stage)'
  BY <1>1, <1>2, <1>3, FilesSame, NotLooping DEF Between
<1>5. Walking' /\ pc' \in 1..Len(Script') + 1
  BY <1>1, <1>2, <1>3, <1>4, OnTheSpot
<1>6. TypeOK'
  BY <1>2, <1>5 DEF TypeOK
<1>7. Sheltered'
  BY <1>2, FilesSame DEF Sheltered
<1>8. RowsKept'
  BY <1>2, RowsStay
<1> QED  BY <1>2, <1>5, <1>6, <1>7, <1>8, StillGoing

(* A decrypted copy beside the image, or none.                             *)
LEMMA TryDecryptKeeps ==
    ASSUME IInv, TryDecrypt
    PROVE  IInv'
<1>1. PICK w, p, n : Between(w, p, n)
  BY Standing DEF IInv, TryDecrypt, At
<1>2. /\ TypeOK /\ RowsKept /\ Sheltered /\ UNCHANGED <<job, half>>
      /\ UNCHANGED <<todo, rows, result, tray, work, mounted, raw, lib,
                     captured, stored, seen, tries>>
      /\ pc' = pc + 1 /\ result = "none" /\ Running
      /\ Now.op = "do" /\ Now.what = "decrypt" /\ enc' \in {{}, raw}
  BY DEF IInv, TryDecrypt, At, fixed, place, names, Advance, Running
<1>3. GoDecrypt(Due, p, Now, n)
  BY <1>1, <1>2 DEF Between, Goes, GoStart, GoDone, GoEarly, GoDo, GoDecrypt,
                    GoNeed, GoEncode, GoRead, GoMove, Plain
<1>4. /\ n.open = p.open /\ n.closed = p.closed
      /\ n.stage = "decrypted-or-raw" /\ ~Looping
  BY <1>2, <1>3 DEF GoDecrypt, P, Looping
<1>5. StageHolds(n.stage)'
  BY <1>2, <1>4 DEF StageHolds
<1>6. Walking' /\ pc' \in 1..Len(Script') + 1
  BY <1>1, <1>2, <1>4, <1>5, OnTheSpot
<1>7. TypeOK'
  BY <1>2, <1>6 DEF TypeOK
<1>8. Sheltered'
  BY <1>2 DEF Sheltered, InLibrary
<1>9. RowsKept'
  BY <1>2, RowsStay
<1> QED  BY <1>2, <1>6, <1>7, <1>8, <1>9, StillGoing

(* The tray opens or not, and the step may have failed.                    *)
LEMMA EjectKeeps ==
    ASSUME IInv, Eject
    PROVE  IInv'
<1>1. PICK w, p, n : Between(w, p, n)
  BY Standing DEF IInv, Eject, At
<1>2. /\ TypeOK /\ Modes /\ RowsKept /\ Sheltered /\ UNCHANGED <<job, half>>
      /\ UNCHANGED <<todo, result, work, mounted, raw, enc, lib,
                     captured, stored, seen, tries>>
      /\ pc' = pc + 1 /\ result = "none" /\ Running
      /\ Now.op = "do" /\ Now.what = "eject"
      /\ \/ tray' \in {"in", "out"} /\ UNCHANGED rows
         \/ UpdateJobStepState("eject", "failed") /\ UNCHANGED tray
  BY DEF IInv, Eject, At, fixed, files, names, Advance, Running
<1>3. n = p /\ p.open = "eject" /\ ~Looping
  BY <1>1, <1>2 DEF Between, Goes, GoStart, GoDone, GoEarly, GoDo, GoDecrypt,
                    GoNeed, GoEncode, GoRead, GoMove, Looping, Plain
<1>4. /\ todo = NoLoop /\ RowsAt(p) /\ StageHolds(n.stage)'
  BY <1>1, <1>2, <1>3, FilesSame, NotLooping DEF Between
<1>5. /\ rows' \in [{"drive", "compute"} -> [Steps -> RowStates]]
      /\ RowsKept'
      /\ \A o \in Steps : o # "eject" => rows'[half][o] = rows[half][o]
      /\ rows'[half]["eject"] \in {rows[half]["eject"], "failed"}
  <2>1. CASE UNCHANGED rows
    <3>1. rows \in [{"drive", "compute"} -> [Steps -> RowStates]]
      BY <1>2 DEF TypeOK
    <3> QED  BY <1>2, <2>1, <3>1, RowsStay
  <2>2. CASE UpdateJobStepState("eject", "failed")
    <3>1. "eject" \in Steps /\ "eject" \notin TranscodeSteps
      BY DEF Steps, TranscodeSteps
    <3>2. /\ rows' \in [{"drive", "compute"} -> [Steps -> RowStates]]
          /\ RowsKept'
          /\ \A o \in Steps :
                rows'[half][o] = IF o = "eject" /\ rows[half][o] # "absent"
                                 THEN "failed" ELSE rows[half][o]
      BY <1>2, <2>2, <3>1, RowWritten
    <3> QED  BY <3>1, <3>2
  <2> QED  BY <1>2, <2>1, <2>2
<1>6. RowsAt(n)'
  <2>1. \A o \in Steps : o # "eject" =>
           rows'[half][o] = IF o \in n.closed THEN "done" ELSE FirstRow(o)
    BY <1>3, <1>4, <1>5 DEF RowsAt
  <2>2. rows'[half]["eject"] \in {"running", "failed"}
    <3>1. "eject" \in Steps
      BY DEF Steps
    <3> QED  BY <1>3, <1>4, <1>5, <3>1 DEF RowsAt
  <2>3. \A o : FirstRow(o)' = FirstRow(o)
    BY <1>2, Same
  <2> QED  BY <1>2, <1>3, <2>1, <2>2, <2>3 DEF RowsAt
<1>7. Here(n)'
  BY <1>2, <1>4, <1>6, HereAgain
<1>8. Walking' /\ pc' \in 1..Len(Script') + 1
  BY <1>1, <1>2, <1>3, <1>7, Forward DEF Opened
<1>9. TypeOK'
  BY <1>2, <1>5, <1>8 DEF TypeOK
<1>10. Sheltered'
  BY <1>2, FilesSame DEF Sheltered
<1> QED  BY <1>2, <1>5, <1>8, <1>9, <1>10, StillGoing

----------------------------------------------------------------------------

(* Loops over titles.                                                      *)

(* A listing names every title of its set, and has as many entries.        *)
LEMMA ListingIs ==
    ASSUME NEW S \in SUBSET Titles, NEW list \in Listings(S)
    PROVE  /\ Cardinality(S) \in 0..MaxTitles
           /\ list \in [1..Cardinality(S) -> S]
           /\ \A t \in S : \E k \in 1..Cardinality(S) : list[k] = t
<1> DEFINE c == Cardinality(S)
<1>1. IsFiniteSet(Titles) /\ Cardinality(Titles) = MaxTitles
  <2>1. 1 \in Int /\ MaxTitles \in Int /\ ~(1 > MaxTitles)
        /\ MaxTitles - 1 + 1 = MaxTitles
    BY BoundsAssumption
  <2> QED  BY <2>1, FS_Interval DEF Titles
<1>2. IsFiniteSet(S) /\ c \in Nat /\ c <= MaxTitles
  BY <1>1, FS_Subset, FS_CardinalityType
<1>3. IsFiniteSet(1..c) /\ Cardinality(1..c) = c
  <2>1. 1 \in Int /\ c \in Int /\ (1 > c => c = 0) /\ c - 1 + 1 = c
    BY <1>2
  <2> QED  BY <2>1, FS_Interval
<1>4. /\ list \in [1..c -> S]
      /\ \A i, j \in 1..c : i < j => list[i] < list[j]
  BY DEF Listings
<1> HIDE DEF c
<1>5. \A i, j \in 1..c : list[i] = list[j] => i = j
  <2> SUFFICES ASSUME NEW i \in 1..c, NEW j \in 1..c, i # j
               PROVE  list[i] # list[j]
    OBVIOUS
  <2>1. list[i] \in Titles /\ list[j] \in Titles
    BY <1>4
  <2>2. list[i] \in Nat /\ list[j] \in Nat
    BY <2>1 DEF Titles
  <2>3. i < j \/ j < i
    BY <1>2
  <2> QED  BY <1>4, <2>2, <2>3
<1>6. list \in Injection(1..c, S)
  BY <1>4, <1>5 DEF Injection, IsInjective
<1>7. list \in Surjection(1..c, S)
  BY <1>2, <1>3, <1>6, FS_Injection DEF c
<1>8. \A t \in S : \E k \in 1..c : list[k] = t
  BY <1>7 DEF Surjection
<1> QED  BY <1>2, <1>4, <1>8 DEF c

(* While a loop is under way the rows are those of its place.              *)
LEMMA InTheLoop ==
    ASSUME NEW p, Here(p), todo # NoLoop
    PROVE  RowsAt(p) /\ LoopHolds
BY DEF Here

(* A loop goes on: the function waits where it was.                        *)
LEMMA LoopAgain ==
    ASSUME UNCHANGED <<job, half, tray, pc, rows>>,
           NEW w, NEW p, NEW n, Between(w, p, n),
           todo' # NoLoop, LoopHolds'
    PROVE  Walking' /\ pc' \in 1..Len(Script') + 1
<1>1. RowsAt(p)
  BY DEF Between, Here
<1>2. RowsAt(p)'
  BY <1>1, Same DEF RowsAt
<1>3. Here(p)'
  BY <1>2 DEF Here
<1> QED  BY <1>3, Waiting

(* The instruction does not change while the counter stands.               *)
LEMMA NowSame ==
    ASSUME UNCHANGED <<job, half, pc>>
    PROVE  Now' = Now /\ (Looping' <=> Looping) /\ Len(Script') = Len(Script)
BY Same DEF Now, Looping

(* What the calls that loop are.                                           *)
LEMMA LoopingIs ==
    ASSUME NEW D, NEW p, NEW n, Goes(D, p, Now, n), Looping
    PROVE  \/ GoRead(D, p, Now, n) /\ Now.what = "titles"
           \/ GoEncode(D, p, Now, n)
           \/ GoMove(D, p, Now, n)
BY DEF Goes, GoStart, GoDone, GoEarly, GoDo, GoDecrypt, GoNeed, GoEncode,
       GoRead, GoMove, Looping, Plain, Discward

(* A loop begins: what is to be handled is listed.                         *)
LEMMA SourcesHold ==
    ASSUME TypeOK, Sheltered, result = "none", NEW w, NEW p, NEW n,
           Between(w, p, n), Looping, todo = NoLoop
    PROVE  /\ Sources \in SUBSET Titles
           /\ Now.what = "encode" \/ Now.op \in {"move", "movedir"} =>
                 \A t \in captured : InLibrary(t) \/ t \in Sources
<1>1. /\ raw \subseteq Titles /\ enc \subseteq Titles /\ job.n \in Titles
      /\ \A t \in captured : t \in raw \/ InLibrary(t)
      /\ StageHolds(p.stage)
  BY DEF TypeOK, Sheltered, Between, Here
<1>2. 1..job.n \subseteq Titles
  BY <1>1, BoundsAssumption DEF Titles
<1>3. \/ GoRead(Due, p, Now, n) /\ Now.what = "titles"
      \/ GoEncode(Due, p, Now, n)
      \/ GoMove(Due, p, Now, n)
  BY LoopingIs DEF Between
<1>4. CASE GoRead(Due, p, Now, n) /\ Now.what = "titles"
  <2>1. Sources = 1..job.n
    BY <1>4 DEF Sources
  <2> QED  BY <1>2, <1>4, <2>1 DEF GoRead
<1>5. CASE GoEncode(Due, p, Now, n)
  <2>1. Sources = raw
    BY <1>5 DEF GoEncode, Sources
  <2> QED  BY <1>1, <2>1
<1>6. CASE GoMove(Due, p, Now, n)
  <2>1. Now.what \in Names /\ p.stage = Now.step /\ Now.step # "lib"
        /\ p.stage \in Stages
    BY <1>6 DEF GoMove, Between, Places
  <2>2. Sources = IF FromEnc THEN enc ELSE raw
    BY <2>1 DEF Sources, Names
  <2>3. CASE Now.step = "raw"
    BY <1>1, <2>2, <2>3 DEF FromEnc
  <2>4. CASE Now.step = "enc"
    BY <1>1, <2>1, <2>2, <2>4 DEF FromEnc, StageHolds
  <2>5. CASE Now.step = "decrypted-or-raw"
    BY <1>1, <2>1, <2>2, <2>5 DEF FromEnc, StageHolds
  <2> QED  BY <2>1, <2>3, <2>4, <2>5 DEF Stages
<1> QED  BY <1>3, <1>4, <1>5, <1>6

(* Listing the files of a loop keeps the invariant.                        *)
LEMMA BeginKeeps ==
    ASSUME IInv, Begin
    PROVE  IInv'
<1>1. PICK w, p, n : Between(w, p, n)
  BY Standing DEF IInv, Begin
<1>2. /\ TypeOK /\ RowsKept /\ Sheltered /\ UNCHANGED <<job, half>>
      /\ UNCHANGED <<pc, rows, result, tray, work, mounted, raw, enc, lib,
                     captured, stored, seen, tries>>
      /\ result = "none" /\ Running /\ Looping /\ todo = NoLoop
  BY DEF IInv, Begin, fixed, place, files, names, Running
<1>3. PICK list \in Listings(Sources) :
         todo' = [k \in DOMAIN list |->
                    [title |-> list[k],
                     slot |-> Slot(list[k], k, Cardinality(Sources))]]
  BY DEF Begin
<1> DEFINE c == Cardinality(Sources)
<1>4. /\ Sources \in SUBSET Titles
      /\ Now.what = "encode" \/ Now.op \in {"move", "movedir"} =>
            \A t \in captured : InLibrary(t) \/ t \in Sources
  BY <1>1, <1>2, SourcesHold
<1>5. /\ c \in 0..MaxTitles /\ list \in [1..c -> Sources]
      /\ \A t \in Sources : \E k \in 1..c : list[k] = t
  BY <1>3, <1>4, ListingIs
<1>6. \A k \in 1..c : Slot(list[k], k, c) \in Slots /\ list[k] \in Titles
  <2> TAKE k \in 1..c
  <2>1. list[k] \in Titles
    BY <1>4, <1>5
  <2>2. k \in Slots /\ 0 \in Slots /\ list[k] \in Slots
    BY <1>5, <2>1, BoundsAssumption DEF Slots, Titles
  <2>3. Slot(list[k], k, c) \in {0, k, list[k]}
    BY DEF Slot
  <2> QED  BY <2>1, <2>2, <2>3
<1>7. todo' \in [1..c -> Files]
      /\ \A k \in 1..c : todo'[k].title = list[k]
  BY <1>3, <1>5, <1>6 DEF Files
<1> HIDE DEF c
<1>8. todo' \in Seq(Files)
  BY <1>5, <1>7
<1>9. todo' # NoLoop
  BY <1>8, NoLoopIsNone
<1>10. \A t \in Sources : Left(t)'
  <2> TAKE t \in Sources
  <2>1. PICK k \in 1..c : list[k] = t
    BY <1>5
  <2>2. k \in DOMAIN todo' /\ todo'[k].title = t
    BY <1>7, <2>1
  <2> QED  BY <2>2 DEF Left
<1>11. LoopHolds'
  <2>1. pc' <= Len(Script')
    BY <1>2, NowSame DEF Running
  <2> QED  BY <1>2, <1>4, <1>10, <2>1, NowSame, FilesSame DEF LoopHolds
<1>12. Walking' /\ pc' \in 1..Len(Script') + 1
  BY <1>1, <1>2, <1>9, <1>11, LoopAgain
<1>13. TypeOK'
  BY <1>2, <1>8, <1>12 DEF TypeOK, Files
<1>14. Sheltered'
  BY <1>2, FilesSame DEF Sheltered
<1>15. RowsKept'
  BY <1>2, RowsStay
<1> QED  BY <1>2, <1>12, <1>13, <1>14, <1>15, StillGoing

(* One entry of the list is dealt with.                                    *)
LEMMA HeadGone ==
    ASSUME TypeOK, InLoop, todo' = Tail(todo)
    PROVE  /\ todo' \in Seq(Files) /\ todo' # NoLoop
           /\ Head(todo).title \in Titles /\ Head(todo).slot \in Slots
           /\ \A t : Left(t) => t = Head(todo).title \/ Left(t)'
<1>1. todo \in Seq(Files) /\ todo # <<>>
  BY DEF TypeOK, InLoop, Files
<1>2. /\ Head(todo) \in Files /\ Tail(todo) \in Seq(Files)
      /\ Len(Tail(todo)) = Len(todo) - 1
      /\ \A i \in 1..Len(Tail(todo)) : Tail(todo)[i] = todo[i + 1]
  BY <1>1, HeadTailProperties
<1>3. /\ Len(todo) \in Nat /\ DOMAIN todo = 1..Len(todo)
      /\ Len(todo') \in Nat /\ DOMAIN todo' = 1..Len(todo')
      /\ Head(todo) = todo[1]
  BY <1>1, <1>2
<1>4. \A t : Left(t) => t = Head(todo).title \/ Left(t)'
  <2> SUFFICES ASSUME NEW t, NEW k \in DOMAIN todo, todo[k].title = t, k # 1
               PROVE  \E j \in DOMAIN todo' : todo'[j].title = t
    BY <1>3 DEF Left
  <2>1. k - 1 \in 1..Len(todo') /\ (k - 1) + 1 = k
    BY <1>2, <1>3
  <2>2. todo'[k - 1] = todo[k]
    BY <1>2, <2>1
  <2> QED  BY <1>3, <2>1, <2>2
<1>5. todo' # NoLoop
  BY <1>2, NoLoopIsNone
<1> QED  BY <1>2, <1>4, <1>5 DEF Files

(* Ripping one title keeps the invariant.                                  *)
LEMMA RipTitleKeeps ==
    ASSUME IInv, RipTitle
    PROVE  IInv'
<1>1. PICK w, p, n : Between(w, p, n)
  BY Standing DEF IInv, RipTitle, InLoop
<1>2. /\ TypeOK /\ RowsKept /\ Sheltered /\ UNCHANGED <<job, half>>
      /\ UNCHANGED <<pc, rows, result, tray, work, mounted, enc, lib,
                     stored, seen, tries>>
      /\ result = "none" /\ Running /\ Looping /\ InLoop /\ todo # NoLoop
      /\ todo' = Tail(todo) /\ Now.what = "titles"
      /\ raw' \in {raw, raw \cup {Head(todo).title}} /\ captured' = raw'
  BY DEF IInv, RipTitle, fixed, place, names, Running, InLoop
<1>3. /\ todo' \in Seq(Files) /\ todo' # NoLoop
      /\ Head(todo).title \in Titles
  BY <1>2, HeadGone
<1>4. Now.op = "read"
  BY <1>1, <1>2, LoopingIs DEF Between, GoRead, GoEncode, GoMove, Names
<1>5. LoopHolds'
  <2>1. pc' <= Len(Script')
    BY <1>2, NowSame DEF Running
  <2> QED  BY <1>2, <1>4, <2>1, NowSame DEF LoopHolds
<1>6. Walking' /\ pc' \in 1..Len(Script') + 1
  BY <1>1, <1>2, <1>3, <1>5, LoopAgain
<1>7. TypeOK'
  BY <1>2, <1>3, <1>6 DEF TypeOK, Files
<1>8. Sheltered'
  BY <1>2 DEF Sheltered
<1>9. RowsKept'
  BY <1>2, RowsStay
<1> QED  BY <1>2, <1>6, <1>7, <1>8, <1>9, StillGoing

(* Encoding one title keeps the invariant.                                 *)
LEMMA EncodeTitleKeeps ==
    ASSUME IInv, EncodeTitle
    PROVE  IInv'
<1>1. PICK w, p, n : Between(w, p, n)
  BY Standing DEF IInv, EncodeTitle, InLoop
<1>2. /\ TypeOK /\ RowsKept /\ Sheltered /\ UNCHANGED <<job, half>>
      /\ UNCHANGED <<pc, rows, result, tray, work, mounted, raw, lib,
                     captured, stored, seen, tries>>
      /\ result = "none" /\ Running /\ Looping /\ InLoop /\ todo # NoLoop
      /\ todo' = Tail(todo) /\ Now.what = "encode"
      /\ enc' = enc \cup {Head(todo).title}
  BY DEF IInv, EncodeTitle, fixed, place, names, Running, InLoop
<1>3. /\ todo' \in Seq(Files) /\ todo' # NoLoop
      /\ Head(todo).title \in Titles
      /\ \A t : Left(t) => t = Head(todo).title \/ Left(t)'
  BY <1>2, HeadGone
<1>4. Now.op = "need"
  BY <1>1, <1>2, LoopingIs DEF Between, GoRead, GoEncode, GoMove, Names
<1>5. LoopHolds'
  <2>1. pc' <= Len(Script')
    BY <1>2, NowSame DEF Running
  <2>2. \A t \in captured : t \in enc \/ InLibrary(t) \/ Left(t)
    BY <1>1, <1>2, InTheLoop DEF Between, LoopHolds
  <2>3. \A t : InLibrary(t)' <=> InLibrary(t)
    BY <1>2 DEF InLibrary
  <2>4. \A t \in captured' : t \in enc' \/ InLibrary(t)' \/ Left(t)'
    BY <1>2, <1>3, <2>2, <2>3
  <2>5. Now' = Now /\ Looping'
    BY <1>2, NowSame
  <2> QED  BY <1>4, <2>1, <2>4, <2>5 DEF LoopHolds
<1>6. Walking' /\ pc' \in 1..Len(Script') + 1
  BY <1>1, <1>2, <1>3, <1>5, LoopAgain
<1>7. TypeOK'
  BY <1>2, <1>3, <1>6 DEF TypeOK, Files
<1>8. Sheltered'
  BY <1>2 DEF Sheltered, InLibrary
<1>9. RowsKept'
  BY <1>2, RowsStay
<1> QED  BY <1>2, <1>6, <1>7, <1>8, <1>9, StillGoing

(* What is in the library stays there; a name is given once.               *)
LEMMA Delivered ==
    ASSUME TypeOK, NEW x, Deliver(x), Head(todo).slot \in Slots
    PROVE  /\ \A t \in Titles : InLibrary(t) => InLibrary(t)'
           /\ x \in Titles => InLibrary(x)'
           /\ x \in Titles \cup {Part} =>
                 lib' \in [Slots -> {Nothing, Part} \cup Titles]
<1>1. lib \in [Slots -> {Nothing, Part} \cup Titles]
  BY DEF TypeOK
<1>2. /\ lib[Head(todo).slot] = Nothing
      /\ lib' = [lib EXCEPT ![Head(todo).slot] = x]
  BY DEF Deliver
<1>3. Nothing \notin Titles
  BY DEF Nothing, Titles
<1>4. lib'[Head(todo).slot] = x
  BY <1>1, <1>2
<1>5. \A t \in Titles : InLibrary(t) => InLibrary(t)'
  <2> SUFFICES ASSUME NEW t \in Titles, NEW s \in Slots, lib[s] = t
               PROVE  lib'[s] = t
    BY DEF InLibrary
  <2>1. s # Head(todo).slot
    BY <1>2, <1>3
  <2> QED  BY <1>1, <1>2, <2>1
<1>6. x \in Titles \cup {Part} =>
         lib' \in [Slots -> {Nothing, Part} \cup Titles]
  BY <1>1, <1>2
<1> QED  BY <1>4, <1>5, <1>6 DEF InLibrary

(* A loop that moves files is in the step that moves.                      *)
LEMMA MovingIs ==
    ASSUME NEW w, NEW p, NEW n, Between(w, p, n), Moving
    PROVE  GoMove(Due, p, Now, n) /\ Now.what # "encode" /\ Looping
<1>1. Now.op \in {"move", "movedir"} /\ Looping /\ Goes(Due, p, Now, n)
  BY DEF Moving, InLoop, Between
<1>2. GoMove(Due, p, Now, n)
  BY <1>1, LoopingIs DEF GoRead, GoEncode
<1> QED  BY <1>1, <1>2 DEF GoMove, Names

(* Moving one file into the library keeps the invariant.                   *)
LEMMA MoveOneKeeps ==
    ASSUME IInv, MoveOne
    PROVE  IInv'
<1>1. PICK w, p, n : Between(w, p, n)
  BY Standing DEF IInv, MoveOne, Moving, InLoop
<1>2. /\ TypeOK /\ RowsKept /\ Sheltered /\ UNCHANGED <<job, half>>
      /\ UNCHANGED <<pc, rows, result, tray, work, mounted, captured,
                     stored, seen, tries>>
      /\ result = "none" /\ Running /\ Moving /\ InLoop /\ todo # NoLoop
      /\ todo' = Tail(todo) /\ Deliver(Head(todo).title)
      /\ raw' \in {raw, raw \ {Head(todo).title}}
      /\ enc' \in {enc, enc \ {Head(todo).title}}
  BY DEF IInv, MoveOne, fixed, place, names, Running, InLoop, Moving
<1>0. PICK x : x = Head(todo).title
  OBVIOUS
<1>3. /\ todo' \in Seq(Files) /\ todo' # NoLoop
      /\ x \in Titles /\ Head(todo).slot \in Slots
      /\ \A t : Left(t) => t = x \/ Left(t)'
  BY <1>0, <1>2, HeadGone
<1>4. /\ Now.what # "encode" /\ Looping
  BY <1>1, <1>2, MovingIs
<1>5. /\ \A t \in Titles : InLibrary(t) => InLibrary(t)'
      /\ InLibrary(x)'
      /\ lib' \in [Slots -> {Nothing, Part} \cup Titles]
  <2>1. Deliver(x)
    BY <1>0, <1>2
  <2> QED  BY <1>2, <1>3, <2>1, Delivered
<1>6. captured \subseteq Titles
  BY <1>2 DEF TypeOK
<1>7. LoopHolds'
  <2>1. pc' <= Len(Script')
    BY <1>2, NowSame DEF Running
  <2>2. \A t \in captured : InLibrary(t) \/ Left(t)
    BY <1>1, <1>2, InTheLoop DEF Between, LoopHolds, Moving
  <2>3. \A t \in captured' : InLibrary(t)' \/ Left(t)'
    BY <1>2, <1>3, <1>5, <1>6, <2>2
  <2>4. Now' = Now /\ Looping'
    BY <1>2, <1>4, NowSame
  <2> QED  BY <1>4, <2>1, <2>3, <2>4 DEF LoopHolds
<1>8. Walking' /\ pc' \in 1..Len(Script') + 1
  BY <1>1, <1>2, <1>3, <1>7, LoopAgain
<1>9. TypeOK'
  BY <1>2, <1>3, <1>5, <1>8 DEF TypeOK, Files
<1>10. Sheltered'
  <2>1. \A t \in captured : t \in raw \/ InLibrary(t)
    BY <1>2 DEF Sheltered
  <2>2. \A t \in captured' : t \in raw' \/ InLibrary(t)'
    BY <1>0, <1>2, <1>5, <1>6, <2>1
  <2> QED  BY <2>2 DEF Sheltered
<1>11. RowsKept'
  BY <1>2, RowsStay
<1> QED  BY <1>2, <1>8, <1>9, <1>10, <1>11, StillGoing

(* A loop ends.                                                            *)
LEMMA EndKeeps ==
    ASSUME IInv, End
    PROVE  IInv'
<1>1. PICK w, p, n : Between(w, p, n)
  BY Standing DEF IInv, End
<1>2. /\ TypeOK /\ RowsKept /\ Sheltered /\ UNCHANGED <<job, half>>
      /\ UNCHANGED <<rows, result, tray, work, mounted, raw, enc, lib,
                     captured, stored, seen, tries>>
      /\ pc' = pc + 1 /\ result = "none" /\ Running /\ Looping
      /\ todo = <<>> /\ todo' = NoLoop
  BY DEF IInv, End, fixed, place, files, names, Running, Advance
<1>3. RowsAt(p) /\ LoopHolds /\ \A t : ~Left(t)
  <2>1. todo # NoLoop
    BY <1>2, NoLoopIsNone
  <2>2. \A t : ~Left(t)
    BY <1>2 DEF Left
  <2> QED  BY <1>1, <2>1, <2>2, InTheLoop DEF Between
<1>4. /\ n.open = p.open /\ n.closed = p.closed
      /\ StageHolds(n.stage)
  <2>1. \/ GoRead(Due, p, Now, n) /\ Now.what = "titles"
        \/ GoEncode(Due, p, Now, n)
        \/ GoMove(Due, p, Now, n)
    BY <1>1, <1>2, LoopingIs DEF Between
  <2>2. CASE GoRead(Due, p, Now, n)
    BY <2>2 DEF GoRead, StageHolds
  <2>3. CASE GoEncode(Due, p, Now, n)
    BY <1>3, <2>3 DEF GoEncode, LoopHolds, StageHolds, P
  <2>4. CASE GoMove(Due, p, Now, n)
    BY <1>3, <2>4 DEF GoMove, LoopHolds, StageHolds, P
  <2> QED  BY <2>1, <2>2, <2>3, <2>4
<1>5. RowsAt(n)'
  BY <1>2, <1>3, <1>4, Same DEF RowsAt
<1>6. Here(n)'
  BY <1>2, <1>4, <1>5, FilesSame, HereAgain
<1>7. Walking' /\ pc' \in 1..Len(Script') + 1
  BY <1>1, <1>2, <1>6, Forward
<1>8. TypeOK'
  BY <1>2, <1>7 DEF TypeOK
<1>9. Sheltered'
  BY <1>2, FilesSame DEF Sheltered
<1>10. RowsKept'
  BY <1>2, RowsStay
<1> QED  BY <1>2, <1>7, <1>8, <1>9, <1>10, StillGoing

----------------------------------------------------------------------------

(* The ways out of a function, and back in.                                *)

(* A function that has returned stands nowhere.                            *)
LEMMA Over ==
    ASSUME TypeOK, Walking, UNCHANGED <<job, half, pc, tray>>,
           result' # "none"
    PROVE  Walking' /\ pc' \in 1..Len(Script') + 1
<1>1. PICK w : Path(w) /\ Stands(w)
  BY DEF Walking
<1>2. Path(w)' /\ Script' = Script
  BY <1>1, Same
<1>3. Stands(w)'
  BY <1>1 DEF Stands
<1> QED  BY <1>2, <1>3 DEF Walking, TypeOK

(* Where a failing call is reported: one step of the half, which runs or   *)
(* is started to be failed.                                                *)
LEMMA FailsWhere ==
    ASSUME TypeOK, NEW w, NEW p, NEW n, Between(w, p, n),
           Now.op \in {"need", "read", "early", "move", "movedir"}
    PROVE  /\ \A s \in Steps \ {"eject"} : rows[half][s] # "failed"
           /\ \E f \in Due \ {"eject"} :
                 /\ \A s \in Steps :
                       \/ s \in RunningSteps
                       \/ Now.op = "early" /\ s = Now.step
                       <=> s = f
                 /\ Now.op \in {"move", "movedir"} => f = "move"
<1>1. /\ Goes(Due, p, Now, n) /\ RowsAt(p) /\ Due \subseteq Steps
      /\ "none" \notin Steps
  BY DueIsOfKind DEF Between, Here, Steps
<1>2. \A s \in Steps : FirstRow(s) \notin {"running", "failed"}
  BY DEF FirstRow
<1>3. \A s \in Steps \ {"eject"} : rows[half][s] # "failed"
  BY <1>1, <1>2 DEF RowsAt
<1>4. CASE Now.op = "early"
  <2>1. GoEarly(Due, p, Now, n)
    BY <1>1, <1>4 DEF Goes, GoStart, GoDone, GoEarly, GoDo, GoDecrypt,
                      GoNeed, GoEncode, GoRead, GoMove
  <2>2. p.open = "none" /\ Now.step \in Due \ {"eject"}
    BY <2>1 DEF GoEarly
  <2>3. \A s \in Steps : s \notin RunningSteps
    BY <1>1, <1>2, <2>2 DEF RowsAt, RunningSteps
  <2> QED  BY <1>3, <1>4, <2>2, <2>3
<1>5. CASE Now.op # "early"
  <2>1. \/ GoNeed(Due, p, Now, n) \/ GoEncode(Due, p, Now, n)
        \/ GoRead(Due, p, Now, n) \/ GoMove(Due, p, Now, n)
    BY <1>1, <1>5 DEF Goes, GoStart, GoDone, GoEarly, GoDo, GoDecrypt,
                      GoNeed, GoEncode, GoRead, GoMove
  <2>2. /\ p.open \in Due \ {"eject"}
        /\ Now.op \in {"move", "movedir"} => p.open = "move"
    BY <2>1 DEF GoNeed, GoEncode, GoRead, GoMove, Busy
  <2>3. \A s \in Steps : s \in RunningSteps <=> s = p.open
    BY <1>1, <1>2, <2>2 DEF RowsAt, RunningSteps
  <2> QED  BY <1>3, <1>5, <2>2, <2>3
<1> QED  BY <1>4, <1>5

(* A function fails at one step.                                           *)
LEMMA FailsThere ==
    ASSUME IInv, result = "none", Leave("err"),
           UNCHANGED <<job, half, pc, tray, captured, stored, seen, tries>>,
           NEW f \in Due \ {"eject"},
           rows' \in [{"drive", "compute"} -> [Steps -> RowStates]],
           \A h \in {"drive", "compute"}, s \in Steps :
              rows'[h][s] = IF h = half /\ s = f THEN "failed"
                            ELSE rows[h][s],
           \A s \in Steps : rows[half][s] = "running" => s = f,
           \A s \in Steps \ {"eject"} : rows[half][s] # "failed",
           lib' \in [Slots -> {Nothing, Part} \cup Titles],
           \A t \in Titles : InLibrary(t) => InLibrary(t)'
    PROVE  IInv'
<1>1. /\ TypeOK /\ Modes /\ Works /\ Sheltered /\ RowsKept /\ Walking
      /\ result' = "err" /\ todo' = NoLoop /\ mounted' = FALSE
      /\ IF half = "compute" THEN UNCHANGED <<work, raw, enc>>
         ELSE work' = FALSE /\ raw' = {} /\ enc' = {}
  BY DEF IInv, Leave
<1>2. f \in Steps /\ half \in {"drive", "compute"}
  BY <1>1, DueIsOfKind DEF TypeOK
<1>3. Walking' /\ pc' \in 1..Len(Script') + 1
  BY <1>1, Over
<1>4. TypeOK'
  BY <1>1, <1>3 DEF TypeOK, Results
<1>5. Modes'
  BY <1>1, Same DEF Modes
<1>6. Works'
  BY <1>1, <1>2 DEF Works
<1>7. Sheltered'
  <2> SUFFICES ASSUME half = "compute", NEW t \in captured
               PROVE  t \in raw' \/ InLibrary(t)'
    BY <1>1 DEF Sheltered
  <2>1. t \in raw \/ InLibrary(t)
    BY <1>1 DEF Sheltered
  <2>2. t \in Titles
    BY <1>1 DEF TypeOK
  <2> QED  BY <1>1, <2>1, <2>2
<1>8. RowsKept'
  <2> SUFFICES ASSUME half = "compute", NEW s \in Steps
               PROVE  /\ rows'["drive"][s] = IF s \in TranscodeSteps
                                             THEN "skipped" ELSE "done"
                      /\ rows'["compute"][s] = "absent"
                            <=> s \notin TranscodeSteps
                      /\ rows'["compute"][s] = "skipped" <=>
                            s \in TranscodeSteps \cap H.skips.enc
    BY Same DEF RowsKept
  <2>1. rows'["drive"][s] = rows["drive"][s]
    OBVIOUS
  <2>2. rows'["compute"][s] = IF s = f THEN "failed" ELSE rows["compute"][s]
    OBVIOUS
  <2>3. f \in TranscodeSteps \ H.skips.enc
    BY DEF Due
  <2> QED  BY <1>1, <2>1, <2>2, <2>3 DEF RowsKept
<1>9. ErrorIsShown'
  <2>1. RunningSteps' = {}
    BY <1>2 DEF RunningSteps
  <2>2. {s \in Steps \ {"eject"} : rows'[half'][s] = "failed"} = {f}
    BY <1>2
  <2> QED  BY <2>1, <2>2, FS_Singleton DEF ErrorIsShown
<1>10. AllDelivered' /\ PlanHonoured'
  BY <1>1 DEF AllDelivered, PlanHonoured
<1> QED  BY <1>3, <1>4, <1>5, <1>6, <1>7, <1>8, <1>9, <1>10 DEF IInv

(* A call that fails keeps the invariant.                                  *)
LEMMA FailKeeps ==
    ASSUME IInv, Fail
    PROVE  IInv'
<1>1. PICK w, p, n : Between(w, p, n)
  BY Standing DEF IInv, Fail
<1>2. /\ TypeOK /\ result = "none" /\ Leave("err")
      /\ UNCHANGED <<job, half, pc, tray, lib, captured, stored, seen, tries>>
      /\ Now.op \in {"need", "read", "early", "move", "movedir"}
      /\ rows' = [rows EXCEPT ![half] =
            [s \in Steps |->
               IF s \in RunningSteps \/ (Now.op = "early" /\ s = Now.step)
               THEN "failed" ELSE @[s]]]
  BY DEF IInv, Fail, fixed, names, Running
<1>3. \A s \in Steps \ {"eject"} : rows[half][s] # "failed"
  BY <1>1, <1>2, FailsWhere
<1>4. PICK f \in Due \ {"eject"} :
         \A s \in Steps :
            (s \in RunningSteps \/ (Now.op = "early" /\ s = Now.step))
               <=> s = f
  BY <1>1, <1>2, FailsWhere
<1>5. /\ rows \in [{"drive", "compute"} -> [Steps -> RowStates]]
      /\ half \in {"drive", "compute"} /\ "failed" \in RowStates
  BY <1>2 DEF TypeOK, RowStates
<1>6. /\ rows' \in [{"drive", "compute"} -> [Steps -> RowStates]]
      /\ \A h \in {"drive", "compute"}, s \in Steps :
            rows'[h][s] = IF h = half /\ s = f THEN "failed" ELSE rows[h][s]
  <2> DEFINE new == [s \in Steps |->
               IF s \in RunningSteps \/ (Now.op = "early" /\ s = Now.step)
               THEN "failed" ELSE rows[half][s]]
  <2>1. rows' = [rows EXCEPT ![half] = new]
    BY <1>2
  <2>2. /\ new \in [Steps -> RowStates]
        /\ \A s \in Steps :
              new[s] = IF s = f THEN "failed" ELSE rows[half][s]
    BY <1>4, <1>5
  <2> HIDE DEF new
  <2> QED  BY <1>5, <2>1, <2>2
<1>7. \A s \in Steps : rows[half][s] = "running" => s = f
  BY <1>4 DEF RunningSteps
<1>8. /\ lib' \in [Slots -> {Nothing, Part} \cup Titles]
      /\ \A t \in Titles : InLibrary(t) => InLibrary(t)'
  BY <1>2 DEF TypeOK, InLibrary
<1> QED  BY <1>2, <1>3, <1>6, <1>7, <1>8, FailsThere

(* A move that breaks off half-way keeps the invariant.                    *)
LEMMA MoveBreaksKeeps ==
    ASSUME IInv, MoveBreaks
    PROVE  IInv'
<1>1. PICK w, p, n : Between(w, p, n)
  BY Standing DEF IInv, MoveBreaks, Moving, InLoop
<1>2. /\ TypeOK /\ result = "none" /\ Leave("err") /\ Moving /\ InLoop
      /\ UNCHANGED <<job, half, pc, tray, captured, stored, seen, tries>>
      /\ Now.op \in {"move", "movedir"}
      /\ rows' = [rows EXCEPT ![half]["move"] = "failed"]
      /\ Deliver(Head(todo).title) \/ Deliver(Part)
  BY DEF IInv, MoveBreaks, Moving, InLoop, fixed, names, Running
<1>3. \A s \in Steps \ {"eject"} : rows[half][s] # "failed"
  BY <1>1, <1>2, FailsWhere
<1>4. /\ "move" \in Due \ {"eject"}
      /\ \A s \in Steps : rows[half][s] = "running" => s = "move"
  BY <1>1, <1>2, FailsWhere DEF RunningSteps
<1>5. /\ rows \in [{"drive", "compute"} -> [Steps -> RowStates]]
      /\ half \in {"drive", "compute"} /\ "failed" \in RowStates
      /\ "move" \in Steps
  BY <1>2 DEF TypeOK, RowStates, Steps
<1>6. /\ rows' \in [{"drive", "compute"} -> [Steps -> RowStates]]
      /\ \A h \in {"drive", "compute"}, s \in Steps :
            rows'[h][s] = IF h = half /\ s = "move" THEN "failed"
                          ELSE rows[h][s]
  BY <1>2, <1>5
<1>7. PICK x : x \in {Head(todo).title, Part} /\ Deliver(x)
  BY <1>2
<1>8. x \in Titles \cup {Part} /\ Head(todo).slot \in Slots
  <2>1. todo \in Seq(Files) /\ todo # <<>>
    BY <1>2 DEF TypeOK, InLoop, Files
  <2>2. Head(todo) \in Files
    BY <2>1, HeadTailProperties
  <2> QED  BY <1>7, <2>2 DEF Files
<1>9. /\ lib' \in [Slots -> {Nothing, Part} \cup Titles]
      /\ \A t \in Titles : InLibrary(t) => InLibrary(t)'
  BY <1>2, <1>7, <1>8, Delivered
<1> QED  BY <1>2, <1>3, <1>4, <1>6, <1>9, FailsThere

(* The scan's deferred event.                                              *)
LEMMA DeferredDoneKeeps ==
    ASSUME IInv, DeferredDone
    PROVE  IInv'
<1>1. /\ TypeOK /\ Modes /\ Works /\ Sheltered /\ RowsKept /\ Walking
      /\ job.mode = "scan" /\ result = "err" /\ UNCHANGED <<job, half>>
      /\ UNCHANGED <<pc, todo, result, tray, work, mounted, raw, enc, lib,
                     captured, stored, seen, tries>>
      /\ UpdateJobStepState("identify", "done")
  BY DEF IInv, DeferredDone, fixed, place, files, names
<1>2. half = "drive"
  BY <1>1 DEF Modes, TypeOK
<1>3. /\ rows' \in [{"drive", "compute"} -> [Steps -> RowStates]]
      /\ RowsKept'
  BY <1>1, <1>2, RowWritten DEF Steps
<1>4. Walking' /\ pc' \in 1..Len(Script') + 1
  BY <1>1, Over
<1>5. TypeOK'
  BY <1>1, <1>3, <1>4 DEF TypeOK
<1>6. Modes' /\ Works'
  BY <1>1, Same DEF Modes, Works
<1>7. Sheltered'
  BY <1>1, FilesSame DEF Sheltered
<1>8. AllDelivered' /\ PlanHonoured' /\ ErrorIsShown'
  BY <1>1 DEF AllDelivered, PlanHonoured, ErrorIsShown
<1> QED  BY <1>3, <1>4, <1>5, <1>6, <1>7, <1>8 DEF IInv

(* At the end of the script every step that was due is done.               *)
LEMMA AtTheEnd ==
    ASSUME TypeOK, Walking, result = "none", pc > Len(Script)
    PROVE  /\ \A s \in Steps :
                 rows[half][s] = IF s \in Due THEN "done" ELSE FirstRow(s)
           /\ todo = NoLoop /\ StageHolds(Goal)
<1>1. PICK w : Path(w) /\ Stands(w)
  BY DEF Walking
<1>2. pc = Len(Script) + 1
  <2>1. Len(Script) \in Nat
    BY <1>1, PathIs
  <2> QED  BY <2>1 DEF TypeOK
<1>3. Here(P("none", Due, Goal))
  BY <1>1, <1>2 DEF Path, Stands
<1>4. /\ P("none", Due, Goal).open = "none"
      /\ P("none", Due, Goal).closed = Due
      /\ P("none", Due, Goal).stage = Goal
  BY DEF P
<1>5. todo = NoLoop
  <2>1. Len(Script) \in Nat
    BY <1>1, PathIs
  <2>2. ~(pc <= Len(Script))
    BY <1>2, <2>1
  <2> QED  BY <1>3, <2>2 DEF Here, LoopHolds
<1>6. RowsAt(P("none", Due, Goal)) /\ StageHolds(Goal)
  BY <1>3, <1>4, <1>5 DEF Here
<1>7. \A s \in Steps : s # "none"
  BY DEF Steps
<1> QED  BY <1>4, <1>5, <1>6, <1>7 DEF RowsAt

(* A walk is begun, by a new job, or by a step to the start of a script.   *)
LEMMA FirstPlace ==
    LET p == P("none", {}, "raw")
    IN  p.open = "none" /\ p.closed = {} /\ p.stage = "raw"
BY DEF P

(* A script that is sound can be set out on from its first instruction.    *)
LEMMA SetOut ==
    ASSUME Walks(Due, Script, Goal), pc = 1, todo = NoLoop,
           half = "drive" => tray = "in",
           \A s \in Steps : rows[half][s] = FirstRow(s)
    PROVE  Walking /\ pc \in 1..Len(Script) + 1
<1>1. PICK w : Path(w)
  BY DEF Walks, Walk, Path
<1>2. /\ w[pc].open = "none" /\ w[pc].closed = {}
      /\ w[pc].stage = "raw"
  BY <1>1, FirstPlace DEF Path
<1>3. \A s \in Steps : s # "none"
  BY DEF Steps
<1>4. RowsAt(w[pc])
  BY <1>2, <1>3 DEF RowsAt
<1>5. StageHolds(w[pc].stage)
  BY <1>2 DEF StageHolds
<1>6. Stands(w)
  BY <1>4, <1>5 DEF Stands, Here
<1>7. Len(Script) \in Nat
  BY <1>1, PathIs
<1> QED  BY <1>1, <1>6, <1>7 DEF Walking

(* The same of the next state.                                             *)
LEMMA SetOutNext ==
    ASSUME Walks(Due', Script', Goal'), pc' = 1, todo' = NoLoop,
           half' # "drive",
           \A s \in Steps : rows'[half'][s] = FirstRow(s)'
    PROVE  Walking' /\ pc' \in 1..Len(Script') + 1
<1>1. PICK w : /\ IsWalk(Due', Script', w)
               /\ w[1] = P("none", {}, "raw")
               /\ w[Len(Script') + 1] = P("none", Due', Goal')
  BY DEF Walks, Walk
<1>2. /\ w[pc'].open = "none" /\ w[pc'].closed = {}
      /\ w[pc'].stage = "raw"
  BY <1>1, FirstPlace
<1>3. \A s \in Steps : s # "none"
  BY DEF Steps
<1>4. RowsAt(w[pc])'
  BY <1>2, <1>3 DEF RowsAt
<1>5. StageHolds(w[pc].stage)'
  BY <1>2 DEF StageHolds
<1>6. Stands(w)'
  BY <1>4, <1>5 DEF Stands, Here
<1>7. Len(Script') \in Nat
  BY <1>1, LenProperties DEF IsWalk
<1> QED  BY <1>1, <1>6, <1>7 DEF Walking, Path

(* The drive half hands over.                                              *)
LEMMA HandOverKeeps ==
    ASSUME IInv, HandOver
    PROVE  IInv'
<1>1. /\ TypeOK /\ Modes /\ Works /\ Sheltered /\ Walking
      /\ result = "none" /\ pc > Len(Script)
      /\ half = "drive" /\ job.mode = "split"
      /\ half' = "compute" /\ pc' = 1
      /\ rows' = [rows EXCEPT !["compute"] =
                    CreateJob(TranscodeSteps, H.skips.enc)]
      /\ seen' = stored
      /\ UNCHANGED <<job, tries, todo, result, tray, work, mounted, raw,
                     enc, lib, captured, stored>>
  BY DEF IInv, HandOver, place, files
<1>2. /\ \A s \in Steps :
            rows["drive"][s] = IF s \in TranscodeSteps THEN "skipped"
                               ELSE "done"
      /\ todo = NoLoop
  <2>1. /\ \A s \in Steps :
              rows[half][s] = IF s \in Due THEN "done" ELSE FirstRow(s)
        /\ todo = NoLoop
    BY <1>1, AtTheEnd
  <2>2. Due = Steps \ TranscodeSteps /\ Kind = Steps
    BY <1>1 DEF Due, Kind
  <2> QED  BY <1>1, <2>1, <2>2 DEF FirstRow
<1>3. H' = H /\ Script' = H.enc /\ Due' = TranscodeSteps \ H.skips.enc
      /\ Kind' = TranscodeSteps /\ Goal' = "lib"
  BY <1>1 DEF H, Script, Due, Kind, Goal
<1>4. Walks(Due', Script', Goal')
  <2>1. Sound(H) /\ H.rip # <<>>
    BY <1>1, HandlersSound DEF TypeOK, Modes, H
  <2> QED  BY <1>3, <2>1 DEF Sound
<1>5. /\ rows' \in [{"drive", "compute"} -> [Steps -> RowStates]]
      /\ \A s \in Steps :
            /\ rows'["drive"][s] = rows["drive"][s]
            /\ rows'["compute"][s] =
                  IF s \notin TranscodeSteps THEN "absent"
                  ELSE IF s \in H.skips.enc THEN "skipped" ELSE "pending"
  <2>1. rows \in [{"drive", "compute"} -> [Steps -> RowStates]]
    BY <1>1 DEF TypeOK
  <2>2. CreateJob(TranscodeSteps, H.skips.enc) \in [Steps -> RowStates]
    BY DEF CreateJob, RowStates
  <2>3. \A s \in Steps :
           CreateJob(TranscodeSteps, H.skips.enc)[s] =
              IF s \notin TranscodeSteps THEN "absent"
              ELSE IF s \in H.skips.enc THEN "skipped" ELSE "pending"
    BY DEF CreateJob
  <2> QED  BY <1>1, <2>1, <2>2, <2>3
<1>6. \A s \in Steps : rows'[half'][s] = FirstRow(s)'
  BY <1>1, <1>3, <1>5 DEF FirstRow
<1>7. Walking' /\ pc' \in 1..Len(Script') + 1
  BY <1>1, <1>2, <1>4, <1>6, SetOutNext
<1>8. TypeOK'
  BY <1>1, <1>5, <1>7 DEF TypeOK
<1>9. Modes' /\ Works'
  BY <1>1, <1>3 DEF Modes, Works, TypeOK
<1>10. Sheltered'
  BY <1>1, FilesSame DEF Sheltered
<1>11. RowsKept'
  BY <1>2, <1>3, <1>5 DEF RowsKept
<1>12. AllDelivered' /\ PlanHonoured' /\ ErrorIsShown'
  BY <1>1 DEF AllDelivered, PlanHonoured, ErrorIsShown
<1> QED  BY <1>7, <1>8, <1>9, <1>10, <1>11, <1>12 DEF IInv

(* The last function returns.                                              *)
LEMMA FinishKeeps ==
    ASSUME IInv, Finish
    PROVE  IInv'
<1>1. /\ TypeOK /\ Modes /\ RowsKept /\ Walking
      /\ result = "none" /\ pc > Len(Script)
      /\ half = "compute" \/ job.mode # "split"
      /\ result' = "ok" /\ todo' = NoLoop /\ mounted' = FALSE
      /\ work' = FALSE /\ raw' = {} /\ enc' = {}
      /\ stored' = (stored \/ (half = "compute" /\ seen))
      /\ UNCHANGED <<job, half, tries, pc, rows, tray, lib, captured, seen>>
  BY DEF IInv, Finish, Leave, fixed
<1>2. /\ \A s \in Steps :
            rows[half][s] = IF s \in Due THEN "done" ELSE FirstRow(s)
      /\ StageHolds(Goal)
  BY <1>1, AtTheEnd
<1>3. Walking' /\ pc' \in 1..Len(Script') + 1
  BY <1>1, Over
<1>4. TypeOK'
  BY <1>1, <1>3 DEF TypeOK, Results
<1>5. Modes' /\ Works'
  BY <1>1, Same DEF Modes, Works
<1>6. Sheltered' /\ ErrorIsShown'
  BY <1>1 DEF Sheltered, ErrorIsShown
<1>7. RowsKept'
  BY <1>1, RowsStay
<1>8. AllDelivered'
  <2> SUFFICES ASSUME job.mode # "scan"
               PROVE  \A t \in captured : InLibrary(t)'
    BY <1>1 DEF AllDelivered
  <2>1. Goal = "lib"
    BY <1>1 DEF Goal, TypeOK
  <2> QED  BY <1>1, <1>2, <2>1 DEF StageHolds, InLibrary
<1>9. PlanHonoured'
  <2> SUFFICES ASSUME NEW s \in Steps
               PROVE  /\ rows["drive"][s] =
                           CASE job.mode = "scan"  ->
                                  IF s \in ScanSteps THEN "done" ELSE "absent"
                             [] job.mode = "split" ->
                                  IF s \in TranscodeSteps THEN "skipped"
                                  ELSE "done"
                             [] job.mode = "whole" ->
                                  IF s \in H.skips.plan THEN "skipped"
                                  ELSE "done"
                      /\ half = "compute" =>
                           rows["compute"][s] =
                              IF s \notin TranscodeSteps THEN "absent"
                              ELSE IF s \in H.skips.enc THEN "skipped"
                              ELSE "done"
    BY <1>1, Same DEF PlanHonoured
  <2>1. CASE half = "compute"
    <3>1. /\ job.mode = "split" /\ Due = TranscodeSteps \ H.skips.enc
          /\ Kind = TranscodeSteps
      BY <1>1, <2>1 DEF Modes, Due, Kind
    <3>2. rows["compute"][s] =
             IF s \notin TranscodeSteps THEN "absent"
             ELSE IF s \in H.skips.enc THEN "skipped" ELSE "done"
      BY <1>2, <2>1, <3>1 DEF FirstRow
    <3>3. rows["drive"][s] = IF s \in TranscodeSteps THEN "skipped"
                             ELSE "done"
      BY <1>1, <2>1 DEF RowsKept
    <3> QED  BY <3>1, <3>2, <3>3
  <2>2. CASE half = "drive" /\ job.mode = "scan"
    <3>1. Due = ScanSteps /\ Kind = ScanSteps
      BY <2>2 DEF Due, Kind
    <3> QED  BY <1>2, <2>2, <3>1 DEF FirstRow
  <2>3. CASE half = "drive" /\ job.mode = "whole"
    <3>1. Due = Steps \ H.skips.plan /\ Kind = Steps
      BY <2>3 DEF Due, Kind
    <3> QED  BY <1>2, <2>3, <3>1 DEF FirstRow
  <2> QED  BY <1>1, <2>1, <2>2, <2>3 DEF TypeOK
<1> QED  BY <1>3, <1>4, <1>5, <1>6, <1>7, <1>8, <1>9 DEF IInv

(* The daemon stops.                                                       *)
LEMMA CrashKeeps ==
    ASSUME IInv, Crash
    PROVE  IInv'
<1>1. /\ TypeOK /\ Modes /\ Works /\ Sheltered /\ RowsKept /\ Walking
      /\ half = "compute" /\ result = "none" /\ result' = "crash"
      /\ todo' = NoLoop
      /\ UNCHANGED lib \/ (Moving /\ Deliver(Part))
      /\ UNCHANGED <<job, half, tries, pc, rows, tray, work, mounted, raw,
                     enc, captured, stored, seen>>
  BY DEF IInv, Crash, fixed, place, names
<1>2. /\ lib' \in [Slots -> {Nothing, Part} \cup Titles]
      /\ \A t \in Titles : InLibrary(t) => InLibrary(t)'
  <2>1. CASE UNCHANGED lib
    BY <1>1, <2>1 DEF TypeOK, InLibrary
  <2>2. CASE Moving /\ Deliver(Part)
    <3>1. todo \in Seq(Files) /\ todo # <<>>
      BY <1>1, <2>2 DEF TypeOK, Moving, InLoop, Files
    <3>2. Head(todo) \in Files
      BY <3>1, HeadTailProperties
    <3>3. Head(todo).slot \in Slots
      BY <3>2 DEF Files
    <3> QED  BY <1>1, <2>2, <3>3, Delivered
  <2> QED  BY <1>1, <2>1, <2>2
<1>3. Walking' /\ pc' \in 1..Len(Script') + 1
  BY <1>1, Over
<1>4. TypeOK'
  BY <1>1, <1>2, <1>3 DEF TypeOK, Results
<1>5. Modes' /\ Works'
  BY <1>1, Same DEF Modes, Works
<1>6. Sheltered'
  BY <1>1, <1>2 DEF Sheltered, TypeOK
<1>7. RowsKept'
  BY <1>1, RowsStay
<1>8. AllDelivered' /\ PlanHonoured' /\ ErrorIsShown'
  BY <1>1 DEF AllDelivered, PlanHonoured, ErrorIsShown
<1> QED  BY <1>3, <1>4, <1>5, <1>6, <1>7, <1>8 DEF IInv

(* The compute half starts over.                                           *)
LEMMA RetryKeeps ==
    ASSUME IInv, Retry
    PROVE  IInv'
<1>1. /\ TypeOK /\ Modes /\ Works /\ Sheltered /\ RowsKept /\ Walking
      /\ half = "compute" /\ result \in {"err", "crash"}
      /\ tries < MaxRetries /\ tries' = tries + 1
      /\ rows' = [rows EXCEPT !["compute"] =
            [s \in Steps |-> IF @[s] \in {"absent", "skipped"} THEN @[s]
                             ELSE "pending"]]
      /\ pc' = 1 /\ result' = "none" /\ seen' = stored /\ enc' = {}
      /\ UNCHANGED <<job, half, todo, tray, work, mounted, raw, lib,
                     captured, stored>>
  BY DEF IInv, Retry, place
<1>2. todo = NoLoop /\ work
  BY <1>1 DEF Works
<1>3. /\ rows' \in [{"drive", "compute"} -> [Steps -> RowStates]]
      /\ \A s \in Steps :
            /\ rows'["drive"][s] = rows["drive"][s]
            /\ rows'["compute"][s] =
                  IF rows["compute"][s] \in {"absent", "skipped"}
                  THEN rows["compute"][s] ELSE "pending"
  <2>1. /\ rows \in [{"drive", "compute"} -> [Steps -> RowStates]]
        /\ "pending" \in RowStates
    BY <1>1 DEF TypeOK, RowStates
  <2> DEFINE new == [s \in Steps |->
                       IF rows["compute"][s] \in {"absent", "skipped"}
                       THEN rows["compute"][s] ELSE "pending"]
  <2>2. rows' = [rows EXCEPT !["compute"] = new]
    BY <1>1
  <2>3. new \in [Steps -> RowStates]
    BY <2>1
  <2>4. \A s \in Steps :
           new[s] = IF rows["compute"][s] \in {"absent", "skipped"}
                    THEN rows["compute"][s] ELSE "pending"
    OBVIOUS
  <2> HIDE DEF new
  <2> QED  BY <2>1, <2>2, <2>3, <2>4
<1>4. Due = TranscodeSteps \ H.skips.enc /\ Kind = TranscodeSteps
  BY <1>1 DEF Due, Kind
<1>5. \A s \in Steps : rows'[half'][s] = FirstRow(s)'
  <2>1. \A s \in Steps : rows'["compute"][s] = FirstRow(s)
    BY <1>1, <1>3, <1>4 DEF RowsKept, FirstRow
  <2> QED  BY <1>1, <2>1, Same
<1>6. Walks(Due', Script', Goal')
  <2>1. Walks(Due, Script, Goal)
    BY <1>1 DEF Walking, Path, Walks, Walk
  <2> QED  BY <1>1, <2>1, Same
<1>7. Walking' /\ pc' \in 1..Len(Script') + 1
  BY <1>1, <1>2, <1>5, <1>6, SetOutNext
<1>8. TypeOK'
  <2>1. tries' \in 0..MaxRetries
    BY <1>1, BoundsAssumption DEF TypeOK
  <2> QED  BY <1>1, <1>3, <1>7, <2>1 DEF TypeOK, Results
<1>9. Modes' /\ Works'
  BY <1>1, <1>2, Same DEF Modes, Works
<1>10. Sheltered'
  BY <1>1 DEF Sheltered, InLibrary
<1>11. RowsKept'
  BY <1>1, <1>3, Same DEF RowsKept
<1>12. AllDelivered' /\ PlanHonoured' /\ ErrorIsShown'
  BY <1>1 DEF AllDelivered, PlanHonoured, ErrorIsShown
<1> QED  BY <1>7, <1>8, <1>9, <1>10, <1>11, <1>12 DEF IInv

----------------------------------------------------------------------------

(* The theorems.                                                           *)

(* The invariant holds of a job that has just been created.                *)
LEMMA InitHolds == Init => IInv
<1> SUFFICES ASSUME Init PROVE IInv
  OBVIOUS
<1>1. /\ job \in [handler : DOMAIN Handlers,
                  mode : {"split", "whole", "scan"},
                  n : Titles, template : {"episode", "movie"}]
      /\ job.mode = "split" => H.rip # <<>>
      /\ job.mode = "scan" => H.scan # <<>>
      /\ rows = [drive |-> CASE job.mode = "split" ->
                                CreateJob(Steps, TranscodeSteps)
                             [] job.mode = "whole" ->
                                CreateJob(Steps, H.skips.plan)
                             [] job.mode = "scan" -> CreateJob(ScanSteps, {}),
                 compute |-> CreateJob({}, {})]
      /\ work = (job.mode = "split")
  BY DEF Init, H
<1>2. /\ half = "drive" /\ pc = 1 /\ todo = NoLoop /\ result = "none"
      /\ tray = "in" /\ mounted = FALSE
      /\ raw = {} /\ enc = {} /\ captured = {}
      /\ lib = [s \in Slots |-> Nothing]
      /\ stored \in BOOLEAN /\ seen = stored
      /\ tries = 0
  BY DEF Init
<1>3. \A A, B : CreateJob(A, B) \in [Steps -> RowStates]
  BY DEF CreateJob, RowStates
<1>4. rows \in [{"drive", "compute"} -> [Steps -> RowStates]]
  <2>1. CASE job.mode = "split"
    BY <1>1, <1>3, <2>1
  <2>2. CASE job.mode = "whole"
    BY <1>1, <1>3, <2>2
  <2>3. CASE job.mode = "scan"
    BY <1>1, <1>3, <2>3
  <2> QED  BY <1>1, <2>1, <2>2, <2>3
<1>5. Sound(H)
  BY <1>1, HandlersSound DEF H
<1>6. /\ Walks(Due, Script, Goal)
      /\ \A s \in Steps : rows[half][s] = FirstRow(s)
  <2>1. CASE job.mode = "split"
    <3>1. /\ Due = Steps \ TranscodeSteps /\ Script = H.rip /\ Goal = "raw"
          /\ Kind = Steps
      BY <1>2, <2>1 DEF Due, Script, Goal, Kind
    <3>2. rows["drive"] = CreateJob(Steps, TranscodeSteps)
      BY <1>1, <2>1
    <3> QED  BY <1>1, <1>2, <1>5, <2>1, <3>1, <3>2
             DEF Sound, CreateJob, FirstRow
  <2>2. CASE job.mode = "whole"
    <3>1. /\ Due = Steps \ H.skips.plan /\ Script = H.run /\ Goal = "lib"
          /\ Kind = Steps
      BY <1>2, <2>2 DEF Due, Script, Goal, Kind
    <3>2. rows["drive"] = CreateJob(Steps, H.skips.plan)
      BY <1>1, <2>2
    <3> QED  BY <1>2, <1>5, <3>1, <3>2 DEF Sound, CreateJob, FirstRow
  <2>3. CASE job.mode = "scan"
    <3>1. /\ Due = ScanSteps /\ Script = H.scan /\ Goal = "raw"
          /\ Kind = ScanSteps
      BY <1>2, <2>3 DEF Due, Script, Goal, Kind
    <3>2. rows["drive"] = CreateJob(ScanSteps, {})
      BY <1>1, <2>3
    <3> QED  BY <1>1, <1>2, <1>5, <2>3, <3>1, <3>2
             DEF Sound, CreateJob, FirstRow
  <2> QED  BY <1>1, <2>1, <2>2, <2>3
<1>7. Walking /\ pc \in 1..Len(Script) + 1
  BY <1>2, <1>6, SetOut
<1>8. TypeOK
  <2>1. lib \in [Slots -> {Nothing, Part} \cup Titles]
    BY <1>2
  <2>2. tries \in 0..MaxRetries
    BY <1>2, BoundsAssumption
  <2> QED  BY <1>1, <1>2, <1>4, <1>7, <2>1, <2>2 DEF TypeOK, Results
<1>9. Modes /\ Works /\ Sheltered /\ RowsKept
  BY <1>1, <1>2 DEF Modes, Works, Sheltered, RowsKept
<1>10. AllDelivered /\ PlanHonoured /\ ErrorIsShown
  BY <1>2 DEF AllDelivered, PlanHonoured, ErrorIsShown
<1> QED  BY <1>7, <1>8, <1>9, <1>10 DEF IInv

(* Every step keeps it.                                                    *)
LEMMA NextKeeps == IInv /\ [Next]_vars => IInv'
<1> SUFFICES ASSUME IInv, [Next]_vars PROVE IInv'
  OBVIOUS
<1>1. CASE StepStart \/ StepDone \/ Fail \/ DeferredDone
  BY <1>1, StepStartKeeps, StepDoneKeeps, FailKeeps, DeferredDoneKeeps
<1>2. CASE Call \/ ReadWhole \/ Learn \/ TryDecrypt \/ Eject
  BY <1>2, CallKeeps, ReadWholeKeeps, LearnKeeps, TryDecryptKeeps, EjectKeeps
<1>3. CASE Begin \/ RipTitle \/ EncodeTitle \/ MoveOne \/ MoveBreaks \/ End
  BY <1>3, BeginKeeps, RipTitleKeeps, EncodeTitleKeeps, MoveOneKeeps,
     MoveBreaksKeeps, EndKeeps
<1>4. CASE HandOver \/ Finish \/ Crash \/ Retry
  BY <1>4, HandOverKeeps, FinishKeeps, CrashKeeps, RetryKeeps
<1>5. CASE UNCHANGED vars
  <2>1. UNCHANGED <<job, half, pc, todo, rows, result, tray, work, mounted,
                    raw, enc, lib, stored, seen, captured, tries>>
    BY <1>5 DEF vars
  <2>2. Script' = Script /\ Due' = Due /\ H' = H
        /\ \A s : FirstRow(s)' = FirstRow(s)
    BY <2>1, Same
  <2>3. TypeOK' /\ Modes' /\ Works'
    BY <2>1, <2>2 DEF IInv, TypeOK, Modes, Works
  <2>4. Sheltered' /\ AllDelivered'
    BY <2>1, FilesSame DEF IInv, Sheltered, AllDelivered
  <2>5. RowsKept' /\ PlanHonoured' /\ ErrorIsShown'
    BY <2>1, <2>2 DEF IInv, RowsKept, PlanHonoured, ErrorIsShown,
                      RunningSteps
  <2>6. Walking'
    <3>1. PICK w : Path(w) /\ Stands(w)
      BY DEF IInv, Walking
    <3>2. Path(w)'
      BY <2>1, <3>1, Same
    <3>3. Now' = Now /\ (Looping' <=> Looping)
      BY <2>1, NowSame
    <3>4. LoopHolds' <=> LoopHolds
      BY <2>1, <2>2, <3>3 DEF LoopHolds, InLibrary, Left
    <3>5. ASSUME NEW p, Here(p)
          PROVE  Here(p)'
      <4>1. RowsAt(p)'
        BY <2>1, <2>2, <3>5 DEF Here, RowsAt
      <4> QED  BY <2>1, <3>4, <3>5, <4>1, FilesSame DEF Here
    <3>6. PICK p : p = w[pc]
      OBVIOUS
    <3>7. Stands(w)'
      BY <2>1, <3>1, <3>5, <3>6 DEF Stands
    <3> QED  BY <3>2, <3>7 DEF Walking
  <2> QED  BY <2>3, <2>4, <2>5, <2>6 DEF IInv
<1> QED  BY <1>1, <1>2, <1>3, <1>4, <1>5 DEF Next

(* The inductive invariant holds of every behaviour.                       *)
THEOREM PipelineInvariant == Spec => []IInv
BY InitHolds, NextKeeps, PTL DEF Spec

(* The model's variables keep their types.                                 *)
THEOREM TypeCorrect == Spec => []TypeOK
<1>1. IInv => TypeOK
  BY DEF IInv
<1> QED  BY <1>1, PipelineInvariant, PTL

(* A job that succeeds has done every step of its plan and left alone      *)
(* those the plan skips, whatever the handler.                             *)
THEOREM PlanIsRun == Spec => []PlanHonoured
<1>1. IInv => PlanHonoured
  BY DEF IInv
<1> QED  BY <1>1, PipelineInvariant, PTL

(* A function that returns an error has one step failed and none running.  *)
THEOREM ErrorHasItsStep == Spec => []ErrorIsShown
<1>1. IInv => ErrorIsShown
  BY DEF IInv
<1> QED  BY <1>1, PipelineInvariant, PTL

(* Nothing after the call that opens the tray reads the disc.              *)
THEOREM TrayIsLast == Spec => []NoReadAfterEject
<1>1. IInv => NoReadAfterEject
  <2> SUFFICES ASSUME IInv, half = "drive", tray = "out",
                      NEW k \in pc..Len(Script)
               PROVE  Script[k].op # "read"
    BY DEF NoReadAfterEject
  <2>1. PICK w : Path(w) /\ Stands(w)
    BY DEF IInv, Walking
  <2>2. Opened(w[pc])
    BY <2>1 DEF Stands
  <2>3. /\ Len(Script) \in Nat /\ pc \in Nat /\ pc >= 1
    BY <2>1, PathIs DEF IInv, TypeOK
  <2>4. /\ k \in 1..Len(Script) /\ k \in 1..Len(Script) + 1
        /\ pc \in 1..Len(Script) + 1 /\ pc <= k
    BY <2>3
  <2>5. Opened(w[k]) /\ Goes(Due, w[k], Script[k], w[k + 1])
    BY <2>1, <2>2, <2>4, PathIs
  <2>6. Script[k].op = "read" => GoRead(Due, w[k], Script[k], w[k + 1])
    BY <2>5 DEF Goes, GoStart, GoDone, GoEarly, GoDo, GoDecrypt, GoNeed,
                GoEncode, GoRead, GoMove
  <2> QED  BY <2>5, <2>6 DEF GoRead, Busy, Opened
<1> QED  BY <1>1, PipelineInvariant, PTL

(* What was ripped is in the spool or in the library until the compute     *)
(* half has succeeded.                                                     *)
THEOREM RipIsSheltered == Spec => []NothingLost
<1>1. IInv => NothingLost
  BY DEF IInv, Sheltered, NothingLost
<1> QED  BY <1>1, PipelineInvariant, PTL

(* On every way out the disc is unmounted and the work directory gone      *)
(* unless a retry needs it; a success has delivered all it captured.       *)
THEOREM LeavesInOrder == Spec => []Settled
<1>1. IInv => Settled
  BY DEF IInv, Works, Modes, AllDelivered, Settled, TypeOK
<1> QED  BY <1>1, PipelineInvariant, PTL

(* Steps start from pending and one at a time.                             *)
LEMMA OnlyStartsStart ==
    ASSUME TypeOK, Next, ~StepStart, NEW h \in {"drive", "compute"},
           NEW s \in Steps, rows'[h][s] = "running"
    PROVE  rows[h][s] = "running"
<1>1. /\ rows \in [{"drive", "compute"} -> [Steps -> RowStates]]
      /\ half \in {"drive", "compute"}
  BY DEF TypeOK
<1>2. CASE UNCHANGED rows
  BY <1>2
<1>3. ASSUME NEW o, NEW st \in {"done", "failed"}, UpdateJobStepState(o, st)
      PROVE  rows[h][s] = "running"
  BY <1>1, <1>3 DEF UpdateJobStepState
<1>4. CASE StepDone \/ DeferredDone
  BY <1>3, <1>4 DEF StepDone, DeferredDone
<1>5. CASE Eject
  BY <1>2, <1>3, <1>5 DEF Eject
<1>6. CASE Fail
  <2>1. rows' = [rows EXCEPT ![half] =
           [o \in Steps |->
              IF o \in RunningSteps \/ (Now.op = "early" /\ o = Now.step)
              THEN "failed" ELSE @[o]]]
    BY <1>6 DEF Fail
  <2> QED  BY <1>1, <2>1
<1>7. CASE MoveBreaks
  <2>1. rows' = [rows EXCEPT ![half]["move"] = "failed"]
    BY <1>7 DEF MoveBreaks
  <2> QED  BY <1>1, <2>1
<1>8. CASE HandOver
  <2>1. rows' = [rows EXCEPT !["compute"] =
                   CreateJob(TranscodeSteps, H.skips.enc)]
    BY <1>8 DEF HandOver
  <2>2. CreateJob(TranscodeSteps, H.skips.enc)[s] # "running"
    BY DEF CreateJob
  <2> QED  BY <1>1, <2>1, <2>2
<1>9. CASE Retry
  <2>1. rows' = [rows EXCEPT !["compute"] =
           [o \in Steps |-> IF @[o] \in {"absent", "skipped"} THEN @[o]
                            ELSE "pending"]]
    BY <1>9 DEF Retry
  <2> QED  BY <1>1, <2>1
<1>10. CASE \/ Call \/ ReadWhole \/ Learn \/ TryDecrypt \/ Begin \/ RipTitle
            \/ EncodeTitle \/ MoveOne \/ End \/ Finish \/ Crash
  BY <1>2, <1>10 DEF Call, ReadWhole, Learn, TryDecrypt, Begin, RipTitle,
                     EncodeTitle, MoveOne, End, Finish, Crash
<1> QED  BY <1>4, <1>5, <1>6, <1>7, <1>8, <1>9, <1>10 DEF Next

(* No step of a job is started unless it is pending and no other of its    *)
(* half runs.                                                              *)
THEOREM StepsInTurn == Spec => OneStepAtATime
<1> DEFINE Turn ==
       \A h \in {"drive", "compute"}, s \in Steps :
          rows'[h][s] = "running" /\ rows[h][s] # "running" =>
             /\ rows[h][s] = "pending"
             /\ \A o \in Steps : rows[h][o] # "running"
<1>1. IInv /\ [Next]_vars => [Turn]_vars
  <2> SUFFICES ASSUME IInv, Next, NEW h \in {"drive", "compute"},
                      NEW s \in Steps,
                      rows'[h][s] = "running", rows[h][s] # "running"
               PROVE  /\ rows[h][s] = "pending"
                      /\ \A o \in Steps : rows[h][o] # "running"
    OBVIOUS
  <2>1. StepStart /\ TypeOK
    BY OnlyStartsStart DEF IInv
  <2>2. PICK w, p, n : Between(w, p, n)
    BY <2>1, Standing DEF IInv, StepStart
  <2>3. /\ rows[half][Now.step] = "pending"
        /\ \A o \in Steps : rows[half][o] # "running"
    BY <2>1, <2>2, StartsPending
  <2>4. h = half /\ s = Now.step
    <3>1. UpdateJobStepState(Now.step, "running")
      BY <2>1 DEF StepStart
    <3>2. rows \in [{"drive", "compute"} -> [Steps -> RowStates]]
      BY <2>1 DEF TypeOK
    <3> QED  BY <3>1, <3>2 DEF UpdateJobStepState
  <2> QED  BY <2>3, <2>4
<1> QED  BY <1>1, PipelineInvariant, PTL DEF Spec, OneStepAtATime
=============================================================================
