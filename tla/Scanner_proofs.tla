----------------------------- MODULE Scanner_proofs -----------------------------
(***************************************************************************)
(* What holds of CVE scans, in the cluster and on the operator's machine,  *)
(* for any number of images, commands, attempts and moves of the           *)
(* environment.                                                            *)
(***************************************************************************)
EXTENDS Scanner, SequenceTheorems, WellFoundedInduction, TLAPS

---------------------------------------------------------------------------
(* Functions defined by recursion over the first numbers.                  *)

LEMMA SmallestNumber ==
    ASSUME NEW S \in SUBSET Nat, S # {}
    PROVE  \E a \in S : \A b \in S : a <= b
<1>1. PICK a \in S : \A b \in S : <<b, a>> \notin OpToRel(<, Nat)
  BY NatLessThanWellFounded, WFMin
<1>2. \A b \in S : ~(b < a)
  BY <1>1 DEF OpToRel
<1> QED
  BY <1>2

StepsIn(step, last, D) == last \in Nat /\ step \in [1..last -> [D -> D]]

\* f begins with base and goes on with step.
Follows(f, base, step, last, D) ==
    /\ f \in [0..last -> D] /\ f[0] = base
    /\ \A n \in 1..last : f[n] = step[n][f[n - 1]]

LEMMA Recursion ==
    ASSUME NEW N, NEW D, NEW base \in D, NEW step, StepsIn(step, N, D)
    PROVE  \E f : Follows(f, base, step, N, D)
<1> USE DEF StepsIn, Follows
<1> DEFINE Goes(f, last) == Follows(f, base, step, last, D)
           S == {last \in 0..N : ~\E f : Goes(f, last)}
<1>1. ASSUME NEW last \in S, \A b \in S : last <= b
      PROVE  FALSE
  <2>1. CASE last = 0
    <3>1. Goes([n \in 0..0 |-> base], 0)
      OBVIOUS
    <3> QED
      BY <2>1, <3>1
  <2>2. CASE last # 0
    <3>1. last \in 1..N /\ last - 1 \in 0..N /\ last - 1 \notin S
      <4>1. last \in 0..N
        OBVIOUS
      <4>2. last - 1 \in S => last <= last - 1
        BY <1>1
      <4> HIDE DEF S
      <4> QED
        BY <2>2, <4>1, <4>2
    <3>2. PICK f : Goes(f, last - 1)
      BY <3>1
    <3> DEFINE g == [n \in 0..last |-> IF n = last THEN step[last][f[last - 1]] ELSE f[n]]
    <3>3. last - 1 \in 0..last - 1
      BY <3>1
    <3>4. step[last][f[last - 1]] \in D
      BY <3>1, <3>2, <3>3
    <3>5. g \in [0..last -> D] /\ g[0] = base
      <4>1. \A n \in 0..last : n # last => n \in 0..last - 1
        BY <3>1
      <4> QED
        BY <2>2, <3>1, <3>2, <3>4, <4>1
    <3>6. ASSUME NEW n \in 1..last
          PROVE  g[n] = step[n][g[n - 1]]
      <4>1. n - 1 \in 0..last /\ n - 1 # last /\ n \in 0..last
        BY <3>1
      <4>2. g[n - 1] = f[n - 1]
        BY <4>1
      <4>3. CASE n = last
        BY <4>1, <4>2, <4>3
      <4>4. CASE n # last
        <5>1. n \in 1..last - 1
          BY <3>1, <4>4
        <5> QED
          BY <3>2, <4>1, <4>2, <4>4, <5>1
      <4> QED
        BY <4>3, <4>4
    <3>7. Goes(g, last)
      <4> HIDE DEF g
      <4> QED
        BY <3>5, <3>6
    <3> QED
      BY <3>7
  <2> QED
    BY <2>1, <2>2
<1>2. S = {}
  <2>1. S \in SUBSET Nat
    OBVIOUS
  <2> HIDE DEF S
  <2> QED
    BY <1>1, <2>1, SmallestNumber
<1>3. N \in 0..N
  OBVIOUS
<1> QED
  BY <1>2, <1>3

\* Two functions begin with the same, and go on alike.
Alike(f, g, first, last) ==
    /\ first \in Nat /\ last \in Nat /\ f[first] = g[first]
    /\ \A n \in first + 1..last : f[n - 1] = g[n - 1] => f[n] = g[n]

LEMMA RecursionIsUnique ==
    ASSUME NEW f, NEW g, NEW first, NEW N, Alike(f, g, first, N)
    PROVE  \A n \in first..N : f[n] = g[n]
<1> USE DEF Alike
<1> DEFINE S == {n \in first..N : f[n] # g[n]}
<1>1. ASSUME NEW n \in S, \A b \in S : n <= b
      PROVE  FALSE
  <2>1. CASE n = first
    BY <2>1
  <2>2. CASE n # first
    <3>1. n \in first + 1..N /\ n - 1 \in first..N
      BY <2>2
    <3>2. n - 1 \notin S
      <4>1. n - 1 \in S => n <= n - 1
        BY <1>1
      <4> HIDE DEF S
      <4> QED
        BY <3>1, <4>1
    <3> QED
      BY <3>1, <3>2
  <2> QED
    BY <2>1, <2>2
<1>2. S = {}
  <2>1. S \in SUBSET Nat
    OBVIOUS
  <2> HIDE DEF S
  <2> QED
    BY <1>1, <2>1, SmallestNumber
<1> QED
  BY <1>2

---------------------------------------------------------------------------
(* What the script writes, and what the command reads, line by line.       *)

Kinds == {"begin", "report", "longReport", "noise", "rc", "end"}
Lines == [kind : Kinds, image : Images \cup {NoImage}, rc : Int]
Reads == [current : Images \cup {NoImage}, chunks : [Images -> Seq(Lines)],
          rcs : [Images -> Int]]

LEMMA LinesAssociate ==
    ASSUME NEW r \in Seq(Lines), NEW s \in Seq(Lines), NEW t \in Seq(Lines)
    PROVE  (r \o s) \o t = r \o (s \o t)
  BY ConcatAssociative

\* What FlattenSeq has joined after each of the sequences.
Joining(s) ==
    LET flatten[i \in 1..Len(s)] == IF i = 1 THEN s[i] ELSE flatten[i - 1] \o s[i]
    IN  flatten

LEMMA JoiningDefined ==
    ASSUME NEW D, NEW s \in Seq(Seq(D))
    PROVE  \A i \in 1..Len(s) :
              /\ Joining(s)[i] = IF i = 1 THEN s[i] ELSE Joining(s)[i - 1] \o s[i]
              /\ Joining(s)[i] \in Seq(D)
<1> DEFINE step == [i \in 1..Len(s) |-> [sofar \in Seq(D) |->
                        IF i = 1 THEN s[i] ELSE sofar \o s[i]]]
<1>1. Len(s) \in Nat /\ \A i \in 1..Len(s) : s[i] \in Seq(D)
  OBVIOUS
<1>2. step \in [1..Len(s) -> [Seq(D) -> Seq(D)]]
  BY <1>1
<1>3. <<>> \in Seq(D)
  OBVIOUS
<1>4. PICK f : Follows(f, <<>>, step, Len(s), Seq(D))
  <2>1. StepsIn(step, Len(s), Seq(D))
    BY <1>1, <1>2 DEF StepsIn
  <2> HIDE DEF step
  <2> QED
    BY <2>1, <1>3, Recursion
<1> DEFINE g == [i \in 1..Len(s) |-> f[i]]
<1>5. \A i \in 1..Len(s) : i - 1 \in 0..Len(s) /\ (i # 1 => i - 1 \in 1..Len(s))
  BY <1>1
<1>6. \A i \in 1..Len(s) : f[i] = IF i = 1 THEN s[i] ELSE f[i - 1] \o s[i]
  BY <1>4, <1>5 DEF Follows
<1>7. g = [i \in 1..Len(s) |-> IF i = 1 THEN s[i] ELSE g[i - 1] \o s[i]]
  BY <1>5, <1>6
<1>8. Joining(s) = [i \in 1..Len(s) |-> IF i = 1 THEN s[i] ELSE Joining(s)[i - 1] \o s[i]]
  <2> HIDE DEF g
  <2> QED
    BY <1>7 DEF Joining
<1>9. \A n \in 1..Len(s) : Joining(s)[n] = f[n]
  <2>1. CASE Len(s) = 0
    BY <1>1, <2>1
  <2>2. CASE Len(s) # 0
    <3>1. 1 \in 1..Len(s) /\ 1 \in 0..Len(s)
      BY <1>1, <2>2
    <3>2. Joining(s)[1] = f[1]
      BY <1>6, <1>8, <3>1
    <3>3. \A n \in 1 + 1..Len(s) : Joining(s)[n - 1] = f[n - 1] => Joining(s)[n] = f[n]
      <4>1. \A n \in 1 + 1..Len(s) : n \in 1..Len(s) /\ n # 1
        BY <1>1
      <4>2. \A n \in 1..Len(s) : Joining(s)[n] = IF n = 1 THEN s[n] ELSE Joining(s)[n - 1] \o s[n]
        BY <1>8
      <4> QED
        BY <1>6, <4>1, <4>2
    <3> QED
      <4>1. Alike(Joining(s), f, 1, Len(s))
        BY <1>1, <3>2, <3>3 DEF Alike
      <4> QED
        BY <4>1, RecursionIsUnique
  <2> QED
    BY <2>1, <2>2
<1> QED
  <2>1. ASSUME NEW i \in 1..Len(s)
        PROVE  Joining(s)[i] \in Seq(D)
    <3>1. i \in 0..Len(s)
      BY <1>1
    <3> QED
      BY <1>4, <1>9, <3>1 DEF Follows
  <2> QED
    BY <1>8, <2>1

LEMMA FlattenGrows ==
    ASSUME NEW D, NEW s \in Seq(Seq(D)), NEW x \in Seq(D)
    PROVE  /\ FlattenSeq(s) \in Seq(D)
           /\ FlattenSeq(Append(s, x)) = FlattenSeq(s) \o x
<1> DEFINE t == Append(s, x)
<1>1. /\ t \in Seq(Seq(D)) /\ Len(s) \in Nat /\ Len(t) = Len(s) + 1
      /\ t[Len(s) + 1] = x /\ \A i \in 1..Len(s) : t[i] = s[i]
  OBVIOUS
<1>2. FlattenSeq(s) = IF Len(s) = 0 THEN s ELSE Joining(s)[Len(s)]
  BY DEF FlattenSeq, Joining
<1>3. FlattenSeq(t) = Joining(t)[Len(s) + 1]
  <2>1. FlattenSeq(t) = IF Len(t) = 0 THEN t ELSE Joining(t)[Len(t)]
    BY DEF FlattenSeq, Joining
  <2> QED
    BY <1>1, <2>1
<1>4. \A i \in 1..Len(t) : Joining(t)[i] = IF i = 1 THEN t[i] ELSE Joining(t)[i - 1] \o t[i]
  BY <1>1, JoiningDefined
<1>5. \A i \in 1..Len(s) :
         /\ Joining(s)[i] = IF i = 1 THEN s[i] ELSE Joining(s)[i - 1] \o s[i]
         /\ Joining(s)[i] \in Seq(D)
  BY JoiningDefined
<1> HIDE DEF t
<1>6. CASE Len(s) = 0
  <2>1. s = <<>> /\ FlattenSeq(s) = <<>>
    <3>1. s = <<>>
      BY <1>6
    <3> QED
      BY <1>2, <1>6, <3>1
  <2>2. FlattenSeq(t) = x
    BY <1>1, <1>3, <1>4, <1>6
  <2>3. <<>> \in Seq(D) /\ x = <<>> \o x
    OBVIOUS
  <2> QED
    BY <2>1, <2>2, <2>3 DEF t
<1>7. CASE Len(s) # 0
  <2>1. 1 \in 1..Len(s) /\ Len(s) \in 1..Len(s) /\ Len(s) + 1 \in 1..Len(t)
    BY <1>1, <1>7
  <2>2. Joining(t)[1] = Joining(s)[1]
    BY <1>1, <1>4, <1>5, <2>1
  <2>3. ASSUME NEW n \in 1 + 1..Len(s), Joining(t)[n - 1] = Joining(s)[n - 1]
        PROVE  Joining(t)[n] = Joining(s)[n]
    <3>1. n \in 1..Len(s) /\ n \in 1..Len(t) /\ n # 1
      BY <1>1
    <3> QED
      BY <1>1, <1>4, <1>5, <2>3, <3>1
  <2>4. \A n \in 1..Len(s) : Joining(t)[n] = Joining(s)[n]
    <3>1. Alike(Joining(t), Joining(s), 1, Len(s))
      BY <1>1, <2>2, <2>3 DEF Alike
    <3> QED
      BY <3>1, RecursionIsUnique
  <2>5. Joining(t)[Len(s) + 1] = Joining(t)[Len(s)] \o x
    <3>1. Len(s) + 1 # 1 /\ (Len(s) + 1) - 1 = Len(s)
      BY <1>1, <1>7
    <3> QED
      BY <1>1, <1>4, <2>1, <3>1
  <2> QED
    BY <1>2, <1>3, <1>5, <1>7, <2>1, <2>4, <2>5 DEF t
<1> QED
  BY <1>6, <1>7

\* What the parser knows after a log, and after one line more.
LEMMA ParseTyped ==
    ASSUME NEW read \in Reads, NEW line \in Lines
    PROVE  Parse(read, line) \in Reads
<1>1. /\ read.current \in Images \cup {NoImage} /\ read.chunks \in [Images -> Seq(Lines)]
      /\ read.rcs \in [Images -> Int] /\ line.image \in Images \cup {NoImage} /\ line.rc \in Int
  BY DEF Reads, Lines
<1>2. CASE line.kind = "begin"
  BY <1>1, <1>2 DEF Parse, Reads
<1>3. CASE line.kind = "rc"
  <2>1. [read EXCEPT !.rcs[line.image] = line.rc] \in Reads
    BY <1>1 DEF Reads
  <2> QED
    BY <1>3, <2>1 DEF Parse
<1>4. CASE line.kind = "end"
  <2>1. [read EXCEPT !.current = NoImage] \in Reads
    BY <1>1 DEF Reads
  <2> QED
    BY <1>4, <2>1 DEF Parse
<1>5. CASE line.kind \notin {"begin", "rc", "end"}
  <2>1. CASE read.current # NoImage
    <3>1. read.current \in Images /\ Append(read.chunks[read.current], line) \in Seq(Lines)
      BY <1>1, <2>1
    <3>2. [read EXCEPT !.chunks[read.current] = Append(@, line)] \in Reads
      BY <1>1, <3>1 DEF Reads
    <3> QED
      BY <1>5, <2>1, <3>2 DEF Parse
  <2>2. CASE read.current = NoImage
    BY <1>5, <2>2 DEF Parse
  <2> QED
    BY <2>1, <2>2
<1> QED
  BY <1>2, <1>3, <1>4, <1>5

LEMMA ReadingDefined ==
    ASSUME NEW log \in Seq(Lines)
    PROVE  /\ Reading(log)[0] = Unread
           /\ \A n \in 1..Len(log) : Reading(log)[n] = Parse(Reading(log)[n - 1], log[n])
           /\ \A n \in 0..Len(log) : Reading(log)[n] \in Reads
<1> DEFINE step == [n \in 1..Len(log) |-> [read \in Reads |-> Parse(read, log[n])]]
<1>1. Len(log) \in Nat /\ \A n \in 1..Len(log) : log[n] \in Lines
  OBVIOUS
<1>2. Unread \in Reads
  BY DEF Unread, Reads
<1>3. PICK f : Follows(f, Unread, step, Len(log), Reads)
  <2>1. StepsIn(step, Len(log), Reads)
    BY <1>1, ParseTyped DEF StepsIn
  <2> HIDE DEF step
  <2> QED
    BY <1>2, <2>1, Recursion
<1>4. /\ f \in [0..Len(log) -> Reads] /\ f[0] = Unread
      /\ \A n \in 1..Len(log) : n - 1 \in 0..Len(log) /\ n \in 0..Len(log) /\ n # 0
  BY <1>1, <1>3 DEF Follows
<1>5. \A n \in 1..Len(log) : f[n] = Parse(f[n - 1], log[n])
  BY <1>3, <1>4 DEF Follows
<1>6. f = [n \in 0..Len(log) |-> IF n = 0 THEN Unread ELSE Parse(f[n - 1], log[n])]
  <2>1. \A n \in 0..Len(log) : f[n] = IF n = 0 THEN Unread ELSE Parse(f[n - 1], log[n])
    BY <1>1, <1>4, <1>5
  <2> QED
    BY <1>4, <2>1
<1>7. Reading(log) = [n \in 0..Len(log) |->
                         IF n = 0 THEN Unread ELSE Parse(Reading(log)[n - 1], log[n])]
  <2> HIDE DEF step
  <2> QED
    BY <1>6 DEF Reading
<1>8. /\ Reading(log)[0] = Unread
      /\ \A n \in 1..Len(log) : Reading(log)[n] = Parse(Reading(log)[n - 1], log[n])
  <2>1. 0 \in 0..Len(log)
    BY <1>1
  <2> QED
    BY <1>4, <1>7, <2>1
<1>9. \A n \in 0..Len(log) : Reading(log)[n] = f[n]
  <2>1. Alike(Reading(log), f, 0, Len(log))
    <3>1. \A n \in 0 + 1..Len(log) : n \in 1..Len(log)
      OBVIOUS
    <3> QED
      BY <1>1, <1>4, <1>5, <1>8, <3>1 DEF Alike
  <2> QED
    BY <2>1, RecursionIsUnique
<1> QED
  BY <1>4, <1>8, <1>9

LEMMA ParsedGrows ==
    ASSUME NEW log \in Seq(Lines), NEW line \in Lines
    PROVE  /\ Parsed(log) \in Reads
           /\ Parsed(Append(log, line)) = Parse(Parsed(log), line)
<1> DEFINE more == Append(log, line)
<1>1. /\ more \in Seq(Lines) /\ Len(log) \in Nat /\ Len(more) = Len(log) + 1
      /\ more[Len(log) + 1] = line /\ \A n \in 1..Len(log) : more[n] = log[n]
  OBVIOUS
<1> HIDE DEF more
<1>2. /\ Reading(log)[0] = Unread
      /\ \A n \in 1..Len(log) : Reading(log)[n] = Parse(Reading(log)[n - 1], log[n])
      /\ \A n \in 0..Len(log) : Reading(log)[n] \in Reads
  BY ReadingDefined
<1>3. /\ Reading(more)[0] = Unread
      /\ \A n \in 1..Len(more) : Reading(more)[n] = Parse(Reading(more)[n - 1], more[n])
  BY <1>1, ReadingDefined
<1>4. \A n \in 0..Len(log) : Reading(more)[n] = Reading(log)[n]
  <2>1. \A n \in 0 + 1..Len(log) : n \in 1..Len(log) /\ n \in 1..Len(more)
    BY <1>1
  <2>2. Alike(Reading(more), Reading(log), 0, Len(log))
    BY <1>1, <1>2, <1>3, <2>1 DEF Alike
  <2> QED
    BY <2>2, RecursionIsUnique
<1>5. /\ Len(log) + 1 \in 1..Len(more) /\ (Len(log) + 1) - 1 = Len(log)
      /\ Len(log) \in 0..Len(log)
  BY <1>1
<1>6. Reading(more)[Len(log) + 1] = Parse(Reading(log)[Len(log)], line)
  BY <1>1, <1>3, <1>4, <1>5
<1> QED
  BY <1>1, <1>2, <1>5, <1>6 DEF Parsed, more

---------------------------------------------------------------------------
(* The parser undoes the framing.                                          *)

LEMMA FrameTyped ==
    ASSUME NEW i \in Images, scan \in [Images -> Outcomes]
    PROVE  /\ TrivyOutput(i) \in Seq(Lines) /\ Framed(i) \in Seq(Lines)
           /\ Noise \in Lines /\ ExitCode(i) \in {0, 1}
<1> USE DEF Line, Noise, Lines, Kinds
<1>1. scan[i] \in Outcomes
  OBVIOUS
<1>2. Noise \in Lines /\ Line("report", i, 0) \in Lines /\ Line("longReport", i, 0) \in Lines
  OBVIOUS
<1>3. /\ Line("begin", i, 0) \in Lines /\ Line("end", i, 0) \in Lines
      /\ ExitCode(i) \in {0, 1} /\ Line("rc", i, ExitCode(i)) \in Lines
  BY DEF ExitCode
<1> USE DEF Outcomes
<1> HIDE DEF Line, Noise, Lines
<1>4. TrivyOutput(i) \in Seq(Lines)
  BY <1>1, <1>2 DEF TrivyOutput
<1>5. Framed(i) \in Seq(Lines)
  BY <1>3, <1>4 DEF Framed
<1> QED
  BY <1>2, <1>3, <1>4, <1>5

LEMMA TwoAppended ==
    ASSUME NEW D, NEW log \in Seq(D), NEW a \in D, NEW b \in D
    PROVE  /\ log \o <<a, b>> = Append(Append(log, a), b)
           /\ Append(log, a) \in Seq(D)
           /\ Append(<<>>, a) = <<a>> /\ Append(<<a>>, b) = <<a, b>>
<1>1. Append(<<>>, a) = <<a>>
  OBVIOUS
<1>2. \A s \in Seq(D) : Append(s, a) \in Seq(D) /\ s \o <<a, b>> = Append(Append(s, a), b)
  OBVIOUS
<1>3. <<>> \o <<a, b>> = <<a, b>>
  <2>1. <<a, b>> \in Seq(D)
    OBVIOUS
  <2> QED
    BY <2>1, ConcatEmptySeq
<1>4. <<>> \in Seq(D)
  OBVIOUS
<1> QED
  BY <1>1, <1>2, <1>3, <1>4

\* Between the markers of an image, its output becomes its chunk.
LEMMA OutputRead ==
    ASSUME NEW i \in Images, NoImage \notin Images, scan \in [Images -> Outcomes],
           NEW log \in Seq(Lines), Parsed(log).current = i, Parsed(log).chunks[i] = <<>>
    PROVE  LET after == Parsed(log \o TrivyOutput(i))
           IN  /\ after.current = i /\ after.rcs = Parsed(log).rcs
               /\ after.chunks = [Parsed(log).chunks EXCEPT ![i] = TrivyOutput(i)]
<1> DEFINE before == Parsed(log)
<1>1. /\ before \in Reads /\ before.current = i /\ i # NoImage /\ before.chunks[i] = <<>>
      /\ before.chunks \in [Images -> Seq(Lines)]
  BY ParsedGrows, FrameTyped DEF Reads
<1> HIDE DEF before
<1>2. ASSUME NEW read \in Reads, read.current = i, NEW line \in Lines,
             line.kind \in {"report", "longReport", "noise"}
      PROVE  /\ Parse(read, line).current = i /\ Parse(read, line).rcs = read.rcs
             /\ Parse(read, line).chunks
                   = [read.chunks EXCEPT ![i] = Append(read.chunks[i], line)]
  <2>1. Parse(read, line) = [read EXCEPT !.chunks[i] = Append(read.chunks[i], line)]
    BY <1>1, <1>2 DEF Parse
  <2> QED
    BY <1>2, <2>1 DEF Reads
<1>3. ASSUME NEW line \in Lines, line.kind \in {"report", "longReport", "noise"},
             TrivyOutput(i) = <<line>>
      PROVE  LET after == Parsed(log \o TrivyOutput(i))
             IN  /\ after.current = i /\ after.rcs = before.rcs
                 /\ after.chunks = [before.chunks EXCEPT ![i] = TrivyOutput(i)]
  <2>1. log \o <<line>> = Append(log, line) /\ Append(<<>>, line) = <<line>>
    OBVIOUS
  <2>2. Parsed(log \o TrivyOutput(i)) = Parse(before, line)
    BY <1>3, <2>1, ParsedGrows DEF before
  <2>3. Append(before.chunks[i], line) = TrivyOutput(i)
    BY <1>1, <1>3, <2>1
  <2>4. /\ Parse(before, line).current = i /\ Parse(before, line).rcs = before.rcs
        /\ Parse(before, line).chunks
              = [before.chunks EXCEPT ![i] = Append(before.chunks[i], line)]
    BY <1>1, <1>2, <1>3
  <2> QED
    BY <2>2, <2>3, <2>4
<1>4. ASSUME NEW line \in Lines, line.kind = "report", TrivyOutput(i) = <<Noise, line>>
      PROVE  LET after == Parsed(log \o TrivyOutput(i))
             IN  /\ after.current = i /\ after.rcs = before.rcs
                 /\ after.chunks = [before.chunks EXCEPT ![i] = TrivyOutput(i)]
  <2>1. /\ Noise \in Lines /\ Noise.kind = "noise"
        /\ log \o <<Noise, line>> = Append(Append(log, Noise), line)
        /\ Append(log, Noise) \in Seq(Lines)
        /\ Append(<<>>, Noise) = <<Noise>> /\ Append(<<Noise>>, line) = <<Noise, line>>
    <3>1. Noise \in Lines /\ Noise.kind = "noise"
      BY FrameTyped DEF Noise, Line
    <3> HIDE DEF Noise
    <3> QED
      BY <3>1, TwoAppended
  <2> DEFINE read == Parsed(Append(log, Noise))
  <2>2. read \in Reads /\ read = Parse(before, Noise)
    BY <2>1, ParsedGrows DEF before
  <2> HIDE DEF read
  <2>3. read.current = i /\ read.rcs = before.rcs
        /\ read.chunks = [before.chunks EXCEPT ![i] = <<Noise>>]
    <3>1. Append(before.chunks[i], Noise) = <<Noise>>
      BY <1>1, <2>1
    <3>2. /\ read.current = i /\ read.rcs = before.rcs
          /\ read.chunks = [before.chunks EXCEPT ![i] = Append(before.chunks[i], Noise)]
      BY <1>1, <1>2, <2>1, <2>2
    <3> QED
      BY <3>1, <3>2
  <2>4. Parsed(log \o <<Noise, line>>) = Parse(read, line)
    BY <2>1, ParsedGrows DEF read
  <2>5. read.chunks[i] = <<Noise>>
    BY <1>1, <2>3
  <2>6. /\ Parse(read, line).current = i /\ Parse(read, line).rcs = read.rcs
        /\ Parse(read, line).chunks = [read.chunks EXCEPT ![i] = <<Noise, line>>]
    <3>1. Append(read.chunks[i], line) = <<Noise, line>>
      BY <2>1, <2>5
    <3>2. /\ Parse(read, line).current = i /\ Parse(read, line).rcs = read.rcs
          /\ Parse(read, line).chunks = [read.chunks EXCEPT ![i] = Append(read.chunks[i], line)]
      BY <1>2, <1>4, <2>2, <2>3
    <3> QED
      BY <3>1, <3>2
  <2> QED
    BY <1>1, <1>4, <2>3, <2>4, <2>6
<1>5. scan[i] \in Outcomes
  OBVIOUS
<1>6. \A kind \in {"report", "longReport"} :
         Line(kind, i, 0) \in Lines /\ Line(kind, i, 0).kind = kind
  BY DEF Line, Lines, Kinds
<1>7. Noise \in Lines /\ Noise.kind = "noise"
  BY FrameTyped DEF Noise, Line
<1>8. CASE scan[i] \in {"clean", "late"}
  <2>1. TrivyOutput(i) = <<Line("report", i, 0)>>
    BY <1>8 DEF TrivyOutput
  <2> QED
    BY <1>3, <1>6, <2>1 DEF before
<1>9. CASE scan[i] = "long"
  <2>1. TrivyOutput(i) = <<Line("longReport", i, 0)>>
    BY <1>9 DEF TrivyOutput
  <2> QED
    BY <1>3, <1>6, <2>1 DEF before
<1>10. CASE scan[i] = "noisy"
  <2>1. TrivyOutput(i) = <<Noise, Line("report", i, 0)>>
    BY <1>10 DEF TrivyOutput
  <2> QED
    BY <1>4, <1>6, <2>1 DEF before
<1>11. CASE scan[i] \in {"failed", "cut"}
  <2>1. TrivyOutput(i) = <<Noise>>
    BY <1>11 DEF TrivyOutput
  <2> QED
    BY <1>3, <1>7, <2>1 DEF before
<1> QED
  BY <1>5, <1>8, <1>9, <1>10, <1>11 DEF Outcomes

\* The code the log has for an image; -1 is none.
CodeSeen(i) == IF scan[i] = "cut" THEN -1 ELSE ExitCode(i)

\* A frame is a marker, the output, and one or two markers more.
LEMMA FrameAppended ==
    ASSUME NEW i \in Images, scan \in [Images -> Outcomes], NEW log \in Seq(Lines)
    PROVE  LET begin == Line("begin", i, 0)
               rc == Line("rc", i, ExitCode(i))
               end == Line("end", i, 0)
               output == Append(log, begin) \o TrivyOutput(i)
           IN  /\ begin \in Lines /\ rc \in Lines /\ end \in Lines /\ output \in Seq(Lines)
               /\ log \o Framed(i) = IF scan[i] = "cut" THEN Append(output, end)
                                     ELSE Append(Append(output, rc), end)
<1> DEFINE begin == Line("begin", i, 0)
           rc == Line("rc", i, ExitCode(i))
           end == Line("end", i, 0)
           t == TrivyOutput(i)
           A == <<begin>>
           B == <<rc>>
           C == <<end>>
<1>1. begin \in Lines /\ rc \in Lines /\ end \in Lines /\ t \in Seq(Lines)
  <2>1. ExitCode(i) \in Int /\ t \in Seq(Lines)
    BY FrameTyped
  <2> HIDE DEF t
  <2> QED
    BY <2>1 DEF Line, Lines, Kinds
<1>2. Framed(i) = IF scan[i] = "cut" THEN A \o t \o <<>> \o C ELSE A \o t \o B \o C
  BY DEF Framed
<1> HIDE DEF begin, rc, end, t
<1>3. A \in Seq(Lines) /\ B \in Seq(Lines) /\ C \in Seq(Lines)
  BY <1>1
<1>4. \A s \in Seq(Lines) : Append(s, begin) = s \o A /\ Append(s, rc) = s \o B
                             /\ Append(s, end) = s \o C
  BY <1>1, AppendIsConcat
<1>5. \A r, s \in Seq(Lines) : r \o s \in Seq(Lines)
  OBVIOUS
<1> HIDE DEF A, B, C
<1> DEFINE AT == A \o t
           ATB == AT \o B
           output == Append(log, begin) \o t
<1>6. AT \in Seq(Lines) /\ AT \o <<>> = AT /\ log \o AT \in Seq(Lines)
  <2>1. AT \in Seq(Lines)
    BY <1>1, <1>3, <1>5
  <2> HIDE DEF AT
  <2> QED
    BY <1>5, <2>1, ConcatEmptySeq
<1>7. output = log \o AT
  <2>1. log \in Seq(Lines) /\ A \in Seq(Lines) /\ t \in Seq(Lines)
    BY <1>1, <1>3
  <2>2. (log \o A) \o t = log \o (A \o t)
    BY ONLY <2>1, LinesAssociate, Zenon
  <2> QED
    BY <1>4, <2>2
<1> HIDE DEF AT
<1>8. ATB \in Seq(Lines) /\ (log \o AT) \o B = log \o ATB /\ log \o ATB \in Seq(Lines)
  <2>1. ATB \in Seq(Lines)
    BY <1>3, <1>5, <1>6
  <2>2. (log \o AT) \o B = log \o (AT \o B)
    <3>1. log \in Seq(Lines) /\ AT \in Seq(Lines) /\ B \in Seq(Lines)
      BY <1>3, <1>5, <1>6
    <3> QED
      BY ONLY <3>1, LinesAssociate, Zenon
  <2>3. \A s \in Seq(Lines) : log \o s \in Seq(Lines)
    BY <1>5
  <2> QED
    BY <2>1, <2>2, <2>3
<1> HIDE DEF ATB, output
<1>9. (log \o AT) \o C = log \o (AT \o C) /\ (log \o ATB) \o C = log \o (ATB \o C)
  <2>1. /\ log \in Seq(Lines) /\ AT \in Seq(Lines) /\ ATB \in Seq(Lines)
        /\ C \in Seq(Lines)
    BY <1>3, <1>5, <1>6, <1>8
  <2>2. (log \o AT) \o C = log \o (AT \o C)
    BY ONLY <2>1, LinesAssociate, Zenon
  <2>3. (log \o ATB) \o C = log \o (ATB \o C)
    BY ONLY <2>1, LinesAssociate, Zenon
  <2> QED
    BY <2>2, <2>3
<1>10. Append(output, end) = log \o (AT \o C)
  BY <1>4, <1>6, <1>7, <1>9
<1>11. Append(Append(output, rc), end) = log \o (ATB \o C)
  BY <1>4, <1>6, <1>7, <1>8, <1>9
<1>12. log \o Framed(i) = IF scan[i] = "cut" THEN Append(output, end)
                           ELSE Append(Append(output, rc), end)
  BY <1>2, <1>6, <1>10, <1>11 DEF AT, ATB
<1> QED
  BY <1>1, <1>6, <1>7, <1>12 DEF output, begin, rc, end, t

LEMMA FrameRead ==
    ASSUME NEW i \in Images, NoImage \notin Images, scan \in [Images -> Outcomes],
           NEW log \in Seq(Lines), Parsed(log).current = NoImage,
           Parsed(log).chunks[i] = <<>>, Parsed(log).rcs[i] = -1
    PROVE  LET after == Parsed(log \o Framed(i))
           IN  /\ after.current = NoImage
               /\ after.chunks = [Parsed(log).chunks EXCEPT ![i] = TrivyOutput(i)]
               /\ after.rcs = [Parsed(log).rcs EXCEPT ![i] = CodeSeen(i)]
<1> DEFINE begin == Line("begin", i, 0)
           rc == Line("rc", i, ExitCode(i))
           end == Line("end", i, 0)
           first == Parsed(log)
           second == Parsed(Append(log, begin))
           output == Append(log, begin) \o TrivyOutput(i)
           third == Parsed(output)
<1>1. /\ begin \in Lines /\ begin.kind = "begin" /\ begin.image = i
      /\ rc \in Lines /\ rc.kind = "rc" /\ rc.image = i /\ rc.rc = ExitCode(i)
      /\ end \in Lines /\ end.kind = "end" /\ end.image = i
  BY FrameTyped DEF Line, Lines, Kinds
<1>2. /\ TrivyOutput(i) \in Seq(Lines) /\ first \in Reads
      /\ Append(log, begin) \in Seq(Lines) /\ output \in Seq(Lines)
  <2>1. TrivyOutput(i) \in Seq(Lines) /\ first \in Reads
    BY <1>1, FrameTyped, ParsedGrows
  <2>2. Append(log, begin) \in Seq(Lines)
    BY <1>1
  <2> HIDE DEF begin
  <2> QED
    BY <2>1, <2>2
<1> HIDE DEF begin, rc, end
<1>3. /\ second \in Reads
      /\ second.current = i /\ second.chunks = first.chunks /\ second.rcs = first.rcs
  <2>1. second = [first EXCEPT !.current = i]
    BY <1>1, ParsedGrows DEF Parse
  <2>2. second \in Reads
    BY <1>1, <1>2, ParsedGrows
  <2> QED
    BY <1>2, <2>1, <2>2 DEF Reads
<1>4. /\ third \in Reads /\ third.current = i /\ third.rcs = first.rcs
      /\ third.chunks = [first.chunks EXCEPT ![i] = TrivyOutput(i)]
  <2>1. second.chunks[i] = <<>>
    BY <1>3
  <2>2. third \in Reads
    BY <1>1, <1>2, ParsedGrows
  <2> QED
    <3> HIDE DEF second
    <3>1. /\ Parsed(Append(log, begin)).current = i
          /\ Parsed(Append(log, begin)).chunks[i] = <<>>
      BY <1>3, <2>1 DEF second
    <3>2. /\ third.current = i /\ third.rcs = Parsed(Append(log, begin)).rcs
          /\ third.chunks = [Parsed(Append(log, begin)).chunks EXCEPT ![i] = TrivyOutput(i)]
      BY <1>2, <3>1, OutputRead
    <3> QED
      BY <1>3, <2>2, <3>2 DEF second
<1> HIDE DEF first, second, output, third
<1>5. CASE scan[i] = "cut"
  <2>1. log \o Framed(i) = Append(output, end)
    BY <1>5, FrameAppended DEF output, begin, end
  <2>2. Parsed(log \o Framed(i)) = [third EXCEPT !.current = NoImage]
    BY <1>1, <1>2, <1>4, <2>1, ParsedGrows DEF Parse, third
  <2>3. first.rcs = [first.rcs EXCEPT ![i] = -1]
    BY <1>2 DEF first, Reads
  <2> QED
    BY <1>4, <1>5, <2>2, <2>3 DEF CodeSeen, first, Reads
<1>6. CASE scan[i] # "cut"
  <2>1. log \o Framed(i) = Append(Append(output, rc), end) /\ Append(output, rc) \in Seq(Lines)
    <3>1. log \o Framed(i) = Append(Append(output, rc), end)
      BY <1>6, FrameAppended DEF output, begin, rc, end
    <3> QED
      BY <1>1, <1>2, <3>1
  <2> DEFINE fourth == Parsed(Append(output, rc))
  <2>2. fourth = [third EXCEPT !.rcs[i] = ExitCode(i)]
    BY <1>1, <1>2, ParsedGrows DEF Parse, third
  <2>3. /\ fourth \in Reads /\ fourth.current = i /\ fourth.chunks = third.chunks
        /\ fourth.rcs = [third.rcs EXCEPT ![i] = ExitCode(i)]
    <3>1. fourth \in Reads
      BY <1>1, <2>1, ParsedGrows
    <3> QED
      BY <1>4, <2>2, <3>1 DEF Reads
  <2>4. Parsed(log \o Framed(i)) = Parse(fourth, end)
    BY <1>1, <2>1, ParsedGrows
  <2> HIDE DEF fourth
  <2>5. Parsed(log \o Framed(i)) = [fourth EXCEPT !.current = NoImage]
    BY <1>1, <2>3, <2>4 DEF Parse
  <2> QED
    BY <1>4, <1>6, <2>3, <2>5 DEF CodeSeen, first, Reads
<1> QED
  BY <1>5, <1>6

\* The frames of the first images of a batch.
FramesOf(images, m) == FlattenSeq([n \in 1..m |-> Framed(images[n])])

LEMMA FramesGrow ==
    ASSUME NEW images \in Seq(Images), scan \in [Images -> Outcomes]
    PROVE  /\ FramesOf(images, 0) = <<>>
           /\ \A m \in 0..Len(images) : FramesOf(images, m) \in Seq(Lines)
           /\ \A m \in 1..Len(images) :
                 FramesOf(images, m) = FramesOf(images, m - 1) \o Framed(images[m])
<1> DEFINE Frames(m) == [n \in 1..m |-> Framed(images[n])]
<1>1. Len(images) \in Nat /\ \A n \in 1..Len(images) : Framed(images[n]) \in Seq(Lines)
  BY FrameTyped
<1>2. ASSUME NEW m \in 0..Len(images)
      PROVE  Frames(m) \in Seq(Seq(Lines)) /\ Len(Frames(m)) = m
  BY <1>1
<1>3. FramesOf(images, 0) = <<>>
  <2>1. Frames(0) = <<>> /\ Len(Frames(0)) = 0
    OBVIOUS
  <2> HIDE DEF Frames
  <2> QED
    BY <2>1 DEF FramesOf, FlattenSeq, Frames
<1>4. ASSUME NEW m \in 0..Len(images)
      PROVE  FramesOf(images, m) \in Seq(Lines)
  <2>1. <<>> \in Seq(Lines)
    OBVIOUS
  <2> HIDE DEF Frames
  <2>2. FlattenSeq(Frames(m)) \in Seq(Lines)
    BY <1>2, <2>1, FlattenGrows
  <2> QED
    BY <2>2 DEF FramesOf, Frames
<1>5. ASSUME NEW m \in 1..Len(images)
      PROVE  FramesOf(images, m) = FramesOf(images, m - 1) \o Framed(images[m])
  <2>1. m - 1 \in 0..Len(images) /\ m \in 0..Len(images) /\ Framed(images[m]) \in Seq(Lines)
    BY <1>1
  <2>2. Frames(m) = Append(Frames(m - 1), Framed(images[m]))
    <3> DEFINE s == Frames(m - 1)
               x == Framed(images[m])
    <3>1. s \in Seq(Seq(Lines)) /\ Len(s) = m - 1
      BY <1>2, <2>1
    <3>2. \A n \in 1..m - 1 : s[n] = Framed(images[n])
      OBVIOUS
    <3>3. /\ Frames(m) \in Seq(Seq(Lines)) /\ Len(Frames(m)) = m
          /\ \A n \in 1..m : Frames(m)[n] = Framed(images[n])
      BY <1>2, <2>1
    <3> HIDE DEF s, Frames
    <3>4. /\ Append(s, x) \in Seq(Seq(Lines)) /\ Len(Append(s, x)) = m
          /\ \A n \in 1..m : Append(s, x)[n] = Frames(m)[n]
      <4>1. /\ Append(s, x) \in Seq(Seq(Lines)) /\ Len(Append(s, x)) = Len(s) + 1
            /\ \A n \in 1..Len(s) : Append(s, x)[n] = s[n]
            /\ Append(s, x)[Len(s) + 1] = x
        BY <2>1, <3>1, AppendProperties
      <4>2. m \in 1..m /\ \A n \in 1..m : n # m => n \in 1..m - 1
        BY <2>1
      <4> QED
        BY <2>1, <3>1, <3>2, <3>3, <4>1, <4>2
    <3> QED
      BY <3>3, <3>4, SeqEqual DEF s
  <2> HIDE DEF Frames
  <2>3. FlattenSeq(Frames(m)) = FlattenSeq(Frames(m - 1)) \o Framed(images[m])
    BY <1>2, <2>1, <2>2, FlattenGrows
  <2> QED
    BY <2>3 DEF FramesOf, Frames
<1> QED
  BY <1>3, <1>4, <1>5

\* A line before the first marker is lost on the parser.
LEMMA StrayRead ==
    ASSUME NEW log \in Seq(Lines), Parsed(log).current = NoImage,
           NEW line \in Lines, line.kind \in {"noise", "report", "longReport"}
    PROVE  Append(log, line) \in Seq(Lines) /\ Parsed(Append(log, line)) = Parsed(log)
<1>1. Parsed(Append(log, line)) = Parse(Parsed(log), line)
  BY ParsedGrows
<1> QED
  BY <1>1 DEF Parse

\* What the log may begin with: a message of the download of the VEX report.
Beginnings == {<<>>, <<Noise>>}

LEMMA BeginningRead ==
    ASSUME NEW prefix \in Beginnings
    PROVE  prefix \in Seq(Lines) /\ Parsed(prefix) = Unread
<1>1. <<>> \in Seq(Lines) /\ Parsed(<<>>) = Unread
  <2>1. <<>> \in Seq(Lines) /\ Len(<<>>) = 0
    OBVIOUS
  <2>2. Reading(<<>>)[0] = Unread
    BY <2>1, ReadingDefined
  <2> QED
    BY <2>1, <2>2 DEF Parsed
<1>2. Noise \in Lines /\ Noise.kind = "noise" /\ Unread.current = NoImage
  BY DEF Noise, Line, Lines, Kinds, Unread
<1>3. Append(<<>>, Noise) \in Seq(Lines) /\ Parsed(Append(<<>>, Noise)) = Unread
  BY <1>1, <1>2, StrayRead
<1>4. Append(<<>>, Noise) = <<Noise>>
  OBVIOUS
<1> QED
  BY <1>1, <1>3, <1>4 DEF Beginnings

\* What the parser knows after the frames of the first m images.
Known(read, images, m) ==
    /\ read.current = NoImage
    /\ \A n \in 1..m : /\ read.chunks[images[n]] = TrivyOutput(images[n])
                       /\ read.rcs[images[n]] = CodeSeen(images[n])
    /\ \A n \in m + 1..Len(images) : read.chunks[images[n]] = <<>> /\ read.rcs[images[n]] = -1

LEMMA BatchRead ==
    ASSUME NoImage \notin Images, scan \in [Images -> Outcomes],
           NEW images \in Seq(Images), IsInjective(images), NEW prefix \in Beginnings
    PROVE  LET log == prefix \o FramesOf(images, Len(images))
           IN  log \in Seq(Lines) /\ Known(Parsed(log), images, Len(images))
<1> DEFINE Log(m) == prefix \o FramesOf(images, m)
           Right(m) == Known(Parsed(Log(m)), images, m)
           S == {m \in 0..Len(images) : ~Right(m)}
<1>1. /\ Len(images) \in Nat /\ \A n \in 1..Len(images) : images[n] \in Images
      /\ \A n, m \in 1..Len(images) : images[n] = images[m] => n = m
      /\ prefix \in Seq(Lines) /\ Parsed(prefix) = Unread
  BY BeginningRead DEF IsInjective
<1>2. ASSUME NEW m \in 0..Len(images)
      PROVE  Log(m) \in Seq(Lines)
  <2>1. FramesOf(images, m) \in Seq(Lines)
    BY FramesGrow
  <2> HIDE DEF FramesOf
  <2> QED
    BY <1>1, <2>1
<1>3. ASSUME NEW m \in S, \A b \in S : m <= b
      PROVE  FALSE
  <2>1. m \in 0..Len(images) /\ ~Right(m)
    OBVIOUS
  <2>2. CASE m = 0
    <3>1. Log(0) = prefix
      BY <1>1, FramesGrow, ConcatEmptySeq
    <3>2. Known(Unread, images, 0)
      BY <1>1 DEF Known, Unread
    <3> HIDE DEF Log
    <3> QED
      BY <1>1, <2>1, <2>2, <3>1, <3>2
  <2>3. CASE m # 0
    <3>1. m \in 1..Len(images) /\ m - 1 \in 0..Len(images) /\ ~(m <= m - 1)
      BY <2>1, <2>3
    <3>2. Right(m - 1)
      <4>1. m - 1 \notin S
        <5> HIDE DEF S
        <5> QED
          BY <1>3, <3>1
      <4> QED
        BY <3>1, <4>1
    <3> DEFINE log == Log(m - 1)
               read == Parsed(log)
               i == images[m]
               after == Parsed(log \o Framed(i))
    <3>3. log \in Seq(Lines) /\ i \in Images /\ read \in Reads
      <4>1. log \in Seq(Lines) /\ i \in Images /\ Noise \in Lines
        BY <1>1, <1>2, <3>1, FrameTyped
      <4> HIDE DEF log
      <4> QED
        BY <4>1, ParsedGrows
    <3>4. Log(m) = log \o Framed(i)
      <4>1. FramesOf(images, m) = FramesOf(images, m - 1) \o Framed(i)
        BY <3>1, FramesGrow
      <4>2. FramesOf(images, m - 1) \in Seq(Lines) /\ Framed(i) \in Seq(Lines)
            /\ prefix \in Seq(Lines)
        BY <1>1, <3>1, <3>3, FramesGrow, FrameTyped
      <4>3. (prefix \o FramesOf(images, m - 1)) \o Framed(i)
            = prefix \o (FramesOf(images, m - 1) \o Framed(i))
        BY ONLY <4>2, LinesAssociate, Zenon
      <4> QED
        BY <4>1, <4>3
    <3>5. /\ read.current = NoImage /\ read.chunks[i] = <<>> /\ read.rcs[i] = -1
          /\ \A n \in 1..m - 1 : /\ read.chunks[images[n]] = TrivyOutput(images[n])
                                 /\ read.rcs[images[n]] = CodeSeen(images[n])
          /\ \A n \in m + 1..Len(images) : read.chunks[images[n]] = <<>> /\ read.rcs[images[n]] = -1
      <4>1. m \in (m - 1) + 1..Len(images)
            /\ \A n \in m + 1..Len(images) : n \in (m - 1) + 1..Len(images)
        BY <3>1
      <4> QED
        BY <3>2, <4>1 DEF Known
    <3> HIDE DEF log, Log
    <3>6. /\ after.current = NoImage
          /\ after.chunks = [read.chunks EXCEPT ![i] = TrivyOutput(i)]
          /\ after.rcs = [read.rcs EXCEPT ![i] = CodeSeen(i)]
      <4> HIDE DEF i
      <4> QED
        BY <3>3, <3>5, FrameRead
    <3> HIDE DEF read, after
    <3>7. ASSUME NEW n \in 1..Len(images)
          PROVE  /\ after.chunks[images[n]] = IF n = m THEN TrivyOutput(i) ELSE read.chunks[images[n]]
                 /\ after.rcs[images[n]] = IF n = m THEN CodeSeen(i) ELSE read.rcs[images[n]]
      <4>1. images[n] \in Images /\ (images[n] = i <=> n = m)
        BY <1>1, <3>1
      <4> HIDE DEF i
      <4> QED
        BY <3>3, <3>6, <4>1 DEF Reads
    <3>8. Known(after, images, m)
      <4>1. \A n \in 1..m : n \in 1..Len(images) /\ (n # m => n \in 1..m - 1)
        BY <3>1
      <4>2. \A n \in m + 1..Len(images) : n \in 1..Len(images) /\ n # m
        BY <3>1
      <4> QED
        BY <3>5, <3>6, <3>7, <4>1, <4>2 DEF Known
    <3> QED
      BY <2>1, <3>4, <3>8 DEF after
  <2> QED
    BY <2>2, <2>3
<1>4. S = {}
  <2>1. S \in SUBSET Nat
    OBVIOUS
  <2> HIDE DEF S
  <2> QED
    BY <1>3, <2>1, SmallestNumber
<1>5. Right(Len(images)) /\ Log(Len(images)) \in Seq(Lines)
  BY <1>1, <1>2, <1>4
<1> QED
  BY <1>5

---------------------------------------------------------------------------
(* What the command makes of a log that is complete.                       *)

\* The three ways in which the script goes (PodStarts).
Starts == {Script, [Script EXCEPT !.log = <<Noise>> \o @], [log |-> <<Noise>>, exit |-> 1]}

\* What is asked for, and what that means.
RequestOK ==
    /\ \E r \in Requests : cmd.images = r.images /\ cmd.batch = r.batch
    /\ cmd.images \in Seq(Images) /\ cmd.images # <<>> /\ IsInjective(cmd.images)
    /\ cmd.batch \in BOOLEAN /\ (~cmd.batch => Len(cmd.images) = 1)

TrueReports == {<<i, i>> : i \in {j \in Images : ExitCode(j) = 0}}

\* Only what trivy reported of an image is reported, and all of it if the answer
\* is one for several images.
AnswerOK(out, reports) ==
    /\ reports \subseteq TrueReports
    /\ out = "ok" /\ cmd.batch /\ Len(cmd.images) # 1 =>
          \A i \in ToSet(cmd.images) : scan[i] = "clean" => <<i, i>> \in reports

LEMMA ReportNames ==
    ASSUME NEW i \in Images, scan \in [Images -> Outcomes], IsReport(TrivyOutput(i))
    PROVE  TrivyOutput(i)[1].image = i
<1>1. CASE scan[i] \in {"clean", "late"}
  BY <1>1 DEF TrivyOutput, Line
<1>2. CASE scan[i] = "long"
  BY <1>2 DEF TrivyOutput, Line
<1>3. CASE scan[i] = "noisy"
  <2>1. Len(TrivyOutput(i)) = 2
    BY <1>3 DEF TrivyOutput
  <2> QED
    BY <2>1 DEF IsReport
<1>4. CASE scan[i] \in {"failed", "cut"}
  <2>1. TrivyOutput(i) = <<Noise>>
    BY <1>4 DEF TrivyOutput
  <2> QED
    BY <2>1 DEF IsReport, Noise, Line
<1> QED
  BY <1>1, <1>2, <1>3, <1>4 DEF Outcomes

\* One image is not framed: nothing the parser could know of it.
LEMMA OutputLost ==
    ASSUME NoImage \notin Images, scan \in [Images -> Outcomes], NEW i \in Images,
           NEW prefix \in Beginnings
    PROVE  Parsed(prefix \o TrivyOutput(i)) = Unread
<1>1. prefix \in Seq(Lines) /\ Parsed(prefix) = Unread /\ Unread.current = NoImage
  BY BeginningRead DEF Unread
<1>2. \A kind \in {"report", "longReport"} :
         Line(kind, i, 0) \in Lines /\ Line(kind, i, 0).kind = kind
  BY DEF Line, Lines, Kinds
<1>3. Noise \in Lines /\ Noise.kind = "noise"
  BY FrameTyped DEF Noise, Line
<1>4. ASSUME NEW line \in Lines, line.kind \in {"noise", "report", "longReport"}
      PROVE  Parsed(prefix \o <<line>>) = Unread
  <2>1. prefix \o <<line>> = Append(prefix, line)
    BY <1>1, AppendIsConcat
  <2> QED
    BY <1>1, <1>4, <2>1, StrayRead
<1>5. ASSUME NEW line \in Lines, line.kind = "report"
      PROVE  Parsed(prefix \o <<Noise, line>>) = Unread
  <2>1. prefix \o <<Noise, line>> = Append(Append(prefix, Noise), line)
    BY <1>1, <1>3, TwoAppended
  <2>2. Append(prefix, Noise) \in Seq(Lines) /\ Parsed(Append(prefix, Noise)) = Unread
    BY <1>1, <1>3, StrayRead
  <2> QED
    BY <1>1, <1>5, <2>1, <2>2, StrayRead
<1>6. CASE scan[i] \in {"clean", "late"}
  BY <1>2, <1>4, <1>6 DEF TrivyOutput
<1>7. CASE scan[i] = "long"
  BY <1>2, <1>4, <1>7 DEF TrivyOutput
<1>8. CASE scan[i] = "noisy"
  BY <1>2, <1>5, <1>8 DEF TrivyOutput
<1>9. CASE scan[i] \in {"failed", "cut"}
  BY <1>3, <1>4, <1>9 DEF TrivyOutput
<1> QED
  BY <1>6, <1>7, <1>8, <1>9 DEF Outcomes

LEMMA ScriptTyped ==
    ASSUME RequestOK, scan \in [Images -> Outcomes], NEW start \in Starts
    PROVE  /\ Script.log \in Seq(Lines)
           /\ start.log \in Seq(Lines) /\ start.exit \in {0, 1}
           /\ start.exit = 0 => Script.exit = 0 /\ \E prefix \in Beginnings : start.log = prefix \o Script.log
<1>1. Len(cmd.images) \in Nat /\ Len(cmd.images) # 0 /\ cmd.images[1] \in Images
  BY DEF RequestOK
<1>2. Script.log \in Seq(Lines) /\ Script.exit \in {0, 1}
  <2>1. CASE Len(cmd.images) = 1
    BY <1>1, <2>1, FrameTyped DEF Script
  <2>2. CASE Len(cmd.images) # 1
    <3>1. FramesOf(cmd.images, Len(cmd.images)) \in Seq(Lines)
      BY <1>1, FramesGrow DEF RequestOK
    <3>2. Script.log = FramesOf(cmd.images, Len(cmd.images)) /\ Script.exit = 0
      <4>1. DOMAIN cmd.images = 1..Len(cmd.images)
        BY DEF RequestOK
      <4> QED
        BY <2>2, <4>1 DEF Script, FramesOf
    <3> QED
      BY <3>1, <3>2
  <2> QED
    BY <2>1, <2>2
<1>3. /\ [Script EXCEPT !.log = <<Noise>> \o @].log = <<Noise>> \o Script.log
      /\ [Script EXCEPT !.log = <<Noise>> \o @].exit = Script.exit
  BY DEF Script
<1>4. <<Noise>> \in Seq(Lines) /\ <<>> \o Script.log = Script.log
      /\ <<Noise>> \o Script.log \in Seq(Lines)
  <2>1. <<Noise>> \in Seq(Lines)
    BY <1>1, FrameTyped
  <2> HIDE DEF Script, Noise
  <2> QED
    BY <1>2, <2>1, ConcatEmptySeq
<1>5. CASE start = Script
  BY <1>2, <1>4, <1>5 DEF Beginnings
<1>6. CASE start = [Script EXCEPT !.log = <<Noise>> \o @]
  BY <1>2, <1>3, <1>4, <1>6 DEF Beginnings
<1>7. CASE start = [log |-> <<Noise>>, exit |-> 1]
  BY <1>2, <1>4, <1>7
<1> QED
  BY <1>5, <1>6, <1>7 DEF Starts

LEMMA BatchReportsTrue ==
    ASSUME NoImage \notin Images, RequestOK, scan \in [Images -> Outcomes],
           Len(cmd.images) # 1, NEW prefix \in Beginnings
    PROVE  LET reports == BatchReports(prefix \o Script.log)
           IN  /\ reports \subseteq TrueReports
               /\ \A i \in ToSet(cmd.images) : scan[i] = "clean" => <<i, i>> \in reports
<1> DEFINE images == cmd.images
           log == prefix \o Script.log
           read == Parsed(log)
<1>1. Len(images) \in Nat /\ \A n \in 1..Len(images) : images[n] \in Images
  BY DEF RequestOK
<1>2. log = prefix \o FramesOf(images, Len(images))
  <2>1. DOMAIN images = 1..Len(images)
    BY DEF RequestOK
  <2> QED
    BY <2>1 DEF Script, FramesOf
<1>3. Known(read, images, Len(images))
  <2> HIDE DEF log
  <2>1. images \in Seq(Images) /\ IsInjective(images)
    BY DEF RequestOK
  <2> HIDE DEF images
  <2> QED
    BY <1>2, <2>1, BatchRead
<1>4. ASSUME NEW i \in ToSet(images)
      PROVE  /\ i \in Images /\ read.chunks[i] = TrivyOutput(i) /\ read.rcs[i] = CodeSeen(i)
  <2>1. PICK n \in 1..Len(images) : i = images[n]
    BY DEF ToSet, RequestOK
  <2> HIDE DEF read, images
  <2> QED
    BY <1>1, <1>3, <2>1 DEF Known
<1>5. BatchReports(log) = {<<i, read.chunks[i][1].image>> :
                              i \in {j \in ToSet(images) : read.rcs[j] = 0 /\ IsReport(read.chunks[j])}}
  BY DEF BatchReports
<1> HIDE DEF read, log, images
<1>6. BatchReports(log) \subseteq TrueReports
  <2>1. ASSUME NEW i \in ToSet(images), read.rcs[i] = 0, IsReport(read.chunks[i])
        PROVE  <<i, read.chunks[i][1].image>> \in TrueReports
    <3>1. i \in Images /\ IsReport(TrivyOutput(i)) /\ CodeSeen(i) = 0
      BY <1>4, <2>1
    <3>2. TrivyOutput(i)[1].image = i
      BY <3>1, ReportNames
    <3>3. ExitCode(i) = 0
      BY <3>1 DEF CodeSeen
    <3>4. <<i, read.chunks[i][1].image>> = <<i, i>>
      BY <1>4, <3>2
    <3> QED
      BY <3>1, <3>3, <3>4 DEF TrueReports
  <2> QED
    BY <1>5, <2>1
<1>7. ASSUME NEW i \in ToSet(images), scan[i] = "clean"
      PROVE  <<i, i>> \in BatchReports(log)
  <2>1. TrivyOutput(i) = <<Line("report", i, 0)>> /\ CodeSeen(i) = 0
    BY <1>7 DEF TrivyOutput, CodeSeen, ExitCode
  <2>2. IsReport(TrivyOutput(i)) /\ TrivyOutput(i)[1].image = i
    BY <2>1 DEF IsReport, Line
  <2>3. /\ read.rcs[i] = 0 /\ IsReport(read.chunks[i]) /\ read.chunks[i][1].image = i
    BY <1>4, <2>1, <2>2
  <2> QED
    BY <1>5, <2>3
<1> QED
  BY <1>6, <1>7 DEF log, images

LEMMA AnswerRight ==
    ASSUME NoImage \notin Images, RequestOK, scan \in [Images -> Outcomes],
           NEW start \in Starts, start.exit = 0
    PROVE  /\ AnswerOK(Answer(start.log).out, Answer(start.log).reports)
           /\ Answer(start.log).out \in {"ok", "error"}
<1> DEFINE log == start.log
           i == cmd.images[1]
<1>1. PICK prefix \in Beginnings : log = prefix \o Script.log
  BY ScriptTyped
<1>2. Script.exit = 0 /\ log \in Seq(Lines) /\ i \in Images
  <2>1. i \in Images
    BY DEF RequestOK
  <2> QED
    BY <2>1, ScriptTyped
<1> HIDE DEF log, i
<1>3. AnswerOK(NoAnswer.out, NoAnswer.reports) /\ NoAnswer.out = "error"
  BY DEF AnswerOK, NoAnswer
<1>4. CASE cmd.batch /\ Len(cmd.images) = 1
  <2>1. log = prefix \o TrivyOutput(i)
    BY <1>1, <1>4 DEF Script, i
  <2>2. Parsed(log) = Unread
    BY <1>2, <2>1, OutputLost
  <2>3. BatchReports(log) = {}
    <3>1. \A j \in ToSet(cmd.images) : Parsed(log).rcs[j] = -1
      BY <2>2 DEF Unread, ToSet, RequestOK
    <3> QED
      BY <3>1 DEF BatchReports
  <2> QED
    BY <1>3, <1>4, <2>3 DEF Answer, AnswerOK, log
<1>5. CASE cmd.batch /\ Len(cmd.images) # 1
  <2>1. AnswerOK("ok", BatchReports(log))
    BY <1>1, <1>5, BatchReportsTrue DEF AnswerOK
  <2>2. Answer(log) = NoAnswer \/ Answer(log) = [out |-> "ok", reports |-> BatchReports(log)]
    BY <1>5 DEF Answer
  <2> QED
    BY <1>3, <2>1, <2>2 DEF log
<1>6. CASE ~cmd.batch /\ IsReport(log)
  <2>1. Len(cmd.images) = 1 /\ Answer(log) = [out |-> "ok", reports |-> {<<i, log[1].image>>}]
    BY <1>6 DEF Answer, RequestOK, i
  <2>2. log = prefix \o TrivyOutput(i) /\ ExitCode(i) = 0
    BY <1>1, <1>2, <2>1 DEF Script, i
  <2>3. prefix = <<>>
    <3>1. TrivyOutput(i) \in Seq(Lines) /\ Len(TrivyOutput(i)) # 0
      <4>1. Len(TrivyOutput(i)) # 0
        BY <1>2 DEF TrivyOutput, Outcomes
      <4> QED
        BY <1>2, <4>1, FrameTyped
    <3>2. Len(log) = Len(prefix) + Len(TrivyOutput(i)) /\ Len(prefix) \in Nat
      BY <2>2, <3>1, BeginningRead
    <3>3. Len(prefix) = 0
      <4> DEFINE written == Len(TrivyOutput(i))
                 before == Len(prefix)
      <4>1. Len(log) = before + written /\ before \in Nat /\ Len(log) = 1
        BY <1>6, <3>2 DEF IsReport
      <4>2. written \in Nat /\ written # 0
        BY <3>1
      <4> HIDE DEF written, before
      <4>3. before = 0
        <5>1. 1 = before + written
          BY ONLY <4>1
        <5> QED
          BY ONLY <4>1, <4>2, <5>1
      <4> QED
        BY <4>3 DEF before
    <3> QED
      BY <3>3, BeginningRead
  <2>4. log = TrivyOutput(i)
    BY <1>2, <2>2, <2>3, FrameTyped, ConcatEmptySeq
  <2>5. <<i, log[1].image>> = <<i, i>>
    BY <1>2, <1>6, <2>4, ReportNames
  <2>6. <<i, log[1].image>> \in TrueReports
    BY <1>2, <2>2, <2>5 DEF TrueReports
  <2> QED
    BY <1>6, <2>1, <2>6 DEF AnswerOK, log
<1>7. CASE ~cmd.batch /\ ~IsReport(log)
  <2>1. Answer(log) = NoAnswer
    BY <1>7 DEF Answer
  <2> QED
    BY <1>3, <2>1 DEF log
<1> QED
  BY <1>4, <1>5, <1>6, <1>7 DEF RequestOK

---------------------------------------------------------------------------
(* The scan in the cluster.                                                *)

ScanPCs == {"namespace", "createNamespace", "create", "poll", "logs", "delete", "done", "killed"}

Asked == [pc : ScanPCs, images : Seq(Images), batch : BOOLEAN,
          why : {"", "succeeded", "failed", "timeout"}, out : {"", "error", "ok"},
          reports : SUBSET (Images \X Images), failed : ScanPCs \cup {""}]

JobStates == [exists : BOOLEAN, succeeded : BOOLEAN, failed : BOOLEAN]
Pods == [phase : {"none", "Pending", "Running", "Succeeded", "Failed"},
         log : Seq(Lines), todo : Seq(Lines), exit : Int]

ScanTyped ==
    /\ scan \in [Images -> Outcomes]
    /\ cmd \in Asked /\ RequestOK
    /\ job \in JobStates /\ pod \in Pods

\* The log is what the script has written so far, and that of a pod that has
\* succeeded is all of a script that has.
LogFollows ==
    /\ pod.phase \in {"Running", "Succeeded", "Failed"} =>
          \E start \in Starts : pod.log \o pod.todo = start.log /\ pod.exit = start.exit
    /\ pod.phase = "Succeeded" => pod.todo = <<>> /\ pod.exit = 0
    /\ pod.phase = "Pending" => pod.log = <<>>

\* Who takes the job for a success still meets the pod that was one, or none.
SuccessIsLast ==
    /\ job.succeeded => pod.phase \in {"Succeeded", "none"}
    /\ cmd.pc = "logs" /\ cmd.why = "succeeded" => pod.phase \in {"Succeeded", "none"}

JobComesAndGoes ==
    /\ cmd.pc \in {"namespace", "createNamespace", "create"} => ~job.exists
    /\ JobIsDeleted

ScanInv ==
    /\ ScanTyped /\ AnswerOK(cmd.out, cmd.reports)
    /\ LogFollows /\ SuccessIsLast /\ JobComesAndGoes

LEMMA NoPodTyped == NoPod \in Pods /\ [NoPod EXCEPT !.phase = "Pending"] \in Pods
<1>1. <<>> \in Seq(Lines)
  OBVIOUS
<1>2. NoPod \in Pods
  BY <1>1 DEF NoPod, Pods
<1>3. [NoPod EXCEPT !.phase = "Pending"] \in Pods
  BY <1>2 DEF Pods
<1> QED
  BY <1>2, <1>3

\* A line that is written moves from what is to come to what is there.
LEMMA LineWritten ==
    ASSUME NEW D, NEW log \in Seq(D), NEW todo \in Seq(D), todo # <<>>
    PROVE  /\ Append(log, Head(todo)) \in Seq(D) /\ Tail(todo) \in Seq(D)
           /\ Append(log, Head(todo)) \o Tail(todo) = log \o todo
<1>1. Head(todo) \in D /\ Tail(todo) \in Seq(D)
  OBVIOUS
<1>2. Append(log, Head(todo)) \in Seq(D)
  BY <1>1
<1>3. Append(log, Head(todo)) \o Tail(todo) = log \o todo
  <2>1. /\ Append(log, Head(todo)) \o Tail(todo) \in Seq(D) /\ log \o todo \in Seq(D)
        /\ Len(Append(log, Head(todo)) \o Tail(todo)) = Len(log \o todo)
    BY <1>1, <1>2
  <2>2. ASSUME NEW n \in 1..Len(log \o todo)
        PROVE  (Append(log, Head(todo)) \o Tail(todo))[n] = (log \o todo)[n]
    BY <1>1, <1>2
  <2> QED
    BY <2>1, <2>2, SeqEqual
<1> QED
  BY <1>1, <1>2, <1>3

LEMMA JobInitInv == Init => ScanInv
<1> SUFFICES ASSUME Init
             PROVE  ScanInv
  OBVIOUS
<1>1. PICK r \in Requests :
         cmd = [pc |-> "namespace", images |-> r.images, batch |-> r.batch,
                why |-> "", out |-> "", reports |-> {}, failed |-> ""]
  BY DEF Init
<1>2. /\ cmd.pc = "namespace" /\ cmd.out = "" /\ cmd.reports = {}
      /\ cmd.images = r.images /\ cmd.batch = r.batch
  BY <1>1
<1>3. RequestOK
  BY <1>2, ScanAssumption DEF RequestOK
<1>4. cmd \in Asked
  BY <1>1, ScanAssumption DEF Asked, ScanPCs
<1>5. job \in JobStates /\ ~job.exists /\ ~job.succeeded
  BY DEF Init, NoJob, JobStates
<1>6. pod \in Pods /\ pod.phase = "none"
  <2>1. pod = NoPod
    BY DEF Init
  <2> QED
    BY <2>1, NoPodTyped DEF NoPod
<1>7. ScanTyped
  BY <1>3, <1>4, <1>5, <1>6 DEF ScanTyped, Init
<1> QED
  BY <1>2, <1>5, <1>6, <1>7
     DEF ScanInv, AnswerOK, LogFollows, SuccessIsLast, JobComesAndGoes, JobIsDeleted

\* What is asked for stays, and with it what the script writes.
SameRequest ==
    /\ scan' = scan /\ cmd' \in Asked
    /\ cmd'.images = cmd.images /\ cmd'.batch = cmd.batch

LEMMA RequestKept ==
    ASSUME RequestOK, SameRequest
    PROVE  RequestOK' /\ Starts' = Starts /\ TrueReports' = TrueReports
<1> USE DEF SameRequest
<1>1. RequestOK'
  BY DEF RequestOK
<1>2. \A i : /\ (TrivyOutput(i))' = TrivyOutput(i) /\ (ExitCode(i))' = ExitCode(i)
             /\ (Framed(i))' = Framed(i)
  BY DEF TrivyOutput, ExitCode, Framed
<1>3. Script' = Script
  BY <1>2 DEF Script
<1> QED
  BY <1>1, <1>2, <1>3 DEF Starts, TrueReports

LEMMA AnswerKept ==
    ASSUME RequestOK, SameRequest, AnswerOK(cmd.out, cmd.reports),
           cmd'.reports = cmd.reports, cmd'.out = cmd.out \/ cmd'.out = "error"
    PROVE  AnswerOK(cmd.out, cmd.reports)'
<1>1. TrueReports' = TrueReports
  BY RequestKept
<1> QED
  BY <1>1 DEF AnswerOK, SameRequest

LEMMA AnswerSettled ==
    ASSUME RequestOK, SameRequest, NEW out, NEW reports, AnswerOK(out, reports),
           cmd'.reports = reports, cmd'.out = out
    PROVE  AnswerOK(cmd.out, cmd.reports)'
<1>1. TrueReports' = TrueReports
  BY RequestKept
<1> QED
  BY <1>1 DEF AnswerOK, SameRequest

\* A step of the command that leaves the pod as it is.
LEMMA CommandStepInv ==
    ASSUME ScanInv, SameRequest, pod' = pod,
           job' \in JobStates,
           AnswerOK(cmd.out, cmd.reports)', SuccessIsLast', JobComesAndGoes'
    PROVE  ScanInv'
<1>1. ScanTyped'
  BY RequestKept DEF ScanInv, ScanTyped, SameRequest
<1>2. LogFollows'
  BY RequestKept DEF ScanInv, ScanTyped, LogFollows
<1> QED
  BY <1>1, <1>2 DEF ScanInv

\* A step that begins a pod, or ends it.
LEMMA PodStepInv ==
    ASSUME ScanInv, SameRequest, pod' = NoPod \/ pod' = [NoPod EXCEPT !.phase = "Pending"],
           job' \in JobStates,
           AnswerOK(cmd.out, cmd.reports)', SuccessIsLast', JobComesAndGoes'
    PROVE  ScanInv'
<1>1. pod' \in Pods /\ pod'.phase \in {"none", "Pending"} /\ pod'.log = <<>>
  <2>1. pod' \in Pods
    BY NoPodTyped
  <2> QED
    BY <2>1 DEF NoPod
<1>2. ScanTyped'
  BY <1>1, RequestKept DEF ScanInv, ScanTyped, SameRequest
<1>3. LogFollows'
  BY <1>1 DEF LogFollows
<1> QED
  BY <1>2, <1>3 DEF ScanInv

\* A step of the cluster that leaves the command alone.
LEMMA ClusterStepInv ==
    ASSUME ScanInv, UNCHANGED <<scan, cmd>>,
           job' \in JobStates,
           pod' \in Pods,
           job'.exists => job.exists, LogFollows', SuccessIsLast'
    PROVE  ScanInv'
<1>1. SameRequest /\ RequestOK
  BY DEF ScanInv, ScanTyped, SameRequest
<1>2. ScanTyped'
  BY <1>1, RequestKept DEF ScanInv, ScanTyped
<1>3. AnswerOK(cmd.out, cmd.reports)'
  BY <1>1, AnswerKept DEF ScanInv
<1>4. JobComesAndGoes'
  BY DEF ScanInv, JobComesAndGoes, JobIsDeleted
<1> QED
  BY <1>2, <1>3, <1>4 DEF ScanInv

LEMMA JobStepInv == ScanInv /\ [Next]_vars => ScanInv'
<1> SUFFICES ASSUME ScanInv, [Next]_vars
             PROVE  ScanInv'
  OBVIOUS
<1>1. /\ RequestOK /\ scan \in [Images -> Outcomes] /\ cmd \in Asked
      /\ job \in JobStates /\ pod \in Pods /\ AnswerOK(cmd.out, cmd.reports)
      /\ LogFollows /\ SuccessIsLast /\ JobComesAndGoes /\ NoImage \notin Images
  BY ScanAssumption DEF ScanInv, ScanTyped
<1>2. AnswerOK(NoAnswer.out, NoAnswer.reports) /\ NoAnswer.out = "error" /\ NoAnswer.reports = {}
  BY DEF AnswerOK, NoAnswer
<1> USE DEF ScanPCs
\* The command goes on without an answer.
<1>3. ASSUME NEW pc \in ScanPCs, Goto(pc), UNCHANGED scan
      PROVE  /\ SameRequest /\ AnswerOK(cmd.out, cmd.reports)'
             /\ cmd'.pc = pc /\ cmd'.failed = cmd.failed
  <2>1. /\ SameRequest /\ cmd'.reports = cmd.reports /\ cmd'.out = cmd.out
        /\ cmd'.pc = pc /\ cmd'.failed = cmd.failed
    BY <1>1, <1>3 DEF Goto, SameRequest, Asked
  <2> QED
    BY <1>1, <2>1, AnswerKept
<1>4. ASSUME NEW why \in {"succeeded", "failed", "timeout"}, ReadLogsFor(why), UNCHANGED scan
      PROVE  /\ SameRequest /\ AnswerOK(cmd.out, cmd.reports)'
             /\ cmd'.pc = "logs" /\ cmd'.why = why
  <2>1. /\ SameRequest /\ cmd'.reports = cmd.reports /\ cmd'.out = cmd.out
        /\ cmd'.pc = "logs" /\ cmd'.why = why
    BY <1>1, <1>4 DEF ReadLogsFor, SameRequest, Asked
  <2> QED
    BY <1>1, <2>1, AnswerKept
\* It has its answer.
<1>5. ASSUME NEW pc \in ScanPCs, NEW answer, Settle(pc, answer), UNCHANGED scan,
             AnswerOK(answer.out, answer.reports), answer.out \in {"ok", "error"}
      PROVE  /\ SameRequest /\ AnswerOK(cmd.out, cmd.reports)'
             /\ cmd'.pc = pc /\ cmd'.failed = cmd.failed
  <2>1. answer.reports \in SUBSET (Images \X Images)
    BY <1>5 DEF AnswerOK, TrueReports
  <2>2. /\ SameRequest /\ cmd'.reports = answer.reports /\ cmd'.out = answer.out
        /\ cmd'.pc = pc /\ cmd'.failed = cmd.failed
    BY <1>1, <1>5, <2>1 DEF Settle, SameRequest, Asked
  <2> QED
    BY <1>1, <1>5, <2>2, AnswerSettled
\* A call fails.
<1>6. ASSUME Fails, UNCHANGED scan
      PROVE  /\ SameRequest /\ AnswerOK(cmd.out, cmd.reports)'
             /\ cmd'.pc = IF cmd.pc \in {"poll", "logs"} THEN "delete" ELSE "done"
             /\ cmd'.failed = cmd.pc
  <2>1. /\ SameRequest /\ cmd'.reports = cmd.reports
        /\ cmd'.out = cmd.out \/ cmd'.out = "error"
        /\ cmd'.pc = IF cmd.pc \in {"poll", "logs"} THEN "delete" ELSE "done"
        /\ cmd'.failed = cmd.pc
    BY <1>1, <1>6, ZenonT(40) DEF Fails, SameRequest, Asked
  <2> QED
    BY <1>1, <2>1, AnswerKept
\* A new job, and none.
<1>7. [NoJob EXCEPT !.exists = TRUE] \in JobStates /\ NoJob \in JobStates
      /\ ~NoJob.exists /\ ~NoJob.succeeded /\ ~[NoJob EXCEPT !.exists = TRUE].succeeded
  BY DEF NoJob, JobStates
<1>8. CASE EnsureNamespace
  <2>1. UNCHANGED <<scan, job, pod>> /\ cmd.pc = "namespace" /\ ~job.exists
    BY <1>1, <1>8 DEF EnsureNamespace, JobComesAndGoes
  <2>2. SameRequest /\ AnswerOK(cmd.out, cmd.reports)' /\ cmd'.pc # "logs"
    BY <1>2, <1>3, <1>5, <1>8, <2>1 DEF EnsureNamespace
  <2> QED
    BY <1>1, <2>1, <2>2, CommandStepInv DEF SuccessIsLast, JobComesAndGoes, JobIsDeleted
<1>9. CASE CreateNamespace
  <2>1. UNCHANGED <<scan, job, pod>> /\ ~job.exists
    BY <1>1, <1>9 DEF CreateNamespace, JobComesAndGoes
  <2>2. SameRequest /\ AnswerOK(cmd.out, cmd.reports)' /\ cmd'.pc # "logs"
    BY <1>3, <1>9, <2>1 DEF CreateNamespace
  <2> QED
    BY <1>1, <2>1, <2>2, CommandStepInv DEF SuccessIsLast, JobComesAndGoes, JobIsDeleted
<1>10. CASE CreateScanJob
  <2>1. UNCHANGED scan /\ ~job.exists
    BY <1>1, <1>10 DEF CreateScanJob, JobComesAndGoes
  <2>2. CASE namespace
    <3>1. JobCreated /\ Goto("poll")
      BY <1>10, <2>2 DEF CreateScanJob
    <3>2. SameRequest /\ AnswerOK(cmd.out, cmd.reports)' /\ cmd'.pc = "poll"
      BY <1>3, <2>1, <3>1
    <3> QED
      BY <1>7, <3>1, <3>2, PodStepInv
         DEF JobCreated, SuccessIsLast, JobComesAndGoes, JobIsDeleted
  <2>3. CASE ~namespace
    <3>1. Settle("done", NoAnswer) /\ UNCHANGED <<job, pod>>
      BY <1>10, <2>3 DEF CreateScanJob
    <3>2. SameRequest /\ AnswerOK(cmd.out, cmd.reports)' /\ cmd'.pc = "done"
      BY <1>2, <1>5, <2>1, <3>1
    <3> QED
      BY <1>1, <2>1, <3>1, <3>2, CommandStepInv DEF SuccessIsLast, JobComesAndGoes, JobIsDeleted
  <2> QED
    BY <2>2, <2>3
<1>11. CASE Poll
  <2>1. UNCHANGED <<scan, job, pod>>
    BY <1>11 DEF Poll
  <2>2. /\ SameRequest /\ AnswerOK(cmd.out, cmd.reports)' /\ cmd'.pc \in {"logs", "delete"}
        /\ cmd'.pc = "logs" /\ cmd'.why = "succeeded" => job.succeeded
    BY <1>2, <1>4, <1>5, <1>11, <2>1 DEF Poll
  <2> QED
    BY <1>1, <2>1, <2>2, CommandStepInv DEF SuccessIsLast, JobComesAndGoes, JobIsDeleted
<1>12. CASE ReadLogs
  <2>1. UNCHANGED <<scan, job, pod>> /\ cmd.pc = "logs"
    BY <1>12 DEF ReadLogs
  <2>2. PICK answer : Settle("delete", answer) /\ AnswerOK(answer.out, answer.reports)
                      /\ answer.out \in {"ok", "error"}
    <3>1. CASE cmd.why = "succeeded"
      <4>1. pod.phase = "Succeeded" /\ pod.todo = <<>> /\ pod.exit = 0
        BY <1>1, <1>12, <3>1 DEF ReadLogs, SuccessIsLast, LogFollows
      <4>2. PICK start \in Starts : pod.log \o pod.todo = start.log /\ pod.exit = start.exit
        BY <1>1, <4>1 DEF LogFollows
      <4>3. pod.log = start.log /\ start.exit = 0
        <5>1. pod.log \in Seq(Lines)
          BY <1>1 DEF Pods
        <5> QED
          BY <4>1, <4>2, <5>1, ConcatEmptySeq
      <4>4. /\ AnswerOK(Answer(pod.log).out, Answer(pod.log).reports)
            /\ Answer(pod.log).out \in {"ok", "error"}
        BY <1>1, <4>3, AnswerRight
      <4>5. Settle("delete", Answer(pod.log))
        BY <1>12, <3>1 DEF ReadLogs
      <4> QED
        BY <4>4, <4>5
    <3>2. CASE cmd.why # "succeeded"
      <4>1. Settle("delete", NoAnswer)
        BY <1>12, <3>2 DEF ReadLogs
      <4> QED
        BY <1>2, <4>1
    <3> QED
      BY <3>1, <3>2
  <2>3. SameRequest /\ AnswerOK(cmd.out, cmd.reports)' /\ cmd'.pc = "delete"
    BY <1>5, <2>1, <2>2
  <2> QED
    BY <1>1, <2>1, <2>3, CommandStepInv DEF SuccessIsLast, JobComesAndGoes, JobIsDeleted
<1>13. CASE LogsUnavailable
  <2>1. UNCHANGED <<scan, job, pod>>
    BY <1>13 DEF LogsUnavailable
  <2>2. SameRequest /\ AnswerOK(cmd.out, cmd.reports)' /\ cmd'.pc = "delete"
    BY <1>2, <1>5, <1>13, <2>1 DEF LogsUnavailable
  <2> QED
    BY <1>1, <2>1, <2>2, CommandStepInv DEF SuccessIsLast, JobComesAndGoes, JobIsDeleted
<1>14. CASE DeleteJob
  <2>1. UNCHANGED scan /\ job' = NoJob /\ pod' = NoPod
    BY <1>14 DEF DeleteJob
  <2>2. SameRequest /\ AnswerOK(cmd.out, cmd.reports)' /\ cmd'.pc = "done"
    BY <1>3, <1>14, <2>1 DEF DeleteJob
  <2> QED
    BY <1>7, <2>1, <2>2, PodStepInv DEF SuccessIsLast, JobComesAndGoes, JobIsDeleted
<1>15. CASE CallFails
  <2>1. UNCHANGED <<scan, job, pod>>
    BY <1>15 DEF CallFails
  <2>2. /\ SameRequest /\ AnswerOK(cmd.out, cmd.reports)' /\ cmd'.failed = cmd.pc
        /\ cmd'.pc = (IF cmd.pc \in {"poll", "logs"} THEN "delete" ELSE "done")
        /\ cmd.pc \notin {"done", "killed"}
    BY <1>6, <1>15, <2>1 DEF CallFails, Fails
  <2>3. JobComesAndGoes'
    BY <1>1, <2>1, <2>2 DEF JobComesAndGoes, JobIsDeleted, Asked
  <2> QED
    BY <1>1, <2>1, <2>2, <2>3, CommandStepInv DEF SuccessIsLast
<1>16. CASE AnswerLost
  <2>1. UNCHANGED scan
    BY <1>16 DEF AnswerLost
  <2>2. /\ SameRequest /\ AnswerOK(cmd.out, cmd.reports)' /\ cmd'.failed = cmd.pc
        /\ cmd'.pc = (IF cmd.pc \in {"poll", "logs"} THEN "delete" ELSE "done")
    BY <1>6, <1>16, <2>1 DEF AnswerLost
  <2>3. CASE cmd.pc = "createNamespace" /\ UNCHANGED <<job, pod>>
    BY <1>1, <2>2, <2>3, CommandStepInv DEF SuccessIsLast, JobComesAndGoes, JobIsDeleted
  <2>4. CASE cmd.pc = "create" /\ JobCreated
    BY <1>7, <2>2, <2>4, PodStepInv DEF JobCreated, SuccessIsLast, JobComesAndGoes, JobIsDeleted
  <2> QED
    BY <1>16, <2>3, <2>4 DEF AnswerLost
<1>17. CASE Killed
  <2>1. UNCHANGED <<scan, job, pod>>
    BY <1>17 DEF Killed
  <2>2. SameRequest /\ AnswerOK(cmd.out, cmd.reports)' /\ cmd'.pc = "killed"
    BY <1>2, <1>5, <1>17, <2>1 DEF Killed
  <2> QED
    BY <1>1, <2>1, <2>2, CommandStepInv DEF SuccessIsLast, JobComesAndGoes, JobIsDeleted
\* The cluster.
<1>18. UNCHANGED <<scan, cmd>> => Starts' = Starts
  <2>1. UNCHANGED <<scan, cmd>> => SameRequest
    BY <1>1 DEF SameRequest
  <2> QED
    BY <1>1, <2>1, RequestKept
<1>19. CASE PodStarts
  <2>1. UNCHANGED <<scan, cmd, job>> /\ pod.phase = "Pending"
    BY <1>19 DEF PodStarts
  <2>2. PICK start \in Starts :
           pod' = [pod EXCEPT !.phase = "Running", !.todo = start.log, !.exit = start.exit]
    BY <1>19 DEF PodStarts, Starts
  <2>3. start.log \in Seq(Lines) /\ start.exit \in Int
    BY <1>1, ScriptTyped
  <2>4. /\ pod' \in Pods /\ pod'.phase = "Running" /\ pod'.log = pod.log
        /\ pod'.todo = start.log /\ pod'.exit = start.exit
    BY <1>1, <2>2, <2>3 DEF Pods
  <2>5. pod'.log \o pod'.todo = start.log
    <3>1. pod.log = <<>>
      BY <1>1, <2>1 DEF LogFollows
    <3> QED
      BY <2>3, <2>4, <3>1, ConcatEmptySeq
  <2>6. LogFollows'
    BY <1>18, <2>1, <2>4, <2>5 DEF LogFollows
  <2>7. SuccessIsLast'
    BY <1>1, <2>1 DEF SuccessIsLast
  <2> QED
    BY <1>1, <2>1, <2>4, <2>6, <2>7, ClusterStepInv
<1>20. CASE PodWrites
  <2>1. /\ UNCHANGED <<scan, cmd, job>> /\ pod.phase = "Running" /\ pod.todo # <<>>
        /\ pod' = [pod EXCEPT !.log = Append(@, Head(pod.todo)), !.todo = Tail(@)]
    BY <1>20 DEF PodWrites
  <2>2. /\ Append(pod.log, Head(pod.todo)) \in Seq(Lines) /\ Tail(pod.todo) \in Seq(Lines)
        /\ Append(pod.log, Head(pod.todo)) \o Tail(pod.todo) = pod.log \o pod.todo
    BY <1>1, <2>1, LineWritten DEF Pods
  <2>3. /\ pod' \in Pods /\ pod'.phase = "Running" /\ pod'.exit = pod.exit
        /\ pod'.log \o pod'.todo = pod.log \o pod.todo
    BY <1>1, <2>1, <2>2 DEF Pods
  <2>4. LogFollows'
    BY <1>1, <1>18, <2>1, <2>3 DEF LogFollows
  <2>5. SuccessIsLast'
    BY <1>1, <2>1 DEF SuccessIsLast
  <2> QED
    BY <1>1, <2>1, <2>3, <2>4, <2>5, ClusterStepInv
<1>21. CASE PodExits
  <2>1. /\ UNCHANGED <<scan, cmd, job>> /\ pod.phase = "Running" /\ pod.todo = <<>>
        /\ pod' = [pod EXCEPT !.phase = IF pod.exit = 0 THEN "Succeeded" ELSE "Failed"]
    BY <1>21 DEF PodExits
  <2>2. /\ pod' \in Pods /\ pod'.phase = (IF pod.exit = 0 THEN "Succeeded" ELSE "Failed")
        /\ pod'.log = pod.log /\ pod'.todo = <<>> /\ pod'.exit = pod.exit
    BY <1>1, <2>1 DEF Pods
  <2>3. LogFollows'
    <3>1. PICK start \in Starts : pod.log \o pod.todo = start.log /\ pod.exit = start.exit
      BY <1>1, <2>1 DEF LogFollows
    <3>2. pod'.log \o pod'.todo = start.log /\ pod'.exit = start.exit /\ start \in Starts'
      BY <1>18, <2>1, <2>2, <3>1
    <3>3. pod'.phase = "Succeeded" => pod'.exit = 0
      BY <2>2
    <3>4. pod'.phase # "Pending"
      BY <2>2
    <3> QED
      BY <2>2, <3>2, <3>3, <3>4 DEF LogFollows
  <2>4. SuccessIsLast'
    BY <1>1, <2>1 DEF SuccessIsLast
  <2> QED
    BY <1>1, <2>1, <2>2, <2>3, <2>4, ClusterStepInv
<1>22. CASE PodLost
  <2>1. UNCHANGED <<scan, cmd, job>> /\ pod' = NoPod
    BY <1>22 DEF PodLost
  <2> QED
    BY <1>1, <2>1, NoPodTyped, ClusterStepInv DEF NoPod, LogFollows, SuccessIsLast
<1>23. CASE JobReports
  <2>1. UNCHANGED <<scan, cmd, pod>> /\ job' \in JobStates /\ job'.exists = job.exists
        /\ (job'.succeeded => pod.phase = "Succeeded")
    BY <1>1, <1>23 DEF JobReports, JobStates
  <2>2. LogFollows'
    BY <1>1, <1>18, <2>1 DEF LogFollows
  <2> QED
    BY <1>1, <2>1, <2>2, ClusterStepInv DEF SuccessIsLast
<1>24. CASE NamespaceLost
  <2>1. UNCHANGED <<scan, cmd>> /\ pod' = NoPod /\ job' = NoJob
    BY <1>24 DEF NamespaceLost
  <2> QED
    BY <1>1, <1>7, <2>1, NoPodTyped, ClusterStepInv DEF NoPod, LogFollows, SuccessIsLast
<1>25. CASE DeadlinePasses \/ UNCHANGED vars
  <2>1. UNCHANGED <<scan, cmd, pod, job>>
    BY <1>25 DEF DeadlinePasses, vars
  <2>2. LogFollows' /\ SuccessIsLast'
    BY <1>1, <1>18, <2>1 DEF LogFollows, SuccessIsLast
  <2> QED
    BY <1>1, <2>1, <2>2, ClusterStepInv
<1> QED
  BY <1>8, <1>9, <1>10, <1>11, <1>12, <1>13, <1>14, <1>15, <1>16, <1>17, <1>19, <1>20, <1>21,
     <1>22, <1>23, <1>24, <1>25 DEF Next, CommandStep

LEMMA ScanInvAlways == Spec => []ScanInv
  BY JobInitInv, JobStepInv, PTL DEF Spec

LEMMA ScanInvMeans ==
    ASSUME ScanInv
    PROVE  /\ ReportsAreTrue /\ JobIsDeleted
           /\ (\A r \in Requests : r.batch => Len(r.images) > 1) => ScannedMeansReported
<1>1. ReportsAreTrue
  BY DEF ScanInv, AnswerOK, TrueReports, ReportsAreTrue
<1>2. JobIsDeleted
  BY DEF ScanInv, JobComesAndGoes
<1>3. ASSUME \A r \in Requests : r.batch => Len(r.images) > 1
      PROVE  ScannedMeansReported
  <2>1. cmd.batch => Len(cmd.images) # 1
    <3>1. PICK r \in Requests : cmd.images = r.images /\ cmd.batch = r.batch
      BY DEF ScanInv, ScanTyped, RequestOK
    <3>2. r.batch => Len(r.images) > 1
      BY <1>3
    <3>3. Len(r.images) \in Nat
      BY <3>1 DEF ScanInv, ScanTyped, RequestOK
    <3>4. \A n \in Nat : n > 1 => n # 1
      OBVIOUS
    <3>5. Len(r.images) > 1 => Len(r.images) # 1
      BY ONLY <3>3, <3>4, Zenon
    <3> QED
      BY ONLY <3>1, <3>2, <3>5, Zenon
  <2> QED
    BY <2>1 DEF ScanInv, AnswerOK, ScannedMeansReported
<1> QED
  BY <1>1, <1>2, <1>3

\* The CVEs reported for an image are those of a scan of this very image that
\* succeeded, for any batch, any outcome of each scan, and wherever the pod, the
\* namespace, the calls and the command come to an end (listCVEsForImagesInCluster,
\* waitForScanJobCompletion).
THEOREM ReportsAlwaysTrue == Spec => []ReportsAreTrue
<1>1. ScanInv => ReportsAreTrue
  BY ScanInvMeans
<1> QED
  BY <1>1, ScanInvAlways, PTL

\* No report of a batch is lost on the way through the log, as long as no batch is
\* one of a single image, which createScanJob does not frame.
THEOREM ScannedIsReported ==
    ASSUME \A r \in Requests : r.batch => Len(r.images) > 1
    PROVE  Spec => []ScannedMeansReported
<1>1. ScanInv => ScannedMeansReported
  BY ScanInvMeans
<1> QED
  BY <1>1, ScanInvAlways, PTL

\* A command that ends by itself leaves no Job behind, unless the call that
\* creates or deletes it failed (runScanJob).
THEOREM JobAlwaysDeleted == Spec => []JobIsDeleted
<1>1. ScanInv => JobIsDeleted
  BY ScanInvMeans
<1> QED
  BY <1>1, ScanInvAlways, PTL

---------------------------------------------------------------------------
(* The scans on the operator's machine: the shared VEX file, and those who *)
(* use it.                                                                 *)

Ages == {"none", "young", "old"}
LocalPCs == {"look", "vex", "get", "copy", "rename", "run", "done", "hung", "killed"}
Whats == {"notInstalled", "noCache", "noReport", "toolFailed", "report"}

LastUse == {Nothing} \cup [what : Whats, old : BOOLEAN, found : Ages, current : BOOLEAN,
                           attempts : Nat]

LocalCommand == [pc : LocalPCs, image : Nat \ {0}, tool : {"trivy", "grype"}, found : Ages,
                 current : BOOLEAN, attempt : Nat, temporary : {"none", "partial", "whole"},
                 last : LastUse]

\* A command that is about to use the file has found it young, has just stored
\* it, or has given up on a newer one.
Entitled(command) ==
    command.current \/ (command.found = "old" /\ command.attempt = vexDownloadAttempts)

\* What came of the last attempt was as it should be.
LastJustified(last) ==
    /\ last.what = "report" /\ last.old =>
          last.current \/ (last.found = "old" /\ last.attempts = vexDownloadAttempts)
    /\ last.what = "noReport" => last.found = "none" /\ last.attempts = vexDownloadAttempts

\* While it downloads, a command knows whether there was a file, and how often
\* it has tried; it renames what is complete.
Justified(command) ==
    /\ command \in LocalCommand
    /\ command.pc \in {"get", "copy", "rename"} =>
          command.found \in {"none", "old"} /\ command.attempt \in 1..vexDownloadAttempts
    /\ command.pc = "rename" => command.temporary = "whole"
    /\ command.pc = "run" => Entitled(command)
    /\ LastJustified(command.last)

FileOK == file \in [age : Ages, whole : BOOLEAN] /\ ReportIsWhole

\* Why the properties below hold.
LocalInv ==
    /\ FileOK
    /\ scans \in [Commands -> LocalCommand]
    /\ \A p \in Commands : Justified(scans[p])

---------------------------------------------------------------------------
(* One command.                                                            *)

\* The commands are looked at one at a time.
LEMMA OneCommand ==
    ASSUME LocalInv, NEW p \in Commands, NEW command, Become(p, command), Justified(command),
           FileOK'
    PROVE  LocalInv'
BY DEF LocalInv, Become, Justified

LEMMA StartJustified ==
    ASSUME NEW p \in Commands
    PROVE  /\ Justified(Start(p))
           /\ \A pc \in {"hung", "killed", "done"} : Justified([Start(p) EXCEPT !.pc = pc])
<1>1. Start(p) \in LocalCommand
  BY LocalScanAssumption DEF Start, LocalCommand, LocalPCs, Ages, LastUse
<1>2. Justified(Start(p))
  BY <1>1 DEF Justified, Start, LastJustified, Nothing
<1>3. ASSUME NEW pc \in {"hung", "killed", "done"}
      PROVE  Justified([Start(p) EXCEPT !.pc = pc])
  BY <1>1, <1>3 DEF Justified, Start, LocalCommand, LocalPCs, LastJustified, Nothing
<1> QED
  BY <1>2, <1>3

\* An attempt to use a tool is over.
LEMMA NotedJustified ==
    ASSUME FileOK, NEW command \in LocalCommand, NEW what \in Whats,
           what = "report" => Entitled(command),
           what = "noReport" => command.found = "none" /\ command.attempt = vexDownloadAttempts
    PROVE  /\ Noted(command, what) \in LocalCommand
           /\ Noted(command, what).pc = command.pc
           /\ LastJustified(Noted(command, what).last)
<1> DEFINE last == [what |-> what, old |-> file.age = "old", found |-> command.found,
                    current |-> command.current, attempts |-> command.attempt]
<1>1. last \in LastUse /\ LastJustified(last)
  <2>1. last \in [what : Whats, old : BOOLEAN, found : Ages, current : BOOLEAN, attempts : Nat]
    BY DEF LocalCommand
  <2>2. LastJustified(last)
    BY DEF Entitled, LastJustified
  <2> QED
    BY <2>1, <2>2 DEF LastUse
<1> DEFINE cleared == [command EXCEPT !.found = "none", !.current = FALSE, !.attempt = 0]
<1>2. Noted(command, what) = [cleared EXCEPT !.last = last]
  BY DEF Noted
<1>3. cleared \in LocalCommand /\ cleared.pc = command.pc
  BY DEF LocalCommand, Ages
<1>4. /\ Noted(command, what) \in LocalCommand
      /\ Noted(command, what).pc = command.pc
      /\ Noted(command, what).last = last
  <2> HIDE DEF last, cleared
  <2> QED
    BY <1>1, <1>2, <1>3 DEF LocalCommand
<1> QED
  BY <1>1, <1>4

LEMMA NextImageJustified ==
    ASSUME NEW command \in LocalCommand, LastJustified(command.last)
    PROVE  Justified(NextImage(command))
<1>1. CASE command.image = 1
  BY <1>1 DEF NextImage, LocalCommand, LocalPCs, Justified
<1>2. CASE command.image # 1
  <2>1. NextImage(command) = [command EXCEPT !.pc = "look", !.image = @ - 1, !.tool = "trivy"]
    BY <1>2 DEF NextImage
  <2>2. command.image - 1 \in Nat \ {0}
    BY <1>2 DEF LocalCommand
  <2> QED
    BY <2>1, <2>2 DEF LocalCommand, LocalPCs, Justified
<1> QED
  BY <1>1, <1>2

LEMMA ToolFailsJustified ==
    ASSUME FileOK, NEW command \in LocalCommand, NEW what \in Whats \ {"report"},
           what = "noReport" => command.found = "none" /\ command.attempt = vexDownloadAttempts
    PROVE  Justified(ToolFails(command, what))
<1> DEFINE noted == Noted(command, what)
<1>1. noted \in LocalCommand /\ LastJustified(noted.last)
  BY NotedJustified
<1>2. Justified([noted EXCEPT !.pc = "look", !.tool = "grype"])
  <2> HIDE DEF noted
  <2> QED
    BY <1>1 DEF Justified, LocalCommand, LocalPCs
<1>3. Justified(NextImage(noted))
  BY <1>1, NextImageJustified
<1> QED
  BY <1>2, <1>3 DEF ToolFails

---------------------------------------------------------------------------
(* The steps.                                                              *)

LEMMA LocalInitInv == LocalInit => LocalInv
<1> SUFFICES ASSUME LocalInit PROVE LocalInv
  OBVIOUS
<1>1. FileOK
  <2>1. CASE file = NoFile
    BY <2>1 DEF NoFile, Ages, FileOK, ReportIsWhole
  <2>2. ASSUME NEW age \in {"young", "old"}, file = [age |-> age, whole |-> TRUE]
        PROVE  FileOK
    <3>1. file.whole = TRUE /\ file \in [age : Ages, whole : BOOLEAN]
      BY <2>2 DEF Ages
    <3> QED
      BY <3>1 DEF FileOK, ReportIsWhole
  <2> QED
    BY <2>1, <2>2 DEF LocalInit
<1>2. \A p \in Commands : Justified(Start(p)) /\ Start(p) \in LocalCommand
  BY StartJustified DEF Justified
<1> QED
  BY <1>1, <1>2 DEF LocalInit, LocalInv

LEMMA ScanStepInv ==
    ASSUME LocalInv, NEW p \in Commands, ScanStep(p) \/ CommandKilled(p)
    PROVE  LocalInv'
<1> DEFINE now == scans[p]
<1>0. FileOK /\ Justified(now) /\ now \in LocalCommand
  BY DEF LocalInv
<1>1. CASE LookPath(p)
  <2>1. CASE now.tool \in installed
    <3> DEFINE next == [now EXCEPT !.pc = "vex", !.last = Nothing]
    <3>1. Justified(next)
      BY <1>0 DEF Justified, LocalCommand, LocalPCs, LastUse, LastJustified, Nothing
    <3>2. Become(p, next) /\ FileOK'
      BY <1>0, <1>1, <2>1 DEF LookPath, FileOK, ReportIsWhole
    <3> QED
      BY <3>1, <3>2, OneCommand
  <2>2. CASE now.tool \notin installed
    <3>1. Justified(ToolFails(now, "notInstalled"))
      BY <1>0, ToolFailsJustified DEF Whats
    <3>2. Become(p, ToolFails(now, "notInstalled")) /\ FileOK'
      BY <1>0, <1>1, <2>2 DEF LookPath, FileOK, ReportIsWhole
    <3> QED
      BY <3>1, <3>2, OneCommand
  <2> QED
    BY <2>1, <2>2
<1>2. CASE ensureLocalVEXFile(p)
  <2> DEFINE looked == [now EXCEPT !.found = file.age, !.current = (file.age = "young")]
             use == [looked EXCEPT !.pc = "run", !.attempt = 0]
             get == [looked EXCEPT !.pc = "get", !.attempt = 1]
  <2>1. looked \in LocalCommand /\ looked.found = file.age /\ looked.current = (file.age = "young")
        /\ looked.last = now.last
    BY <1>0 DEF LocalCommand, FileOK
  <2>2. FileOK'
    BY <1>0, <1>2 DEF ensureLocalVEXFile, FileOK, ReportIsWhole
  <2>3. CASE file.age = "young"
    <3>1. Justified(use)
      <4>1. LastJustified(looked.last)
        BY <1>0, <2>1 DEF Justified
      <4> HIDE DEF looked
      <4> QED
        BY <2>1, <2>3, <4>1 DEF Justified, LocalCommand, LocalPCs, Entitled
    <3>2. Become(p, use)
      BY <1>2, <2>3 DEF ensureLocalVEXFile
    <3> QED
      BY <2>2, <3>1, <3>2, OneCommand
  <2>4. CASE file.age # "young"
    <3>1. looked.found \in {"none", "old"} /\ 1 \in 1..vexDownloadAttempts
      BY <1>0, <2>1, <2>4, LocalScanAssumption DEF FileOK, Ages
    <3>2. LastJustified(looked.last)
      BY <1>0, <2>1 DEF Justified
    <3>3. Justified(get)
      <4> HIDE DEF looked
      <4> QED
        BY <2>1, <3>1, <3>2 DEF Justified, LocalCommand, LocalPCs
    <3>4. Become(p, get)
      BY <1>2, <2>4 DEF ensureLocalVEXFile
    <3> QED
      BY <2>2, <3>3, <3>4, OneCommand
  <2> QED
    BY <2>3, <2>4
<1>3. CASE CacheUnusable(p)
  <2>1. Justified(ToolFails(now, "noCache"))
    BY <1>0, ToolFailsJustified DEF Whats
  <2>2. Become(p, ToolFails(now, "noCache")) /\ FileOK'
    BY <1>0, <1>3 DEF CacheUnusable, FileOK, ReportIsWhole
  <2> QED
    BY <2>1, <2>2, OneCommand
<1>4. CASE ServerAnswers(p)
  <2> DEFINE next == [now EXCEPT !.pc = "copy", !.temporary = "partial"]
  <2>1. Justified(next)
    BY <1>0, <1>4 DEF ServerAnswers, Justified, LocalCommand, LocalPCs
  <2>2. Become(p, next) /\ FileOK'
    BY <1>0, <1>4 DEF ServerAnswers, FileOK, ReportIsWhole
  <2> QED
    BY <2>1, <2>2, OneCommand
<1>5. CASE CopyReport(p)
  <2> DEFINE next == [now EXCEPT !.pc = "rename", !.temporary = "whole"]
  <2>1. Justified(next)
    BY <1>0, <1>5 DEF CopyReport, Justified, LocalCommand, LocalPCs
  <2>2. Become(p, next) /\ FileOK'
    BY <1>0, <1>5 DEF CopyReport, FileOK, ReportIsWhole
  <2> QED
    BY <2>1, <2>2, OneCommand
<1>6. CASE Rename(p)
  <2> DEFINE next == [now EXCEPT !.pc = "run", !.temporary = "none", !.current = TRUE]
  <2>1. Justified(next)
    BY <1>0 DEF Justified, LocalCommand, LocalPCs, Entitled
  <2>2. Become(p, next)
    BY <1>6 DEF Rename
  <2>3. file' = [age |-> "young", whole |-> TRUE]
    BY <1>0, <1>6 DEF Rename, Justified
  <2>4. FileOK'
    BY <2>3 DEF FileOK, ReportIsWhole, Ages
  <2> QED
    BY <2>1, <2>2, <2>4, OneCommand
<1>7. CASE DownloadFails(p)
  <2> DEFINE closed == [now EXCEPT !.temporary = "none"]
             use == [closed EXCEPT !.pc = "run"]
  <2>1. /\ closed \in LocalCommand /\ closed.found = now.found /\ closed.attempt = now.attempt
        /\ closed.last = now.last /\ closed.pc = now.pc /\ closed.temporary = "none"
    BY <1>0 DEF LocalCommand
  <2>2. closed.found \in {"none", "old"} /\ closed.attempt \in 1..vexDownloadAttempts
    BY <1>0, <1>7, <2>1 DEF DownloadFails, Justified
  <2>3. FileOK'
    BY <1>0, <1>7 DEF DownloadFails, FileOK, ReportIsWhole
  <2>4. LastJustified(closed.last)
    BY <1>0, <2>1 DEF Justified
  <2>5. CASE closed.attempt < vexDownloadAttempts
    <3>1. Justified(Retry(closed))
      <4> HIDE DEF closed
      <4> QED
        <5>1. closed.attempt + 1 \in 1..vexDownloadAttempts /\ closed.attempt + 1 \in Nat
          BY <2>2, <2>5, LocalScanAssumption
        <5>2. [closed EXCEPT !.pc = "get", !.attempt = @ + 1, !.temporary = "none"] \in LocalCommand
          BY <2>1, <5>1 DEF LocalCommand, LocalPCs
        <5> QED
          BY <2>1, <2>2, <2>4, <5>1, <5>2 DEF Retry, Justified, LocalCommand
    <3>2. Become(p, Retry(closed))
      BY <1>7, <2>5 DEF DownloadFails
    <3> QED
      BY <2>3, <3>1, <3>2, OneCommand
  <2>6. CASE closed.attempt = vexDownloadAttempts /\ closed.found # "none"
    <3>1. Justified(use)
      <4> HIDE DEF closed
      <4> QED
        BY <2>1, <2>2, <2>6, <2>4 DEF Justified, LocalCommand, LocalPCs, Entitled
    <3>2. Become(p, use)
      BY <1>7, <2>6, LocalScanAssumption DEF DownloadFails
    <3> QED
      BY <2>3, <3>1, <3>2, OneCommand
  <2>7. CASE closed.attempt = vexDownloadAttempts /\ closed.found = "none"
    <3>1. Justified(ToolFails(closed, "noReport"))
      <4> HIDE DEF closed
      <4> QED
        BY <1>0, <2>1, <2>7, ToolFailsJustified DEF Whats
    <3>2. Become(p, ToolFails(closed, "noReport"))
      BY <1>7, <2>7, LocalScanAssumption DEF DownloadFails
    <3> QED
      BY <2>3, <3>1, <3>2, OneCommand
  <2> QED
    BY <2>2, <2>5, <2>6, <2>7, LocalScanAssumption
<1>8. CASE ServerHangs(p)
  <2>1. Become(p, [Start(p) EXCEPT !.pc = "hung"]) /\ FileOK'
    BY <1>0, <1>8 DEF ServerHangs, FileOK, ReportIsWhole
  <2> QED
    BY <2>1, StartJustified, OneCommand
<1>9. CASE RunTool(p)
  <2>1. FileOK'
    BY <1>0, <1>9 DEF RunTool, FileOK, ReportIsWhole
  <2>2. CASE Become(p, NextImage(Noted(now, "report")))
    <3>1. Entitled(now)
      BY <1>0, <1>9 DEF RunTool, Justified
    <3>2. Justified(NextImage(Noted(now, "report")))
      BY <1>0, <3>1, NotedJustified, NextImageJustified DEF Whats
    <3> QED
      BY <2>1, <2>2, <3>2, OneCommand
  <2>3. CASE Become(p, ToolFails(now, "toolFailed"))
    <3>1. Justified(ToolFails(now, "toolFailed"))
      BY <1>0, ToolFailsJustified DEF Whats
    <3> QED
      BY <2>1, <2>3, <3>1, OneCommand
  <2> QED
    BY <1>9, <2>2, <2>3 DEF RunTool
<1>10. CASE CommandKilled(p)
  <2>1. Become(p, [Start(p) EXCEPT !.pc = "killed"]) /\ FileOK'
    BY <1>0, <1>10 DEF CommandKilled, FileOK, ReportIsWhole
  <2> QED
    BY <2>1, StartJustified, OneCommand
<1> QED
  BY <1>1, <1>2, <1>3, <1>4, <1>5, <1>6, <1>7, <1>8, <1>9, <1>10 DEF ScanStep

LEMMA LocalStepInv ==
    ASSUME LocalInv, [LocalNext]_localVars
    PROVE  LocalInv'
<1>1. CASE FileAges
  <2>1. file' \in [age : Ages, whole : BOOLEAN] /\ file'.whole = file.whole /\ file.age # "none"
    BY <1>1 DEF FileAges, LocalInv, FileOK, Ages
  <2> QED
    BY <1>1, <2>1 DEF FileAges, LocalInv, FileOK, ReportIsWhole
<1>2. CASE FileRemoved
  BY <1>2 DEF FileRemoved, LocalInv, FileOK, ReportIsWhole, NoFile, Ages
<1>3. CASE UNCHANGED localVars
  BY <1>3 DEF localVars, LocalInv, FileOK, ReportIsWhole
<1> QED
  BY <1>1, <1>2, <1>3, ScanStepInv DEF LocalNext

LEMMA LocalInvAlways == LocalSpec => []LocalInv
<1>1. LocalInv /\ [LocalNext]_localVars => LocalInv'
  BY LocalStepInv
<1> QED
  BY <1>1, LocalInitInv, PTL DEF LocalSpec

---------------------------------------------------------------------------

\* The shared VEX file is never half a report, however many commands download
\* it at once, fail or are killed (downloadVEXFileOnce).
THEOREM ReportAlwaysWhole == LocalSpec => []ReportIsWhole
<1>1. LocalInv => ReportIsWhole
  BY DEF LocalInv, FileOK
<1> QED
  BY <1>1, LocalInvAlways, PTL

\* A scan uses a file that is too old only if its command saw it young, or has
\* failed at every attempt to replace it (ensureLocalVEXFile).
THEOREM OldAlwaysAfterFailures == LocalSpec => []OldOnlyAfterFailures
<1>1. LocalInv => OldOnlyAfterFailures
  BY DEF LocalInv, Justified, LastJustified, OldOnlyAfterFailures
<1> QED
  BY <1>1, LocalInvAlways, PTL

\* A tool goes without a report only if there was none to fall back on
\* (ensureLocalVEXFile).
THEOREM OldAlwaysBetterThanNone == LocalSpec => []OldIsBetterThanNone
<1>1. LocalInv => OldIsBetterThanNone
  BY DEF LocalInv, Justified, LastJustified, OldIsBetterThanNone
<1> QED
  BY <1>1, LocalInvAlways, PTL

---------------------------------------------------------------------------
(* Either mode.                                                            *)

ScannerInv ==
    /\ \/ mode = "cluster" /\ ScanInv
       \/ mode = "local" /\ NoScanJob
    /\ LocalInv

LEMMA ScannerInitInv == ScannerInit => ScannerInv
<1> SUFFICES ASSUME ScannerInit
             PROVE  ScannerInv
  OBVIOUS
<1>1. CASE mode = "local" /\ LocalInit /\ NoScanJob
  BY <1>1, LocalInitInv DEF ScannerInv
<1>2. CASE mode = "cluster" /\ Init /\ NoLocalScan
  <2>1. FileOK
    BY <1>2 DEF NoLocalScan, NoFile, FileOK, ReportIsWhole, Ages
  <2>2. \A p \in Commands : /\ Justified([Start(p) EXCEPT !.pc = "done"])
                            /\ [Start(p) EXCEPT !.pc = "done"] \in LocalCommand
    BY StartJustified DEF Justified
  <2>3. LocalInv
    BY <1>2, <2>1, <2>2 DEF NoLocalScan, LocalInv
  <2> QED
    BY <1>2, <2>3, JobInitInv DEF ScannerInv
<1> QED
  BY <1>1, <1>2 DEF ScannerInit

LEMMA ScannerStepInv == ScannerInv /\ [ScannerNext]_scannerVars => ScannerInv'
<1> SUFFICES ASSUME ScannerInv, [ScannerNext]_scannerVars
             PROVE  ScannerInv'
  OBVIOUS
<1>1. CASE mode = "cluster" /\ [Next]_vars /\ UNCHANGED <<mode, localVars>>
  <2>1. ScanInv' /\ mode' = "cluster"
    BY <1>1, JobStepInv DEF ScannerInv
  <2>2. LocalInv'
    BY <1>1, LocalStepInv DEF ScannerInv
  <2> QED
    BY <2>1, <2>2 DEF ScannerInv
<1>2. CASE mode = "local" /\ [LocalNext]_localVars /\ UNCHANGED <<mode, vars>>
  <2>1. NoScanJob' /\ mode' = "local"
    BY <1>2 DEF ScannerInv, NoScanJob, vars
  <2>2. LocalInv'
    BY <1>2, LocalStepInv DEF ScannerInv
  <2> QED
    BY <2>1, <2>2 DEF ScannerInv
<1>3. CASE ScannerNext
  BY <1>1, <1>2, <1>3 DEF ScannerNext
<1>4. CASE UNCHANGED scannerVars
  <2>1. UNCHANGED <<mode, vars, localVars>>
    BY <1>4 DEF scannerVars
  <2>2. mode \in {"cluster", "local"}
    BY DEF ScannerInv
  <2> QED
    BY <1>1, <1>2, <2>1, <2>2
<1> QED
  BY <1>3, <1>4

\* Whichever mode is set, reports are true, jobs are removed, and what is used of
\* the VEX file is whole and, unless nothing newer could be had, young
\* (ListCVEsForImage, ListCVEsForImages).
THEOREM EitherModeIsSafe ==
    ScannerSpec => [](/\ ReportsAreTrue /\ JobIsDeleted
                      /\ ReportIsWhole /\ OldOnlyAfterFailures /\ OldIsBetterThanNone)
<1>1. ScanInv => ReportsAreTrue /\ JobIsDeleted
  BY ScanInvMeans
<1>2. NoScanJob => ReportsAreTrue /\ JobIsDeleted
  <2> SUFFICES ASSUME NoScanJob
               PROVE  ReportsAreTrue /\ JobIsDeleted
    OBVIOUS
  <2>1. cmd.reports = {} /\ ~job.exists
    BY DEF NoScanJob, NoJob
  <2> QED
    BY <2>1 DEF ReportsAreTrue, JobIsDeleted
<1>3. LocalInv => ReportIsWhole /\ OldOnlyAfterFailures /\ OldIsBetterThanNone
  BY DEF LocalInv, FileOK, Justified, LastJustified, OldOnlyAfterFailures, OldIsBetterThanNone
<1>4. ScannerInv => /\ ReportsAreTrue /\ JobIsDeleted
                    /\ ReportIsWhole /\ OldOnlyAfterFailures /\ OldIsBetterThanNone
  BY <1>1, <1>2, <1>3 DEF ScannerInv
<1> QED
  BY <1>4, ScannerInitInv, ScannerStepInv, PTL DEF ScannerSpec

=============================================================================
