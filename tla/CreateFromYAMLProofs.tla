------------------------ MODULE CreateFromYAMLProofs ------------------------
(***************************************************************************)
(* Proofs about the loop of createFromYAML, for a manifest of any length   *)
(* and any documents: the scanner loses and joins nothing, and the hooks   *)
(* work on the object at hand.                                             *)
(***************************************************************************)
EXTENDS CreateFromYAML, TLAPS, SequenceTheorems

(***************************************************************************)
(* Lemmas about sequences.                                                 *)
(***************************************************************************)

\* Nothing is in an empty sequence.
LEMMA RangeEmpty == Range(<<>>) = {}
BY DEF Range

\* Append adds one element.
LEMMA RangeAppend ==
    ASSUME NEW S, NEW s \in Seq(S), NEW e \in S
    PROVE  /\ Append(s, e) \in Seq(S) /\ Append(s, e) # <<>>
           /\ DOMAIN Append(s, e) = 1 .. Len(s) + 1
           /\ Range(Append(s, e)) = Range(s) \cup {e}
<1>1. /\ Append(s, e) \in Seq(S) /\ Append(s, e) # <<>>
      /\ Len(Append(s, e)) = Len(s) + 1
      /\ \A i \in 1 .. Len(s) : Append(s, e)[i] = s[i]
      /\ Append(s, e)[Len(s) + 1] = e
  BY AppendProperties
<1>2. DOMAIN Append(s, e) = 1 .. Len(s) + 1 /\ DOMAIN s = 1 .. Len(s) /\ Len(s) \in Nat
  BY <1>1, LenProperties
<1>3. Range(Append(s, e)) \subseteq Range(s) \cup {e}
  BY <1>1, <1>2 DEF Range
<1>4. Range(s) \cup {e} \subseteq Range(Append(s, e))
  BY <1>1, <1>2 DEF Range
<1>. QED
  BY <1>1, <1>2, <1>3, <1>4

\* Something is in a sequence that is not empty.
LEMMA RangeNonEmpty ==
    ASSUME NEW S, NEW s \in Seq(S), s # <<>>
    PROVE  s[1] \in Range(s)
BY LenProperties, EmptySeq DEF Range

\* A manifest is a sequence of lines.
LEMMA FileIsSeq ==
    ASSUME file \in BoundedSeq(Lines, MaxLines)
    PROVE  Len(file) \in Nat /\ DOMAIN file = 1 .. Len(file)
<1>1. PICK m \in 0 .. MaxLines : file \in [1 .. m -> Lines]
  BY LinesAssumption DEF BoundedSeq, SeqOf
<1>2. file \in Seq(Lines)
  BY <1>1, SeqDef, LinesAssumption
<1>. QED
  BY <1>2, LenProperties

(***************************************************************************)
(* Steps of the scanner in the loop: also an error of a hook begins anew.  *)
(***************************************************************************)
ScanStep == Scan \/ CreateObject \/ ApplyObject \/ Rescan

LEMMA LoopScans == [LoopNext]_<<vars, hookVars>> => [ScanStep]_vars
BY DEF LoopNext, Read, Unmarshal, Hook, Apply, ApplyFails, NextPass, ScanStep

\* No step changes the manifest.
LEMMA SameFile == [ScanStep]_vars => UNCHANGED file
BY DEF ScanStep, Scan, ReadLine, ReadSeparator, Eof, Yield, CannotRender, CannotUnmarshal,
       CreateObject, ApplyObject, Rescan, vars

(***************************************************************************)
(* TypeOK and ReaderInv.                                                   *)
(***************************************************************************)
ScannerInv == TypeOK /\ ReaderInv

\* The reader begins at the first line.
LEMMA ReaderInit == Init => ScannerInv
<1>. SUFFICES ASSUME Init
              PROVE  ScannerInv
  OBVIOUS
<1>1. Len(file) \in Nat /\ DOMAIN file = 1 .. Len(file)
  BY FileIsSeq DEF Init
<1>. QED
  BY <1>1, RangeEmpty, EmptySeq DEF Init, ScannerInv, TypeOK, ReaderInv

\* What the reader has collected up to a separator or the end is a document.
LEMMA YieldsDocument ==
    ASSUME ScannerInv, pc = "scan", buffer # <<>>,
           pos > Len(file) \/ file[pos] = "sep"
    PROVE  IsDocument(buffer)
<1>1. Len(file) \in Nat /\ DOMAIN file = 1 .. Len(file)
  BY FileIsSeq DEF ScannerInv, TypeOK
<1>2. pos \in 1 .. Len(file) + 1
  BY DEF ScannerInv, TypeOK
<1>3. PICK a \in 1 .. pos - 1 : Collected(buffer, a, pos - 1)
  BY DEF ScannerInv, ReaderInv
<1>4. a \in DOMAIN file /\ pos - 1 \in DOMAIN file /\ a <= pos - 1
  BY <1>1, <1>2, <1>3
<1>5. pos - 1 = Len(file) \/ file[(pos - 1) + 1] = "sep"
  BY <1>1, <1>2
<1>. QED
  BY <1>3, <1>4, <1>5 DEF IsDocument

\* The line at pos is the last one that was collected.
LEMMA CollectedUpTo ==
    ASSUME UNCHANGED file, pos \in Int, pos' = pos + 1, NEW a \in 1 .. pos,
           Range(buffer') = a .. pos,
           a = 1 \/ file[a - 1] = "sep",
           \A l \in a + 1 .. pos : file[l] # "sep"
    PROVE  (\E b \in 1 .. pos - 1 : Collected(buffer, b, pos - 1))'
<1>1. pos' - 1 = pos
  OBVIOUS
<1>. QED
  BY <1>1 DEF Collected

\* Every step of the loop keeps the reader at the place it says.
LEMMA ReaderStep == ScannerInv /\ [ScanStep]_vars => ScannerInv'
<1>. SUFFICES ASSUME ScannerInv, [ScanStep]_vars
              PROVE  ScannerInv'
  OBVIOUS
<1>0. /\ Len(file) \in Nat /\ DOMAIN file = 1 .. Len(file) /\ UNCHANGED file
      /\ pos \in 1 .. Len(file) + 1
      /\ buffer \in Seq(Nat) /\ token \in Seq(Nat) /\ applied \in Seq(Seq(Nat))
  BY FileIsSeq, SameFile DEF ScannerInv, TypeOK, ReaderInv
<1>1. CASE ReadLine
  <2>1. pos \in Nat /\ buffer' = Append(buffer, pos) /\ pos' = pos + 1 /\ pos <= Len(file)
    BY <1>0, <1>1 DEF ReadLine
  <2>2. UNCHANGED <<file, token, applied, pc>> /\ pc = "scan"
    BY <1>1 DEF ReadLine
  <2>3. buffer' \in Seq(Nat) /\ buffer' # <<>> /\ Range(buffer') = Range(buffer) \cup {pos}
    <3>1. buffer \in Seq(Nat) /\ pos \in Nat
      BY <1>0, <2>1
    <3>2. /\ Append(buffer, pos) \in Seq(Nat) /\ Append(buffer, pos) # <<>>
          /\ Range(Append(buffer, pos)) = Range(buffer) \cup {pos}
      BY <3>1, RangeAppend
    <3>. QED
      BY <2>1, <3>2, Zenon
  <2>4. (\E a \in 1 .. pos - 1 : Collected(buffer, a, pos - 1))'
    <3>1. CASE buffer = <<>>
      <4>1. pos = 1 \/ file[pos - 1] = "sep"
        BY <1>0, <2>1, <3>1 DEF ScannerInv, ReaderInv
      <4>2. Range(buffer') = pos .. pos
        BY <1>0, <2>3, <3>1, RangeEmpty
      <4>3. pos \in Int /\ pos \in 1 .. pos /\ \A l \in pos + 1 .. pos : file[l] # "sep"
        BY <1>0
      <4>4. UNCHANGED file /\ pos' = pos + 1
        BY <1>0, <2>1
      <4>. QED
        BY <4>1, <4>2, <4>3, <4>4, CollectedUpTo, Zenon
    <3>2. CASE buffer # <<>>
      <4>1. PICK a \in 1 .. pos - 1 : Collected(buffer, a, pos - 1)
        BY <3>2 DEF ScannerInv, ReaderInv
      <4>2. file[pos] # "sep"
        BY <1>1, <3>2 DEF ReadLine, IsSeparator
      <4>3. Range(buffer') = a .. pos
        BY <1>0, <2>3, <4>1 DEF Collected
      <4>4. \A l \in a + 1 .. pos : file[l] # "sep"
        BY <1>0, <4>1, <4>2 DEF Collected
      <4>5. a \in 1 .. pos /\ (a = 1 \/ file[a - 1] = "sep")
        BY <1>0, <4>1 DEF Collected
      <4>6. UNCHANGED file /\ pos \in Int /\ pos' = pos + 1
        BY <1>0, <2>1
      <4>. QED
        BY <4>3, <4>4, <4>5, <4>6, CollectedUpTo, Zenon
    <3>. QED
      BY <3>1, <3>2
  <2>. QED
    BY <1>0, <2>1, <2>2, <2>3, <2>4 DEF ScannerInv, TypeOK, ReaderInv
<1>2. CASE ReadSeparator
  <2>1. /\ pc = "scan" /\ pos <= Len(file) /\ file[pos] = "sep" /\ buffer # <<>>
        /\ token' = buffer /\ buffer' = <<>> /\ pc' = "token"
        /\ pos' = pos + 1 /\ UNCHANGED <<file, applied>>
    BY <1>2 DEF ReadSeparator, Yield, IsSeparator
  <2>2. IsDocument(buffer)
    BY <2>1, YieldsDocument
  <2>3. IsDocument(token)'
    BY <2>1, <2>2 DEF IsDocument, Collected
  <2>4. Range(buffer') = {} /\ Range(token') \subseteq 1 .. pos - 1
    BY <2>1, RangeEmpty DEF ScannerInv, TypeOK
  <2>. QED
    BY <1>0, <2>1, <2>3, <2>4, EmptySeq DEF ScannerInv, TypeOK, ReaderInv
<1>3. CASE Eof
  <2>1. pc = "scan" /\ pos > Len(file) /\ UNCHANGED <<file, pos, applied>>
    BY <1>3 DEF Eof
  <2>2. CASE buffer # <<>>
    <3>1. token' = buffer /\ buffer' = <<>> /\ pc' = "token"
      BY <1>3, <2>2 DEF Eof, Yield
    <3>2. IsDocument(buffer)
      BY <2>1, <2>2, YieldsDocument
    <3>3. IsDocument(token)'
      BY <2>1, <3>1, <3>2 DEF IsDocument, Collected
    <3>4. Range(buffer') = {} /\ Range(token') \subseteq 1 .. pos - 1
      BY <3>1, RangeEmpty DEF ScannerInv, TypeOK
    <3>. QED
      BY <1>0, <2>1, <3>1, <3>3, <3>4, EmptySeq DEF ScannerInv, TypeOK, ReaderInv
  <2>3. CASE buffer = <<>>
    <3>1. pc' = "end" /\ UNCHANGED <<buffer, token>>
      BY <1>3, <2>3 DEF Eof
    <3>. QED
      BY <1>0, <2>1, <2>3, <3>1 DEF ScannerInv, TypeOK, ReaderInv
  <2>. QED
    BY <2>2, <2>3
<1>4. CASE CannotRender \/ CannotUnmarshal \/ CreateObject
  <2>1. /\ pc = "token" /\ UNCHANGED <<file, pos, buffer, token, applied>>
        /\ pc' \in {"object", "error", "exit"}
    BY <1>4 DEF CannotRender, CannotUnmarshal, CreateObject
  <2>2. pc' = "exit" => ~HasText(token)'
    BY <1>4 DEF CannotRender, CannotUnmarshal, CreateObject, HasText
  <2>. QED
    BY <2>1, <2>2 DEF ScannerInv, TypeOK, ReaderInv, IsDocument, Collected
<1>5. CASE ApplyObject
  <2>1. /\ pc = "object" /\ pc' = "scan" /\ UNCHANGED <<file, pos, buffer, token>>
        /\ applied' = Append(applied, token)
    BY <1>5 DEF ApplyObject
  <2>2. applied' \in Seq(Seq(Nat))
    BY <1>0, <2>1, RangeAppend
  <2>. QED
    BY <2>1, <2>2 DEF ScannerInv, TypeOK, ReaderInv, Collected
<1>6. CASE Rescan
  <2>1. /\ pos' = 1 /\ buffer' = <<>> /\ token' = <<>> /\ applied' = <<>>
        /\ pc' = "scan" /\ UNCHANGED file
    BY <1>6 DEF Rescan
  <2>. QED
    BY <1>0, <2>1, RangeEmpty, EmptySeq DEF ScannerInv, TypeOK, ReaderInv
<1>7. CASE UNCHANGED vars
  BY <1>7 DEF vars, ScannerInv, TypeOK, ReaderInv, IsDocument, Collected, HasText
<1>. QED
  BY <1>1, <1>2, <1>3, <1>4, <1>5, <1>6, <1>7, Zenon DEF ScanStep, Scan

\* The reader stays within the manifest, and a token has lines that were read.
THEOREM TypeCorrect == LoopSpec => []TypeOK
<1>1. LoopInit => ScannerInv
  BY ReaderInit DEF LoopInit
<1>2. ScannerInv => TypeOK
  BY DEF ScannerInv
<1>. QED
  BY <1>1, <1>2, LoopScans, ReaderStep, PTL DEF LoopSpec

(***************************************************************************)
(* DocumentsKept and ExitsOnEmptyDocument.                                 *)
(***************************************************************************)

\* A document of the manifest stays one.
LEMMA DocumentStays ==
    ASSUME UNCHANGED file, NEW c, NEW d, applied'[c] = applied[d], IsDocument(applied[d])
    PROVE  IsDocument(applied[c])'
BY DEF IsDocument, Collected

\* What is applied are numbers of lines.
LEMMA AppliedLines ==
    ASSUME ScannerInv
    PROVE  \A c \in DOMAIN applied : Range(applied[c]) \subseteq Nat
<1>1. applied \in Seq(Seq(Nat))
  BY DEF ScannerInv, ReaderInv
<1>2. \A c \in DOMAIN applied : applied[c] \in Seq(Nat)
  BY <1>1, LenProperties
<1>. QED
  BY <1>2, RangeOfSeq

\* Nothing is applied at first.
LEMMA AppliedInit == Init => AppliedInv
<1>. SUFFICES ASSUME Init
              PROVE  AppliedInv
  OBVIOUS
<1>1. Len(file) \in Nat /\ DOMAIN file = 1 .. Len(file) /\ DOMAIN applied = {}
  BY FileIsSeq DEF Init
<1>. QED
  BY <1>1 DEF Init, AppliedInv, TextLines

\* Every step of the loop keeps the text that was read, in its order.
LEMMA AppliedStep == ScannerInv /\ AppliedInv /\ [ScanStep]_vars => AppliedInv'
<1>. SUFFICES ASSUME ScannerInv, AppliedInv, [ScanStep]_vars
              PROVE  AppliedInv'
  OBVIOUS
<1>0. /\ Len(file) \in Nat /\ DOMAIN file = 1 .. Len(file) /\ UNCHANGED file
      /\ pos \in 1 .. Len(file) + 1
      /\ buffer \in Seq(Nat) /\ token \in Seq(Nat) /\ applied \in Seq(Seq(Nat))
      /\ Range(buffer) \subseteq 1 .. pos - 1 /\ Range(token) \subseteq 1 .. pos - 1
  BY FileIsSeq, SameFile DEF ScannerInv, TypeOK, ReaderInv
<1>1. CASE ReadLine
  <2>1. /\ pos' = pos + 1 /\ UNCHANGED <<file, token, applied, pc>> /\ pc = "scan"
        /\ buffer' = Append(buffer, pos) /\ pos \in Nat
    BY <1>0, <1>1 DEF ReadLine
  <2>2. Range(Append(buffer, pos)) = Range(buffer) \cup {pos}
    <3>1. buffer \in Seq(Nat) /\ pos \in Nat
      BY <1>0
    <3>. QED
      BY <3>1, RangeAppend
  <2>3. Range(buffer') = Range(buffer) \cup {pos}
    BY <2>1, <2>2, Zenon
  <2>4. \A c \in DOMAIN applied' : IsDocument(applied[c])'
    BY <2>1, DocumentStays DEF AppliedInv
  <2>5. \A c \in DOMAIN applied : \A j \in Range(applied[c]) :
          j < pos' /\ \A k \in Range(buffer') : j < k
    BY <1>0, <2>1, <2>3, AppliedLines DEF AppliedInv
  <2>6. \A j \in TextLines : j < pos' =>
          j \in Range(buffer') \/ \E c \in DOMAIN applied : j \in Range(applied[c])
    <3>. SUFFICES ASSUME NEW j \in TextLines, j < pos'
                  PROVE  \/ j \in Range(buffer')
                         \/ \E c \in DOMAIN applied : j \in Range(applied[c])
      OBVIOUS
    <3>1. j \in Nat /\ pos \in Nat
      BY <1>0 DEF TextLines
    <3>2. CASE j = pos
      BY <2>3, <3>2
    <3>3. CASE j < pos
      BY <2>1, <2>3, <3>3 DEF AppliedInv
    <3>. QED
      BY <2>1, <3>1, <3>2, <3>3
  <2>. QED
    BY <2>1, <2>4, <2>5, <2>6 DEF AppliedInv, TextLines
<1>2. CASE ReadSeparator \/ (Eof /\ buffer # <<>>)
  <2>1. /\ pc = "scan" /\ token' = buffer /\ buffer' = <<>> /\ pc' = "token"
        /\ UNCHANGED <<file, applied>>
        /\ \/ pos <= Len(file) /\ file[pos] = "sep" /\ pos' = pos + 1
           \/ pos' = pos
    BY <1>2 DEF ReadSeparator, Eof, Yield, IsSeparator
  <2>2. Range(buffer') = {} /\ Range(token') = Range(buffer)
    BY <2>1, RangeEmpty
  <2>. QED
    BY <1>0, <2>1, <2>2 DEF AppliedInv, IsDocument, Collected, TextLines
<1>3. CASE Eof /\ buffer = <<>>
  <2>1. pc = "scan" /\ pc' = "end" /\ UNCHANGED <<file, pos, buffer, token, applied>>
    BY <1>3 DEF Eof
  <2>. QED
    BY <2>1 DEF AppliedInv, IsDocument, Collected, TextLines
<1>4. CASE CannotRender \/ CannotUnmarshal \/ CreateObject
  <2>1. /\ pc = "token" /\ pc' \in {"object", "error", "exit"}
        /\ UNCHANGED <<file, pos, buffer, token, applied>>
    BY <1>4 DEF CannotRender, CannotUnmarshal, CreateObject
  <2>. QED
    BY <2>1 DEF AppliedInv, IsDocument, Collected, TextLines
<1>5. CASE ApplyObject
  <2>1. /\ pc = "object" /\ pc' = "scan" /\ UNCHANGED <<file, pos, buffer, token>>
        /\ applied' = Append(applied, token)
    BY <1>5 DEF ApplyObject
  <2>2. buffer = <<>> /\ IsDocument(token)
    BY <2>1 DEF ScannerInv, ReaderInv
  <2>3. PICK n \in Nat : /\ DOMAIN applied = 1 .. n /\ DOMAIN applied' = 1 .. n + 1
                         /\ \A c \in 1 .. n : applied'[c] = applied[c]
                         /\ applied'[n + 1] = token
    <3>. DEFINE n == Len(applied)
    <3>1. /\ Append(applied, token) \in Seq(Seq(Nat))
          /\ Len(Append(applied, token)) = n + 1
          /\ \A c \in 1 .. n : Append(applied, token)[c] = applied[c]
          /\ Append(applied, token)[n + 1] = token
      BY <1>0, AppendProperties
    <3>. QED
      BY <1>0, <2>1, <3>1, LenProperties
  <2>4. \A c \in DOMAIN applied' : IsDocument(applied[c])'
    <3>1. \A c \in 1 .. n : IsDocument(applied[c])'
      BY <1>0, <2>3, DocumentStays DEF AppliedInv
    <3>2. IsDocument(applied[n + 1])'
      BY <1>0, <2>2, <2>3 DEF IsDocument, Collected
    <3>. QED
      BY <2>3, <3>1, <3>2
  <2>5. \A c \in DOMAIN applied' : \A j \in Range(applied'[c]) : j < pos
    <3>1. \A c \in 1 .. n : \A j \in Range(applied'[c]) : j < pos
      BY <2>3 DEF AppliedInv
    <3>2. \A j \in Range(applied'[n + 1]) : j < pos
      BY <1>0, <2>3
    <3>. QED
      BY <2>3, <3>1, <3>2
  <2>6. \A c, d \in DOMAIN applied' : c < d =>
          \A j \in Range(applied'[c]), k \in Range(applied'[d]) : j < k
    BY <2>1, <2>3 DEF AppliedInv
  <2>7. \A j \in TextLines : j < pos => \E c \in DOMAIN applied' : j \in Range(applied'[c])
    BY <2>1, <2>2, <2>3, RangeEmpty DEF AppliedInv
  <2>8. Range(buffer') = {}
    BY <2>1, <2>2, RangeEmpty
  <2>. QED
    BY <2>1, <2>4, <2>5, <2>6, <2>7, <2>8 DEF AppliedInv, TextLines
<1>6. CASE Rescan
  <2>1. pos' = 1 /\ applied' = <<>> /\ UNCHANGED file /\ DOMAIN applied' = {}
    BY <1>6 DEF Rescan
  <2>. QED
    BY <1>0, <2>1 DEF AppliedInv, TextLines
<1>7. CASE UNCHANGED vars
  BY <1>7 DEF vars, AppliedInv, IsDocument, Collected, TextLines
<1>. QED
  BY <1>1, <1>2, <1>3, <1>4, <1>5, <1>6, <1>7, Zenon DEF ScanStep, Scan

\* Two lines of text are in one document exactly when no separator is between
\* them.
LEMMA DocumentsAreSeparated ==
    ASSUME file \in BoundedSeq(Lines, MaxLines), NEW d, IsDocument(d),
           NEW j \in TextLines, NEW k \in TextLines, j <= k, j \in Range(d)
    PROVE  SameDocument(j, k) <=> k \in Range(d)
<1>1. Len(file) \in Nat /\ DOMAIN file = 1 .. Len(file)
  BY FileIsSeq
<1>2. PICK a, b \in DOMAIN file : /\ a <= b
                                  /\ Collected(d, a, b)
                                  /\ b = Len(file) \/ file[b + 1] = "sep"
  BY DEF IsDocument
<1>3. j \in 1 .. Len(file) /\ k \in 1 .. Len(file) /\ file[j] = "text" /\ file[k] = "text"
  BY <1>1 DEF TextLines
<1>4. ASSUME SameDocument(j, k)
      PROVE  k \in Range(d)
  <2>1. k <= b
    <3>. SUFFICES ASSUME k > b
                  PROVE  FALSE
      BY <1>1, <1>2, <1>3
    <3>1. b + 1 \in j .. k /\ file[b + 1] = "sep"
      BY <1>1, <1>2, <1>3 DEF Collected
    <3>. QED
      BY <1>4, <3>1 DEF SameDocument
  <2>. QED
    BY <1>1, <1>2, <1>3, <2>1 DEF Collected
<1>5. ASSUME k \in Range(d), NEW l \in j .. k
      PROVE  file[l] # "sep"
  <2>1. l \in a .. b /\ (l = a => l = j)
    BY <1>1, <1>2, <1>3, <1>5 DEF Collected
  <2>. QED
    BY <1>1, <1>2, <1>3, <2>1 DEF Collected
<1>. QED
  BY <1>4, <1>5 DEF SameDocument

\* At the end of the manifest, every line of text was applied.
LEMMA AllKept == ScannerInv /\ AppliedInv => DocumentsKept
<1>. SUFFICES ASSUME ScannerInv, AppliedInv, pc = "end"
              PROVE  /\ \A j, k \in TextLines : j <= k =>
                          (SameDocument(j, k) <=>
                             \E d \in Range(applied) : {j, k} \subseteq Range(d))
                     /\ \A c, d \in DOMAIN applied : c < d =>
                          \A j \in Range(applied[c]), k \in Range(applied[d]) : j < k
  BY DEF DocumentsKept
<1>1. /\ Len(file) \in Nat /\ DOMAIN file = 1 .. Len(file)
      /\ file \in BoundedSeq(Lines, MaxLines) /\ pos \in Nat
      /\ pos > Len(file) /\ Range(buffer) = {}
  BY FileIsSeq, RangeEmpty DEF ScannerInv, TypeOK, ReaderInv
<1>2. \A d \in Range(applied) : IsDocument(d)
  BY DEF Range, AppliedInv
<1>3. \A j \in TextLines : \E d \in Range(applied) : j \in Range(d)
  <2>. TAKE j \in TextLines
  <2>1. j < pos
    BY <1>1 DEF TextLines
  <2>2. PICK c \in DOMAIN applied : j \in Range(applied[c])
    BY <1>1, <2>1 DEF AppliedInv
  <2>3. applied[c] \in Range(applied)
    BY DEF Range
  <2>. QED
    BY <2>2, <2>3
<1>4. ASSUME NEW j \in TextLines, NEW k \in TextLines, j <= k
      PROVE  SameDocument(j, k) <=>
               \E d \in Range(applied) : {j, k} \subseteq Range(d)
  <2>1. ASSUME SameDocument(j, k)
        PROVE  \E d \in Range(applied) : {j, k} \subseteq Range(d)
    <3>1. PICK d \in Range(applied) : j \in Range(d)
      BY <1>3
    <3>2. k \in Range(d)
      BY <1>1, <1>2, <1>4, <2>1, <3>1, DocumentsAreSeparated
    <3>. QED
      BY <3>1, <3>2
  <2>2. ASSUME NEW d \in Range(applied), {j, k} \subseteq Range(d)
        PROVE  SameDocument(j, k)
    <3>1. j \in Range(d) /\ k \in Range(d) /\ IsDocument(d)
      BY <1>2, <2>2
    <3>. QED
      BY <1>1, <1>4, <3>1, DocumentsAreSeparated
  <2>. QED
    BY <2>1, <2>2
<1>. QED
  BY <1>4 DEF AppliedInv

\* createFromYAML applies every line of text of a manifest, with exactly the
\* lines that no separator keeps apart, in the order of the manifest
\* (resources.go:341).
THEOREM DocumentsAreKept == LoopSpec => []DocumentsKept
<1>1. LoopInit => ScannerInv /\ AppliedInv
  BY ReaderInit, AppliedInit DEF LoopInit
<1>. QED
  BY <1>1, AllKept, LoopScans, ReaderStep, AppliedStep, PTL DEF LoopSpec

\* The process exits at an object that cannot be unmarshalled only if the
\* manifest has a document without text (resources.go:364).
THEOREM ExitNeedsEmptyDocument == LoopSpec => []ExitsOnEmptyDocument
<1>1. LoopInit => ScannerInv
  BY ReaderInit DEF LoopInit
<1>2. ScannerInv => ExitsOnEmptyDocument
  <2>. SUFFICES ASSUME ScannerInv, pc = "exit"
                PROVE  \E j \in 0 .. Len(file), k \in 1 .. Len(file) + 1 :
                         /\ j < k
                         /\ j = 0 \/ file[j] = "sep"
                         /\ k = Len(file) + 1 \/ file[k] = "sep"
                         /\ (j + 1 .. k - 1) \cap TextLines = {}
                         /\ pos >= k
    BY DEF ExitsOnEmptyDocument
  <2>1. /\ Len(file) \in Nat /\ DOMAIN file = 1 .. Len(file)
        /\ pos \in 1 .. Len(file) + 1 /\ Range(token) \subseteq 1 .. pos - 1
    BY FileIsSeq DEF ScannerInv, TypeOK
  <2>2. PICK a, b \in DOMAIN file : /\ a <= b
                                    /\ Collected(token, a, b)
                                    /\ b = Len(file) \/ file[b + 1] = "sep"
    BY DEF ScannerInv, ReaderInv, IsDocument
  <2>3. \A l \in a .. b : file[l] # "text"
    <3>1. \A l \in Range(token) : file[l] # "text"
      BY DEF ScannerInv, ReaderInv, HasText, Range
    <3>. QED
      BY <2>2, <3>1 DEF Collected
  <2>4. b <= pos - 1
    BY <2>1, <2>2 DEF Collected
  <2>5. /\ a - 1 \in 0 .. Len(file) /\ b + 1 \in 1 .. Len(file) + 1 /\ a - 1 < b + 1
        /\ a - 1 = 0 \/ file[a - 1] = "sep"
        /\ b + 1 = Len(file) + 1 \/ file[b + 1] = "sep"
        /\ pos >= b + 1
    BY <2>1, <2>2, <2>4 DEF Collected
  <2>6. ((a - 1) + 1 .. (b + 1) - 1) \cap TextLines = {}
    BY <2>1, <2>2, <2>3 DEF TextLines
  <2>. QED
    BY <2>5, <2>6
<1>. QED
  BY <1>1, <1>2, LoopScans, ReaderStep, PTL DEF LoopSpec

(***************************************************************************)
(* The hooks.                                                              *)
(***************************************************************************)
HooksInv == HooksTypeOK /\ HooksCopyInv

\* A step of the loop is a step of the hooks or leaves them alone.
LEMMA LoopHooks == [LoopNext]_<<vars, hookVars>> => [H!Next]_hookVars
BY DEF LoopNext, Read, Unmarshal, Hook, Apply, ApplyFails, NextPass, H!Next

\* An object as it is in the manifest.
LEMMA FromManifest ==
    ASSUME NEW m \in Manifests
    PROVE  /\ m \in H!Objects
           /\ m.url = H!Placeholder /\ m.pass = H!Placeholder
           /\ [m EXCEPT !.url = H!Placeholder, !.pass = H!Placeholder] = m
<1>1. m \in H!Documents
  BY ManifestsAssumption
<1>2. H!Placeholder \in H!Values
  BY DEF H!Values
<1>. HIDE DEF H!Placeholder, H!Values
<1>3. m.url = H!Placeholder /\ m.pass = H!Placeholder
  BY <1>1 DEF H!Documents
<1>4. m \in H!Objects
  BY <1>1, <1>2 DEF H!Documents, H!Objects
<1>. QED
  BY <1>1, <1>3, <1>4 DEF H!Documents

\* At first there is an object of the manifest, and no copy of its containers.
LEMMA HooksInit == H!Init => HooksInv
<1>. SUFFICES ASSUME H!Init
              PROVE  HooksInv
  OBVIOUS
<1>1. obj \in H!Objects /\ {obj.url, obj.pass} \subseteq H!Values
      /\ [obj EXCEPT !.url = H!Placeholder, !.pass = H!Placeholder] \in Manifests
  BY FromManifest DEF H!Init, H!Values
<1>. QED
  BY <1>1, ManifestsAssumption
     DEF H!Init, HooksInv, HooksTypeOK, HooksCopyInv, H!TypeOK, H!CopyInv, H!Contents

\* An object whose place-holders are filled in is still one of the manifest.
LEMMA FilledIn ==
    ASSUME HooksInv, NEW url \in H!Values, NEW pass \in H!Values,
           obj' = [obj EXCEPT !.url = url, !.pass = pass]
    PROVE  /\ obj' \in H!Objects /\ obj'.url = url /\ obj'.pass = pass
           /\ [obj' EXCEPT !.url = H!Placeholder, !.pass = H!Placeholder] \in Manifests
           /\ obj'.kind = obj.kind /\ obj'.proxy = obj.proxy
           /\ obj'.callback = obj.callback /\ obj'.containers = obj.containers
<1>1. obj \in H!Objects
  BY DEF HooksInv, HooksCopyInv, H!CopyInv
<1>. DEFINE P == H!Placeholder
<1>2. [obj EXCEPT !.url = P, !.pass = P] \in Manifests
  BY DEF HooksInv, HooksTypeOK, H!TypeOK
<1>. HIDE DEF P
<1>3. /\ obj' \in H!Objects /\ obj'.url = url /\ obj'.pass = pass
      /\ obj'.kind = obj.kind /\ obj'.proxy = obj.proxy
      /\ obj'.callback = obj.callback /\ obj'.containers = obj.containers
  BY <1>1 DEF H!Objects
<1>4. [obj' EXCEPT !.url = P, !.pass = P] = [obj EXCEPT !.url = P, !.pass = P]
  BY <1>1 DEF H!Objects
<1>. QED
  BY <1>2, <1>3, <1>4 DEF P

\* Every step of the hooks keeps the types, and the copy that of the object.
LEMMA HooksStep == HooksInv /\ [H!Next]_hookVars => HooksInv'
<1>. SUFFICES ASSUME HooksInv, [H!Next]_hookVars
              PROVE  HooksInv'
  OBVIOUS
<1>. USE ManifestsAssumption DEF HooksInv, HooksTypeOK, HooksCopyInv
<1>1. CASE H!NextDocument
  <2>1. /\ obj' \in H!Objects /\ {obj'.url, obj'.pass} \subseteq H!Values
        /\ [obj' EXCEPT !.url = H!Placeholder, !.pass = H!Placeholder] \in Manifests
    BY <1>1, FromManifest DEF H!NextDocument, H!Values
  <2>2. /\ hook' \in {"proxy", "callback"} /\ containers' = <<>>
        /\ hook' = "proxy" => obj'.proxy
        /\ UNCHANGED <<secret, edition>>
    BY <1>1 DEF H!NextDocument
  <2>. QED
    BY <2>1, <2>2 DEF H!TypeOK, H!CopyInv
<1>2. CASE H!NestedSlice
  BY <1>2 DEF H!NestedSlice, H!TypeOK, H!CopyInv
<1>3. CASE H!OtherKind \/ H!NoContainers \/ H!SkipCallback \/ H!CallbackError
           \/ H!CallbackExit \/ H!CRUD \/ H!CRUDFails \/ H!Again
  <2>1. /\ UNCHANGED <<secret, edition, obj, containers>>
        /\ hook' \in {"callback", "exit", "crud", "error", "next"}
    BY <1>3 DEF H!OtherKind, H!NoContainers, H!SkipCallback, H!CallbackError,
                H!CallbackExit, H!CRUD, H!CRUDFails, H!Again
  <2>. QED
    BY <2>1 DEF H!TypeOK, H!CopyInv
<1>4. CASE H!setupContainersProxy
  <2>1. DOMAIN containers' = DOMAIN obj.containers /\ obj.proxy
    BY <1>4 DEF H!setupContainersProxy, H!CopyInv
  <2>. QED
    BY <1>4, <2>1 DEF H!setupContainersProxy, H!TypeOK, H!CopyInv
<1>5. CASE H!customGrafanaConfigMap
  <2>1. PICK url, pass \in H!Sources \cup {H!NoValue} :
          obj' = [obj EXCEPT !.url = url, !.pass = pass]
    BY <1>5 DEF H!customGrafanaConfigMap
  <2>2. url \in H!Values /\ pass \in H!Values
    BY DEF H!Values
  <2>3. hook' = "crud" /\ UNCHANGED <<secret, edition, containers>>
    BY <1>5 DEF H!customGrafanaConfigMap
  <2>4. /\ obj' \in H!Objects /\ obj'.url = url /\ obj'.pass = pass
        /\ [obj' EXCEPT !.url = H!Placeholder, !.pass = H!Placeholder] \in Manifests
        /\ obj'.proxy = obj.proxy /\ obj'.containers = obj.containers
    BY <2>1, <2>2, FilledIn
  <2>. QED
    BY <2>2, <2>3, <2>4 DEF H!TypeOK, H!CopyInv
<1>6. CASE H!SecretChanges
  BY <1>6 DEF H!SecretChanges, H!TypeOK, H!CopyInv
<1>7. CASE UNCHANGED hookVars
  BY <1>7 DEF hookVars, H!TypeOK, H!CopyInv
<1>. QED
  BY <1>1, <1>2, <1>3, <1>4, <1>5, <1>6, <1>7 DEF H!Next, H!beforeCRUDhooks

\* The object at hand is one of the manifest up to what a callback fills in,
\* and the copy of containers is one of this object.
THEOREM HooksTypeCorrect == LoopSpec => []HooksTypeOK
<1>1. LoopInit => HooksInv
  BY HooksInit DEF LoopInit
<1>2. HooksInv => HooksTypeOK
  BY DEF HooksInv
<1>. QED
  BY <1>1, <1>2, LoopHooks, HooksStep, PTL DEF LoopSpec

=============================================================================
