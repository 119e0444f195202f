---------------------------- MODULE YamlScanner ----------------------------
(***************************************************************************)
(* The split of a manifest into documents: yamlutil.Scanner over the       *)
(* YAMLReader of apimachinery, and the loop of createFromYAML that         *)
(* consumes it.  A manifest is a sequence of lines, each a separator       *)
(* ("---"), text, or blank (nothing or only a comment).  A token is kept   *)
(* as the numbers of its lines.                                            *)
(***************************************************************************)
EXTENDS Integers, Sequences, SequencesExt

CONSTANT MaxLines       \* bound on the lines of a manifest

ASSUME LinesAssumption == MaxLines \in Nat

Lines == {"sep", "text", "blank"}

VARIABLES
    file,       \* the manifest
    pos,        \* the line that LineReader returns next
    buffer,     \* lines that YAMLReader.Read has collected
    token,      \* Scanner.token
    applied,    \* tokens that createFromYAML has turned into objects
    pc          \* "scan", "token", "object", "end" (Scan is false), "error" or
                \* "exit"

vars == <<file, pos, buffer, token, applied, pc>>

Init ==
    /\ file \in BoundedSeq(Lines, MaxLines)
    /\ pos = 1
    /\ buffer = <<>> /\ token = <<>> /\ applied = <<>>
    /\ pc = "scan"

\* Read returns the collected lines, and Scan is true.
Yield ==
    /\ token' = buffer
    /\ buffer' = <<>>
    /\ pc' = "token"

\* Mutant: an empty line ends a document too.
EndsAtBlank(line) == line # "text"

\* Lines that end a document.
IsSeparator(line) == line = "sep"

\* Mutant: the line is only peeked at.
ReadLineAgain ==
    /\ pc = "scan"
    /\ pos <= Len(file)
    /\ ~IsSeparator(file[pos]) \/ buffer = <<>>
    /\ buffer' = Append(buffer, pos)
    /\ UNCHANGED <<file, pos, token, applied, pc>>

\* A line is collected; so is a separator when nothing was collected yet.
ReadLine ==
    /\ pc = "scan"
    /\ pos <= Len(file)
    /\ ~IsSeparator(file[pos]) \/ buffer = <<>>
    /\ buffer' = Append(buffer, pos)
    /\ pos' = pos + 1
    /\ UNCHANGED <<file, token, applied, pc>>

ReadSeparator ==
    /\ pc = "scan"
    /\ pos <= Len(file)
    /\ IsSeparator(file[pos]) /\ buffer # <<>>
    /\ Yield
    /\ pos' = pos + 1
    /\ UNCHANGED <<file, applied>>

\* Mutant: at the end of the input, what was collected is dropped.
EofDrops ==
    /\ pc = "scan"
    /\ pos > Len(file)
    /\ pc' = "end"
    /\ UNCHANGED <<file, pos, buffer, token, applied>>

\* io.EOF: the last document needs no separator.
Eof ==
    /\ pc = "scan"
    /\ pos > Len(file)
    /\ IF buffer # <<>> THEN Yield
                        ELSE pc' = "end" /\ UNCHANGED <<buffer, token>>
    /\ UNCHANGED <<file, pos, applied>>

HasText(lines) == \E k \in DOMAIN lines : file[lines[k]] = "text"

\* yamlSpec becomes obj.
CreateObject ==
    /\ pc = "token"
    /\ HasText(token)
    /\ pc' = "object"
    /\ UNCHANGED <<file, pos, buffer, token, applied>>

\* A template that cannot be parsed (a panic) or filled in, or a text that is
\* no YAML: the pass ends.
CannotRender ==
    /\ pc = "token"
    /\ HasText(token)
    /\ pc' = "error"
    /\ UNCHANGED <<file, pos, buffer, token, applied>>

\* A document without text is null in JSON, has no kind, and exits.
CannotUnmarshal ==
    /\ pc = "token"
    /\ ~HasText(token)
    /\ pc' = "exit"
    /\ UNCHANGED <<file, pos, buffer, token, applied>>

\* The object went through the hooks and CRUD.
ApplyObject ==
    /\ pc = "object"
    /\ applied' = Append(applied, token)
    /\ pc' = "scan"
    /\ UNCHANGED <<file, pos, buffer, token>>

\* The next pass has a new Scanner.
Rescan ==
    /\ pos' = 1
    /\ buffer' = <<>> /\ token' = <<>> /\ applied' = <<>>
    /\ pc' = "scan"
    /\ UNCHANGED file

Scan == ReadLine \/ ReadSeparator \/ Eof \/ CannotRender \/ CannotUnmarshal

Next ==
    \/ Scan \/ CreateObject \/ ApplyObject
    \/ pc \in {"end", "error", "exit"} /\ Rescan

Spec == Init /\ [][Next]_vars

-----------------------------------------------------------------------------
\* Every variable has its type, and the tokens are of lines that were read.
TypeOK ==
    /\ file \in BoundedSeq(Lines, MaxLines)
    /\ pos \in 1 .. Len(file) + 1
    /\ Range(buffer) \cup Range(token) \subseteq 1 .. pos - 1
    /\ pc \in {"scan", "token", "object", "end", "error", "exit"}

TextLines == {k \in DOMAIN file : file[k] = "text"}

SameDocument(j, k) == \A l \in j .. k : file[l] # "sep"

(***************************************************************************)
(* When createFromYAML has scanned a manifest (resources.go:341), every    *)
(* line of text is in an object that was applied, two lines are in the     *)
(* same object exactly when no separator is between them, and the objects  *)
(* were applied in the order of the manifest, on which the recipes rely.   *)
(***************************************************************************)
DocumentsKept ==
    pc = "end" =>
      /\ \A j, k \in TextLines : j <= k =>
           (SameDocument(j, k) <=>
              \E d \in Range(applied) : {j, k} \subseteq Range(d))
      /\ \A c, d \in DOMAIN applied : c < d =>
           \A j \in Range(applied[c]), k \in Range(applied[d]) : j < k

(***************************************************************************)
(* The exit at an object that cannot be unmarshalled (resources.go:364)    *)
(* means that the manifest has a document without text: two separators in  *)
(* a row, a comment before the first one, an empty line after the last.    *)
(***************************************************************************)
ExitsOnEmptyDocument ==
    pc = "exit" =>
      \E j \in 0 .. Len(file), k \in 1 .. Len(file) + 1 :
        /\ j < k
        /\ j = 0 \/ file[j] = "sep"
        /\ k = Len(file) + 1 \/ file[k] = "sep"
        /\ (j + 1 .. k - 1) \cap TextLines = {}
        /\ pos >= k

-----------------------------------------------------------------------------
(***************************************************************************)
(* Inductive strengthenings.                                               *)
(***************************************************************************)

\* Lines a to b, collected after a separator or from the beginning: only the
\* first of them may be one.
Collected(lines, a, b) ==
    /\ Range(lines) = a .. b
    /\ a = 1 \/ file[a - 1] = "sep"
    /\ \A l \in a + 1 .. b : file[l] # "sep"

\* The lines reach up to the next separator, or to the end.
IsDocument(lines) ==
    \E a, b \in DOMAIN file :
      /\ a <= b
      /\ Collected(lines, a, b)
      /\ b = Len(file) \/ file[b + 1] = "sep"

\* The reader is at the beginning of a document or in the middle of one.
ReaderInv ==
    /\ buffer \in Seq(Nat) /\ token \in Seq(Nat) /\ applied \in Seq(Seq(Nat))
    /\ IF buffer = <<>> THEN pos = 1 \/ pos > Len(file) \/ file[pos - 1] = "sep"
                        ELSE \E a \in 1 .. pos - 1 : Collected(buffer, a, pos - 1)
    /\ pc \in {"token", "object", "error", "exit"} => buffer = <<>> /\ IsDocument(token)
    /\ pc = "exit" => ~HasText(token)
    /\ pc = "end" => buffer = <<>> /\ pos > Len(file)

\* Tokens are documents, applied in their order before what is at hand, and no
\* text that was read is lost.
AppliedInv ==
    /\ \A c \in DOMAIN applied : IsDocument(applied[c])
    /\ \A c \in DOMAIN applied : \A j \in Range(applied[c]) :
         /\ j < pos
         /\ \A k \in Range(buffer) : j < k
         /\ pc \in {"token", "object"} => \A k \in Range(token) : j < k
    /\ \A c, d \in DOMAIN applied : c < d =>
         \A j \in Range(applied[c]), k \in Range(applied[d]) : j < k
    /\ \A j \in TextLines : j < pos =>
         \/ j \in Range(buffer)
         \/ pc \in {"token", "object", "error", "exit"} /\ j \in Range(token)
         \/ \E c \in DOMAIN applied : j \in Range(applied[c])

=============================================================================
