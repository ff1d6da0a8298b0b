----------------------------- MODULE JsonBlock ------------------------------
(***************************************************************************)
(* extract_json_block: the scanner that looks for the first balanced       *)
(* object in a model's answer, against a grammar of balanced objects.      *)
(*                                                                         *)
(* A character is one of the five classes the scanner tells apart.         *)
(***************************************************************************)
EXTENDS Integers, Sequences

CONSTANTS
    MaxLength,  \* longest text scanned
    Null

Char == {"open", "close", "quote", "escape", "other"}
Text == UNION {[1..n -> Char] : n \in 0..MaxLength}

ASSUME LengthAssumption == MaxLength \in Nat
ASSUME NullAssumption   == Null \notin Text

VARIABLES
    raw,        \* the text
    start,      \* position of its first "{", 0 before it is looked for
    index,      \* the character to be read
    depth, in_string, escape,
    pc,
    block       \* what is returned

vars == <<raw, start, index, depth, in_string, escape, pc, block>>

-----------------------------------------------------------------------------
(* The reference: what a balanced object is, as a grammar over the         *)
(* positions of a text.  Position Len(w) + 1 is the end of the text.  A    *)
(* backslash matters inside a string only, and a brace outside strings     *)
(* only.  The grammar keeps no depth and no flags.                         *)

Positions(w) == 1..(Len(w) + 1)

\* The positions k such that w from i up to k, without k, may be the inside of
\* a string literal; f tells the same for the positions after i.
InsideAt(w, f, i) ==
    {k \in i..(Len(w) + 1) :
        \/ k = i
        \/ i <= Len(w) /\ w[i] \notin {"quote", "escape"} /\ k \in f[i + 1]
        \/ i <  Len(w) /\ w[i] = "escape" /\ k \in f[i + 2]}

Inside(w) == LET f[i \in Positions(w)] == InsideAt(w, f, i) IN f

\* The positions k such that w from i up to k, without k, is balanced: it may
\* stand between two braces.  f tells the same for the positions after i.
BalancedAt(w, f, i) ==
    {k \in i..(Len(w) + 1) :
        \/ k = i
        \/ i <= Len(w) /\ w[i] \in {"other", "escape"} /\ k \in f[i + 1]
        \/ \E j \in (i + 1)..Len(w) :
              /\ w[i] = "quote" /\ w[j] = "quote" /\ j \in Inside(w)[i + 1]
              /\ k \in f[j + 1]
        \/ \E j \in (i + 1)..Len(w) :
              /\ w[i] = "open" /\ w[j] = "close" /\ j \in f[i + 1]
              /\ k \in f[j + 1]}

Balanced(w) == LET f[i \in Positions(w)] == BalancedAt(w, f, i) IN f

\* The ends of the balanced objects that begin at position i.
Ends(w, i) == {k \in (i + 1)..Len(w) :
                  w[i] = "open" /\ w[k] = "close" /\ k \in Balanced(w)[i + 1]}

-----------------------------------------------------------------------------
Init ==
    /\ raw       \in Text
    /\ start     = 0
    /\ index     = 1
    /\ depth     = 0
    /\ in_string = FALSE
    /\ escape    = FALSE
    /\ pc        = "find"
    /\ block     = Null

Opens == {i \in DOMAIN raw : raw[i] = "open"}

\* (A mistake the runs catch: the scan starts after the brace it found.)
FindPastBrace ==
    /\ pc = "find"
    /\ IF Opens = {}
         THEN pc' = "done" /\ UNCHANGED <<start, index>>
         ELSE /\ pc'    = "scan"
              /\ start' = CHOOSE i \in Opens : \A j \in Opens : i <= j
              /\ index' = start' + 1
    /\ UNCHANGED <<raw, depth, in_string, escape, block>>

\* An empty text is left at once, and so is a text without a "{".
Find ==
    /\ pc = "find"
    /\ IF Opens = {}
         THEN pc' = "done" /\ UNCHANGED <<start, index>>
         ELSE /\ pc'    = "scan"
              /\ start' = CHOOSE i \in Opens : \A j \in Opens : i <= j
              /\ index' = start'
    /\ UNCHANGED <<raw, depth, in_string, escape, block>>

Reading == pc = "scan" /\ index \in DOMAIN raw
Advance == index' = index + 1

\* (A mistake the runs catch: an escaped quote ends the string.)
ScanStringNoEscape ==
    /\ Reading
    /\ in_string
    /\ escape'    = FALSE
    /\ in_string' = (raw[index] # "quote")
    /\ Advance
    /\ UNCHANGED <<raw, start, depth, pc, block>>

ScanString ==
    /\ Reading
    /\ in_string
    /\ escape'    = (~escape /\ raw[index] = "escape")
    /\ in_string' = (escape \/ raw[index] # "quote")
    /\ Advance
    /\ UNCHANGED <<raw, start, depth, pc, block>>

Closing == Reading /\ ~in_string /\ raw[index] = "close" /\ depth = 1

\* (A mistake the runs catch: a backslash escapes outside strings too.)
ScanOutsideEscaping ==
    /\ Reading
    /\ ~in_string
    /\ ~Closing
    /\ escape' = (~escape /\ raw[index] = "escape")
    /\ in_string' = (~escape /\ raw[index] = "quote")
    /\ depth' = CASE escape                -> depth
                  [] raw[index] = "open"  -> depth + 1
                  [] raw[index] = "close" -> depth - 1
                  [] OTHER                -> depth
    /\ Advance
    /\ UNCHANGED <<raw, start, pc, block>>

ScanOutside ==
    /\ Reading
    /\ ~in_string
    /\ ~Closing
    /\ in_string' = (raw[index] = "quote")
    /\ depth' = CASE raw[index] = "open"  -> depth + 1
                  [] raw[index] = "close" -> depth - 1
                  [] OTHER                -> depth
    /\ Advance
    /\ UNCHANGED <<raw, start, escape, pc, block>>

\* (A mistake the runs catch: everything up to the last "}" is returned.)
CloseBlockGreedy ==
    /\ Closing
    /\ depth' = 0
    /\ block' = SubSeq(raw, start, CHOOSE i \in DOMAIN raw :
                    /\ raw[i] = "close"
                    /\ \A j \in DOMAIN raw : raw[j] = "close" => j <= i)
    /\ pc'    = "done"
    /\ UNCHANGED <<raw, start, index, in_string, escape>>

CloseBlock ==
    /\ Closing
    /\ depth' = 0
    /\ block' = SubSeq(raw, start, index)
    /\ pc'    = "done"
    /\ UNCHANGED <<raw, start, index, in_string, escape>>

\* (A mistake the runs catch: an unfinished object is returned as it is.)
EndOfTextPartial ==
    /\ pc = "scan"
    /\ index \notin DOMAIN raw
    /\ pc'    = "done"
    /\ block' = SubSeq(raw, start, Len(raw))
    /\ UNCHANGED <<raw, start, index, depth, in_string, escape>>

EndOfText ==
    /\ pc = "scan"
    /\ index \notin DOMAIN raw
    /\ pc' = "done"
    /\ UNCHANGED <<raw, start, index, depth, in_string, escape, block>>

Returned == pc = "done" /\ UNCHANGED vars

Next == Find \/ ScanString \/ ScanOutside \/ CloseBlock \/ EndOfText \/ Returned
Spec == Init /\ [][Next]_vars

-----------------------------------------------------------------------------
(* Properties.                                                             *)

\* Every variable stays in its domain: the depth of extract_json_block is never
\* negative, and what it returns is a part of the text.
TypeOK ==
    /\ raw       \in Text
    /\ start     \in 0..MaxLength
    /\ index     \in 1..(MaxLength + 1)
    /\ depth     \in 0..MaxLength
    /\ in_string \in BOOLEAN
    /\ escape    \in BOOLEAN
    /\ pc        \in {"find", "scan", "done"}
    /\ block     \in Text \cup {Null}

\* The scanner finds a balanced object exactly if one begins at the first "{",
\* and it returns that object: no brace or quote inside a string, no escape and
\* no text before or after the object misleads it.
FindsFirstObject ==
    pc = "done" =>
        IF Opens = {} \/ Ends(raw, start) = {}
          THEN block = Null
          ELSE \E j \in Ends(raw, start) : block = SubSeq(raw, start, j)

\* An answer that was cut off is never taken for a complete one: had the text
\* ended anywhere before the end of what is returned, no object would have
\* been found at its first brace.
TruncatedGivesNothing ==
    pc = "done" /\ block # Null =>
        \A n \in start..(start + Len(block) - 2) : Ends(SubSeq(raw, 1, n), start) = {}

\* The braces opened so far that are not closed before the character to be read.
Unclosed == {i \in start..(index - 1) : raw[i] = "open" /\ \A k \in Ends(raw, i) : k >= index}

\* p[1], ..., p[n] are the braces around position q of w, the outermost first:
\* what stands between one and the next, and between the last and q, is balanced.
Around(w, p, n, q) ==
    /\ \A m \in 1..(n - 1) : p[m + 1] \in Balanced(w)[p[m] + 1]
    /\ q \in Balanced(w)[p[n] + 1]

\* Position i of w is inside the string literal that begins at q, right after
\* a backslash that escapes it if escaped.
InString(w, q, i, escaped) ==
    /\ q < i
    /\ w[q] = "quote"
    /\ IF escaped THEN i - 1 \in Inside(w)[q + 1] /\ w[i - 1] = "escape"
                  ELSE i \in Inside(w)[q + 1]

\* While the scan goes on, the character to be read has exactly depth braces
\* around it, the first "{" outermost, that the text read so far opens and does
\* not close, and it is inside a string exactly if in_string says so.
PrefixIsOpen ==
    pc = "scan" /\ index > start =>
        /\ depth > 0
        /\ \E p \in [1..depth -> Unclosed], q \in (start + 1)..index :
              /\ p[1] = start
              /\ IF in_string THEN InString(raw, q, index, escape) ELSE q = index
              /\ Around(raw, p, depth, q)

\* What the loop of extract_json_block maintains, an inductive invariant: until
\* it returns, the prefix is open and the depth no more than what was read; what
\* it returns ends where the first "{" is closed first.
IInv ==
    /\ TypeOK
    /\ PrefixIsOpen
    /\ escape => in_string
    /\ pc = "find" => depth = 0 /\ ~in_string /\ block = Null
    /\ pc = "scan" =>
         /\ block = Null
         /\ start \in Opens
         /\ index \in start..(Len(raw) + 1)
         /\ depth <= index - start
         /\ index = start => depth = 0 /\ ~in_string
    /\ pc = "done" =>
         \/ Opens = {} /\ block = Null
         \/ start \in Opens /\ Ends(raw, start) = {} /\ block = Null
         \/ /\ start \in Opens
            /\ \E e \in Ends(raw, start) :
                 block = SubSeq(raw, start, e) /\ \A k \in Ends(raw, start) : e <= k
=============================================================================
