------------------------------ MODULE JsonText ------------------------------
(***************************************************************************)
(* What chat_json_parse_object (common/utils.c) checks before it gives a   *)
(* payload to cJSON: valid_utf8, and a scan that bounds the nesting and    *)
(* keeps NULs out.  The browsers of all other users are disconnected by a  *)
(* frame that is not UTF-8, and the parser recurses on the HTTPD stack, so *)
(* both are compared with definitions written in another way.              *)
(***************************************************************************)
EXTENDS Integers, FiniteSets, Sequences

CONSTANT MAX_JSON_NESTING_DEPTH

ASSUME NestingAssumption == MAX_JSON_NESTING_DEPTH \in Nat \ {0}

-----------------------------------------------------------------------------
(* valid_utf8 on a sequence of bytes *)

\* How many bytes follow a first byte; -1 if no character begins with it.
More(b) ==
    CASE b < 128 -> 0
      [] b \in 194..223 -> 1
      [] b \in 224..239 -> 2
      [] b \in 240..244 -> 3
      [] OTHER -> -1
FirstBits(b) == CASE More(b) = 1 -> b % 32 [] More(b) = 2 -> b % 16 [] OTHER -> b % 8
Minimum(b) == CASE More(b) = 1 -> 128 [] More(b) = 2 -> 2048 [] OTHER -> 65536

\* The loop over the bytes that follow, which are three at most.
Shifted(c, b) == (c * 64) + (b % 64)
CodePoint(s, i) ==
    LET one == Shifted(FirstBits(s[i]), s[i + 1])
        two == Shifted(one, s[i + 2])
    IN  CASE More(s[i]) = 1 -> one
          [] More(s[i]) = 2 -> two
          [] OTHER -> Shifted(two, s[i + 3])

\* A Bad... definition is a plausible bug in the one after it.
BadCharacterAt(s, i) ==
    /\ More(s[i]) # -1
    /\ i + More(s[i]) <= Len(s)
    /\ \A j \in (i + 1)..(i + More(s[i])) : s[j] \div 64 = 2
    /\ More(s[i]) > 0 =>
         CodePoint(s, i) >= Minimum(s[i]) /\ CodePoint(s, i) <= 1114111
CharacterAt(s, i) ==
    /\ More(s[i]) # -1
    /\ i + More(s[i]) <= Len(s)
    /\ \A j \in (i + 1)..(i + More(s[i])) : s[j] \div 64 = 2
    /\ More(s[i]) > 0 =>
         /\ CodePoint(s, i) >= Minimum(s[i]) /\ CodePoint(s, i) <= 1114111
         /\ CodePoint(s, i) \notin 55296..57343

ValidUtf8(s) ==
    LET From[i \in 1..(Len(s) + 1)] ==
            i > Len(s) \/ (CharacterAt(s, i) /\ From[i + More(s[i]) + 1])
    IN  From[1]

\* The syntax of UTF-8 (RFC 3629): the ranges of the bytes of a character.
TailByte == 128..191
Characters ==
    {<<0..127>>, <<194..223, TailByte>>,
     <<{224}, 160..191, TailByte>>, <<225..236, TailByte, TailByte>>,
     <<{237}, 128..159, TailByte>>, <<238..239, TailByte, TailByte>>,
     <<{240}, 144..191, TailByte, TailByte>>, <<241..243, TailByte, TailByte, TailByte>>,
     <<{244}, 128..143, TailByte, TailByte>>}
IsCharacter(s) ==
    \E c \in Characters : Len(c) = Len(s) /\ \A i \in 1..Len(s) : s[i] \in c[i]

\* A text is cut into characters: B is where they end.
WellFormed(s) ==
    \E B \in SUBSET (0..Len(s)) :
        /\ {0, Len(s)} \subseteq B
        /\ \A a, b \in B :
              (a < b /\ \A m \in B : m <= a \/ m >= b) => IsCharacter(SubSeq(s, a + 1, b))

-----------------------------------------------------------------------------
(* The scan, on letters: "open" and "close" stand for either bracket,       *)
(* "tab" for TAB, LF or CR, "control" for any other control character,      *)
(* "u0000" for these five characters, "other" for one JSON lets follow a    *)
(* backslash.                                                               *)

Letters == {"open", "close", "quote", "backslash", "u0000", "nul", "tab", "control",
            "other"}
Start == [ok |-> TRUE, inString |-> FALSE, skip |-> FALSE, depth |-> 0]

\* One turn of the loop; skip: a backslash has taken this letter with it.
BadScanned(r, ch) ==
    CASE ch = "nul" -> [r EXCEPT !.ok = FALSE]
      [] ch # "nul" /\ r.inString -> [r EXCEPT !.inString = ch # "quote",
                                               !.ok = @ /\ ch \notin {"tab", "control"}]
      [] ch = "quote" /\ ~ r.inString -> [r EXCEPT !.inString = TRUE]
      [] ch = "open" /\ ~ r.inString ->
           [r EXCEPT !.depth = @ + 1, !.ok = @ /\ r.depth < MAX_JSON_NESTING_DEPTH]
      [] ch = "close" /\ ~ r.inString -> [r EXCEPT !.depth = @ - 1, !.ok = @ /\ r.depth > 0]
      [] OTHER -> r
Scanned(r, ch) ==
    CASE r.skip -> [r EXCEPT !.skip = FALSE, !.ok = @ /\ ch # "u0000"]
      [] ~ r.skip /\ ch = "nul" -> [r EXCEPT !.ok = FALSE]
      [] ~ r.skip /\ r.inString /\ ch # "nul" ->
           [r EXCEPT !.inString = ch # "quote", !.skip = ch = "backslash",
                     !.ok = @ /\ ch \notin {"tab", "control"}]
      [] ch = "quote" /\ ~ r.inString -> [r EXCEPT !.inString = TRUE]
      [] ch = "open" /\ ~ r.inString ->
           [r EXCEPT !.depth = @ + 1, !.ok = @ /\ r.depth < MAX_JSON_NESTING_DEPTH]
      [] ch = "close" /\ ~ r.inString -> [r EXCEPT !.depth = @ - 1, !.ok = @ /\ r.depth > 0]
      [] OTHER -> [r EXCEPT !.ok = @ /\ ch # "control"]

\* The state of the loop after each number of turns.
Scan(s) ==
    LET After[i \in 0..Len(s)] ==
            IF i = 0 THEN Start ELSE Scanned(After[i - 1], s[i])
    IN  After

PassesScan(s) ==
    LET r == Scan(s)[Len(s)]
    IN  s # <<>> /\ r.ok /\ ~ r.skip /\ ~ r.inString /\ r.depth = 0

\* The reference counts.  A letter is escaped after an odd run of backslashes,
\* and stands in a string after an odd number of quotes that are not escaped.
Escaped(s, i) ==
    \E n \in 0..(i - 1) :
        /\ n % 2 = 1
        /\ \A j \in (i - n)..(i - 1) : s[j] = "backslash"
        /\ i - n = 1 \/ s[i - n - 1] # "backslash"
Quotes(s, i) == Cardinality({j \in 1..i : s[j] = "quote" /\ ~ Escaped(s, j)})
Quoted(s, i) == Quotes(s, i - 1) % 2 = 1
Count(s, ch, i) == Cardinality({j \in 1..i : s[j] = ch /\ ~ Quoted(s, j)})
Nesting(s, i) == Count(s, "open", i) - Count(s, "close", i)

\* cJSON refuses a backslash outside a string and an escape it does not know.
Readable(s) ==
    \A i \in DOMAIN s :
        /\ s[i] = "backslash" => Quoted(s, i)
        /\ Escaped(s, i) => s[i] \in {"quote", "backslash", "u0000", "other"}

\* No decoded NUL, no control character but white space between strings, brackets that match and nest no
\* deeper than the limit, and strings that end.
Harmless(s) ==
    /\ s # <<>>
    /\ \A i \in DOMAIN s :
          /\ s[i] \notin {"nul", "control"}
          /\ ~ (s[i] = "u0000" /\ Escaped(s, i))
          /\ ~ (s[i] = "tab" /\ Quoted(s, i))
          /\ Nesting(s, i) \in 0..MAX_JSON_NESTING_DEPTH
    /\ Nesting(s, Len(s)) = 0
    /\ Quotes(s, Len(s)) % 2 = 0
=============================================================================
