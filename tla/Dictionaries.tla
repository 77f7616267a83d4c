---------------------------- MODULE Dictionaries -----------------------------
(***************************************************************************)
(* Loading a dictionary (src/dict_load.cpp, src/dicts): fscanf takes a key *)
(* of at most as many letters as the dictionary has, and a number; what it *)
(* makes of a line that is not of this form is the C library's choice.     *)
(*                                                                         *)
(* A file is a sequence of words: a text, or a number, whose text is       *)
(* empty.  A text has neither digits nor signs, so it ends where a number  *)
(* begins: whether there is white space between the two does not matter to *)
(* fscanf, which takes no more letters for a key than the dictionary has.  *)
(* "ABC5" and "ABC 5" are the same two words, and "ABCD5" and "ABCD 5" are *)
(* refused alike.                                                          *)
(***************************************************************************)
EXTENDS Integers, Sequences, FiniteSetsExt

CONSTANT Alphabet    \* letters; any other symbol of a text is foreign

Words == [text : Seq(STRING), num : Int]
NumberWord(w) == w.text = << >>

Width(dict) == CASE dict = "tri" -> 3 [] dict = "bi" -> 2 [] dict = "uni" -> 1

VARIABLES
  tables,    \* tridict, bidict, unidict: the entries that have been set
  dict,      \* the dictionary being loaded, or "none"
  rest,      \* the part of its file not yet read
  value      \* the number read last; a line without one leaves it

dictVars == << tables, dict, rest, value >>

\* Mutant: the first line of a file can take the last number of the file before.
MutantOpened(d, file) == dict' = d /\ rest' = file /\ UNCHANGED value

Opened(d, file) == dict' = d /\ rest' = file /\ value' = 0

\* A short key has the zero behind its last letter checked.
Rejects(key) == \/ Len(key) # Width(dict)
                \/ \E i \in DOMAIN key : key[i] \notin Alphabet

\* "%Ns": the first letters of the word, the others stay to be read
KeyRead == SubSeq(Head(rest).text, 1, Min({Width(dict), Len(Head(rest).text)}))
BehindKey ==
  LET left == SubSeq(Head(rest).text, Width(dict) + 1, Len(Head(rest).text))
  IN IF left = << >> THEN Tail(rest)
     ELSE << [Head(rest) EXCEPT !.text = left] >> \o Tail(rest)

\* The entry of the key is set, whether it has been or not.
Stored(table, key, number) ==
  [k \in DOMAIN table \cup {key} |-> IF k = key THEN number ELSE table[k]]

\* A line read and stored.  "%d" takes the next word only if it is a number.
read_line ==
  LET number == BehindKey # << >> /\ NumberWord(Head(BehindKey))
  IN /\ dict # "none" /\ rest # << >> /\ ~ Rejects(KeyRead)
     /\ value' = IF number THEN Head(BehindKey).num ELSE value
     /\ rest'  = IF number THEN Tail(BehindKey) ELSE BehindKey
     /\ tables' = [tables EXCEPT ![dict] = Stored(@, KeyRead, value')]
     /\ UNCHANGED dict

\* The line that ends the program
IllegalLine == dict # "none" /\ rest # << >> /\ Rejects(KeyRead)

EndOfFile == dict # "none" /\ rest = << >>

-----------------------------------------------------------------------------
(* What a file says.                                                       *)

\* A file of whole keys, each with a number behind it or with none
Readable(d, file) ==
  \A p \in DOMAIN file :
    IF NumberWord(file[p]) THEN p > 1 /\ ~ NumberWord(file[p - 1])
    ELSE Len(file[p].text) = Width(d) /\ \A q \in 1 .. Width(d) : file[p].text[q] \in Alphabet

\* The last number up to a word of the file; before the first one, zero
LastNumber(file, p) ==
  LET numbers == {q \in DOMAIN file : q <= p /\ NumberWord(file[q])}
  IN IF numbers = {} THEN 0 ELSE file[Max(numbers)].num

\* The last line with a key counts.  Its number is the one behind the key or, if
\* there is none, that of a line before it in the same file.
Written(file) ==
  LET keys == {p \in DOMAIN file : ~ NumberWord(file[p])}
      last(key) == Max({p \in keys : file[p].text = key})
  IN [key \in {file[p].text : p \in keys} |-> LastNumber(file, last(key) + 1)]
=============================================================================
