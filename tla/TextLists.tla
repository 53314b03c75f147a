------------------------------ MODULE TextLists ------------------------------
(* What StringVector and StringBuffer promise: a vector is a list of texts of   *)
(* its own, a buffer a text of its own, whatever arrays and blocks hold them.   *)
(* One operation breaks the promise: a list that is assigned to itself.         *)
EXTENDS Integers, Sequences

CONSTANTS Vectors, Buffers, Texts

VARIABLES list, text,
          gone      \* the program has died

vars == <<list, text, gone>>

Init == list = [v \in Vectors |-> <<>>] /\ text = [b \in Buffers |-> <<>>] /\ gone = FALSE

\* t has the texts of s in another order
Permutes(s, t) ==
  \E p \in [1..Len(s) -> 1..Len(s)] :
     /\ \A i, j \in 1..Len(s) : p[i] = p[j] => i = j
     /\ t = [i \in 1..Len(s) |-> s[p[i]]]

Prefix(s) == SubSeq(s, 1, Len(s) - 1)

\* one list changes: it grows, shrinks, is copied over, has a text replaced or is reordered
Change(v) ==
  /\ UNCHANGED text /\ list' = [list EXCEPT ![v] = list'[v]]
  /\ \/ list'[v] \in {<<>>, Prefix(list[v])} \cup {Append(list[v], t) : t \in Texts}
     \/ \E o \in Vectors : list'[v] \in {list[o], list[v] \o list[o]}
     \/ \E t \in Texts, i \in 1..Len(list[v]) : list'[v] = [list[v] EXCEPT ![i] = t]
     \/ Permutes(list[v], list'[v])

\* one text changes: it grows, loses its last character or is set
Write(b) ==
  /\ UNCHANGED list /\ text' = [text EXCEPT ![b] = text'[b]]
  /\ text'[b] \in {<<>>, Prefix(text[b])} \cup {text[b] \o t : t \in Texts} \cup Texts

\* ownership passes: the source is left empty
Move ==
  \/ \E v, o \in Vectors : v # o /\ list' = [list EXCEPT ![v] = @ \o list[o], ![o] = <<>>] /\ UNCHANGED text
  \/ \E b, o \in Buffers : b # o /\ text' = [text EXCEPT ![b] = text[o], ![o] = <<>>] /\ UNCHANGED list
  \/ \E v \in Vectors, b \in Buffers :
       list' = [list EXCEPT ![v] = Append(@, text[b])] /\ text' = [text EXCEPT ![b] = <<>>]

Step == (\E v \in Vectors : Change(v)) \/ (\E b \in Buffers : Write(b)) \/ Move

\* a list that is assigned to itself loses its texts, and the program dies of it
Die(v) ==
  /\ list[v] # <<>> /\ gone' = TRUE /\ UNCHANGED text
  /\ list' = [list EXCEPT ![v] = [i \in 1..Len(@) |-> <<>>]]

Next == ~gone /\ ((Step /\ UNCHANGED gone) \/ \E v \in Vectors : Die(v))

Spec == Init /\ [][Next]_vars
=============================================================================
