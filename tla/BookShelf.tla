----------------------------- MODULE BookShelf ------------------------------
(***************************************************************************)
(* What the library store promises about a person's books, whatever scans, *)
(* evidence and roots are behind it (ADR-0005):                            *)
(*                                                                         *)
(*   - a book, once known, stays known, and a place holds one book;        *)
(*   - a book changes place only by a diff that was recorded as relinkable *)
(*     and open for review in an earlier step;                             *)
(*   - a diff is decided once, and its content never changes;              *)
(*   - a mark (a favorite, a recent) is changed only by marking, never by  *)
(*     shelving, reviewing or relinking.                                   *)
(***************************************************************************)
CONSTANTS Book, Place, DiffId, Mark, NoBook, NoDiff

VARIABLES
    books,     \* the books known so far
    shelf,     \* place -> the book there, or NoBook
    diff,      \* diff id -> its content, or NoDiff
    decided,   \* diff id -> "open", "relinked" or "dismissed"
    marks      \* mark -> the books that carry it

vars == <<books, shelf, diff, decided, marks>>

Diff == [book : Book, from : Place, to : Place, relinkable : BOOLEAN]

Init ==
    /\ books = {}
    /\ shelf = [pl \in Place |-> NoBook]
    /\ diff = [id \in DiffId |-> NoDiff]
    /\ decided = [id \in DiffId |-> "open"]
    /\ marks = [m \in Mark |-> {}]

Learn(b) ==
    /\ books' = books \union {b}
    /\ UNCHANGED <<shelf, diff, decided, marks>>

Shelve(b, pl) ==
    /\ shelf[pl] = NoBook
    /\ books' = books \union {b}
    /\ shelf' = [shelf EXCEPT ![pl] = b]
    /\ UNCHANGED <<diff, decided, marks>>

Review(id) ==
    /\ diff[id] = NoDiff
    /\ \E new \in Diff :
          /\ shelf[new.from] = new.book
          /\ new.relinkable => new.from # new.to
          /\ diff' = [diff EXCEPT ![id] = new]
    /\ UNCHANGED <<books, shelf, decided, marks>>

Open(id) == diff[id] # NoDiff /\ decided[id] = "open"

Relink(id) ==
    LET d == diff[id] IN
    /\ Open(id)
    /\ d.relinkable
    /\ shelf[d.from] = d.book
    /\ shelf[d.to] = NoBook
    /\ shelf' = [shelf EXCEPT ![d.from] = NoBook, ![d.to] = d.book]
    /\ decided' = [decided EXCEPT ![id] = "relinked"]
    /\ UNCHANGED <<books, diff, marks>>

Dismiss(id) ==
    /\ Open(id)
    /\ decided' = [decided EXCEPT ![id] = "dismissed"]
    /\ UNCHANGED <<books, shelf, diff, marks>>

SetMark(m, b) ==
    /\ b \in books
    /\ \/ marks' = [marks EXCEPT ![m] = @ \union {b}]
       \/ marks' = [marks EXCEPT ![m] = @ \ {b}]
    /\ UNCHANGED <<books, shelf, diff, decided>>

Next ==
    \/ \E b \in Book : Learn(b) \/ \E pl \in Place : Shelve(b, pl)
    \/ \E id \in DiffId : Review(id) \/ Relink(id) \/ Dismiss(id)
    \/ \E m \in Mark, b \in Book : SetMark(m, b)

Spec == Init /\ [][Next]_vars
=============================================================================
