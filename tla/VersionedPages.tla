---------------------------- MODULE VersionedPages ----------------------------
(***************************************************************************)
(* What the wiki promises, without saying how: a page changes at once, as  *)
(* a whole, and every change is a version of its own.                      *)
(***************************************************************************)
EXTENDS Naturals

CONSTANTS
    Slugs,    \* the names of the pages
    Bodies,   \* what a page may say
    NoBody,   \* what a page that is not there says
    Pieces    \* Pieces[b]: how many chunks body b is searched by

VARIABLE pages

Absent == [version |-> 0, body |-> NoBody, chunks |-> {}]

Page(v, b) == [version |-> v, body |-> b, chunks |-> (1..Pieces[b]) \X {b}]

Init == pages = [sl \in Slugs |-> Absent]

Put(sl, b) == pages' = [pages EXCEPT ![sl] = Page(pages[sl].version + 1, b)]

Next == \E sl \in Slugs, b \in Bodies : Put(sl, b)

Spec == Init /\ [][Next]_pages
=============================================================================
