-------------------------------- MODULE Search ---------------------------------
(* The search of the header (components/GlobalSearch.vue): it asks while one  *)
(* types, after a pause, and asks again while earlier questions are still     *)
(* out.  The server (api/data/search.ts) looks for boards, cards, comments    *)
(* and files one after the other, in what the caller can reach and nobody has *)
(* archived.  Which texts hold a term is left to a constant; when the panel   *)
(* is in view, and where, is left out.                                        *)

EXTENDS Naturals, Sequences

CONSTANTS
  Terms,          \* what may be typed, trimmed
  ShortTerms,     \* those of fewer than two characters, among them
  NoTerm,         \* the empty one
  Hits,           \* the groups in which a term's text is found
  MaxTyped, MaxShelved, MaxSearchFailures   \* bounds

Groups == <<"boards", "cards", "comments", "attachments">>
ASSUME SearchAssumption ==
  /\ NoTerm \in ShortTerms /\ ShortTerms \subseteq Terms
  /\ Hits \in [Terms -> SUBSET {Groups[i] : i \in DOMAIN Groups}]

VARIABLES
  shelved,        \* which of the board, its area and its card are archived
  field,          \* the field and what its panel lists
  asked,          \* requests under way
  searchBehind,   \* the last question failed, or things changed since it was asked
  searchLeft      \* what is left of the bounds

searchVars == <<shelved, field, asked, searchBehind, searchLeft>>

NoHits == {}
Waiting(f) == f.pause # NoTerm

SearchInit ==
  /\ shelved = {} /\ asked = {} /\ searchBehind = FALSE
  /\ field = [term |-> NoTerm, pause |-> NoTerm, latest |-> 0, loading |-> FALSE,
              results |-> NoHits, query |-> NoTerm]
  /\ searchLeft = [typed |-> MaxTyped, changes |-> MaxShelved, failures |-> MaxSearchFailures]

SearchSpends(what) == searchLeft[what] > 0 /\ searchLeft' = [searchLeft EXCEPT ![what] = @ - 1]

-----------------------------------------------------------------------------
(* ACCESSIBLE and LIVE_CARD, of one group.                                    *)
Reachable(g) ==
  /\ "board" \notin shelved
  /\ g # "boards" => shelved \intersect {"area", "card"} = {}

Found(w, groups) == {g \in groups : g \in Hits[w] /\ Reachable(g)}

(* A board, an area or a card is archived, or comes back.                     *)
ShelveOrRestore(x) ==
  /\ SearchSpends("changes")
  /\ shelved' = IF x \in shelved THEN shelved \ {x} ELSE shelved \union {x}
  /\ searchBehind' = TRUE
  /\ UNCHANGED <<field, asked>>

-----------------------------------------------------------------------------
Cleared(f) == [f EXCEPT !.results = NoHits, !.query = NoTerm]

(* The watch on the term; the dialog that closes empties it the same way.     *)
TypeTerm(w) ==
  /\ w # field.term /\ SearchSpends("typed")
  /\ field' = LET typed == [field EXCEPT !.term = w]
              IN IF w \in ShortTerms THEN Cleared([typed EXCEPT !.pause = NoTerm, !.loading = FALSE])
                                     ELSE [typed EXCEPT !.pause = w, !.loading = TRUE]
  /\ UNCHANGED <<shelved, asked, searchBehind>>

(* The pause is over, and the question goes out.                              *)
AskServer ==
  /\ Waiting(field)
  /\ field' = [field EXCEPT !.pause = NoTerm, !.latest = @ + 1]
  /\ asked' = asked \union {[no |-> field.latest + 1, term |-> field.pause, next |-> 1, found |-> NoHits]}
  /\ searchBehind' = FALSE
  /\ UNCHANGED <<shelved, searchLeft>>

(* search GET: the next of the four queries.                                  *)
ReadGroup(r) ==
  /\ r \in asked /\ r.next <= Len(Groups)
  /\ asked' = (asked \ {r}) \union
                {[r EXCEPT !.next = @ + 1, !.found = @ \union Found(r.term, {Groups[r.next]})]}
  /\ UNCHANGED <<shelved, field, searchBehind, searchLeft>>

(* A slip: whatever comes last is shown.                                      *)
ShowAny(r) ==
  /\ r \in asked /\ r.next > Len(Groups)
  /\ asked' = asked \ {r}
  /\ field' = [field EXCEPT !.results = r.found, !.query = r.term, !.loading = FALSE]
  /\ UNCHANGED <<shelved, searchBehind, searchLeft>>

(* An answer that a later question has overtaken is dropped.                  *)
ShowResults(r) ==
  /\ r \in asked /\ r.next > Len(Groups)
  /\ asked' = asked \ {r}
  /\ field' = IF r.no # field.latest THEN field
              ELSE [field EXCEPT !.results = r.found, !.query = r.term, !.loading = FALSE]
  /\ UNCHANGED <<shelved, searchBehind, searchLeft>>

SearchFails(r) ==
  /\ r \in asked /\ SearchSpends("failures")
  /\ asked' = asked \ {r}
  /\ field' = IF r.no # field.latest THEN field ELSE Cleared([field EXCEPT !.loading = FALSE])
  /\ searchBehind' = (searchBehind \/ r.no = field.latest)
  /\ UNCHANGED shelved

SearchNext ==
  \/ \E x \in {"board", "area", "card"} : ShelveOrRestore(x)
  \/ \E w \in Terms : TypeTerm(w)
  \/ AskServer
  \/ \E r \in asked : ReadGroup(r) \/ ShowResults(r) \/ SearchFails(r)

SearchSpec == SearchInit /\ [][SearchNext]_searchVars

-----------------------------------------------------------------------------
(* Properties *)

SearchQuiet == asked = {} /\ ~Waiting(field)

(* "a slow earlier response can never overwrite the results of a later one"    *)
(* (GlobalSearch.vue:600): once everything is answered the panel shows what   *)
(* there is to find of the term in the field, however often it was changed    *)
(* and in whatever order the answers came.                                    *)
SearchSettles ==
  (SearchQuiet /\ ~searchBehind /\ field.term \notin ShortTerms) =>
    /\ field.results = Found(field.term, {Groups[i] : i \in DOMAIN Groups})
    /\ field.query = field.term /\ ~field.loading

(* A field with one character left shows nothing: it does not hold (README),   *)
(* because emptying the panel does not disown the question that is out.       *)
ShortFindsNothing == (SearchQuiet /\ field.term \in ShortTerms) => field.results = NoHits
=============================================================================
