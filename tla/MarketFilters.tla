----------------------------- MODULE MarketFilters -----------------------------
(***************************************************************************)
(* The filters of the home page: the state that selects the markets, the   *)
(* URL it is mirrored to and read from, and the search box, whose text     *)
(* becomes the query 300 ms after the last key.  Effects copy each of      *)
(* these to the next, on a change only, and a navigation takes time.       *)
(***************************************************************************)
EXTENDS Naturals

CONSTANTS Text,   \* what may be typed
          Empty,  \* the empty query, which is a text
          Choice, \* the settings of status, category and sort
          Default, \* the choice with none of them set
          MaxLinks \* bound: navigations that do not come from the filters

ASSUME FilterConstants == Empty \in Text /\ Default \in Choice /\ MaxLinks \in Nat

VARIABLES
  url,       \* the filters the address names
  filters,   \* the filters of the page: q and choice
  going,     \* the address router.replace is on its way to, or "nowhere"
  box,       \* inputValue
  debounced, \* debouncedSearch
  links,
  outside    \* history: the query was set by a link, a chip or "Clear all",
             \* and no text has settled since

filterVars == <<url, filters, going, box, debounced, links, outside>>

Filters == [q : Text, choice : Choice]
Bare == [q |-> Empty, choice |-> Default]

FilterTypeOK ==
  /\ url \in Filters /\ filters \in Filters
  /\ going \in SUBSET Filters
  /\ box \in Text /\ debounced \in Text
  /\ links \in 0 .. MaxLinks /\ outside \in BOOLEAN

\* The page is opened by any address: the filters and the box are read from it.
FilterInit ==
  /\ url \in Filters
  /\ filters = url /\ going = {}
  /\ box = filters.q /\ debounced = filters.q
  /\ links = 0 /\ outside = FALSE

-----------------------------------------------------------------------------
\* Filters -> URL: each change replaces the address, and what was under way.
\* A query that becomes empty empties the box.
MutantSetFilters(f) ==
  /\ filters' = f
  /\ going' = IF f = filters THEN going ELSE {[f EXCEPT !.q = Empty]}
SetFilters(f) ==
  /\ filters' = f
  /\ going' = IF f = filters THEN going ELSE {f}

BoxAfter(q) == IF q = Empty /\ filters.q # Empty THEN Empty ELSE box

TypeText(t) ==
  /\ t # box
  /\ box' = t
  /\ UNCHANGED <<url, filters, going, debounced, links, outside>>

\* 300 ms without a key: the text is debounced; if it is a new one that differs
\* from the query, it becomes the query.
Debounce ==
  /\ box # debounced
  /\ debounced' = box
  /\ SetFilters([filters EXCEPT !.q = box])
  /\ outside' = FALSE
  /\ UNCHANGED <<url, box, links>>

\* A status, category or sort: the other filters are kept.
Choose(c) ==
  /\ c # filters.choice
  /\ SetFilters([filters EXCEPT !.choice = c])
  /\ UNCHANGED <<url, box, debounced, links, outside>>
\* The chip of the query, and "Clear all".
Clear(choice) ==
  /\ SetFilters([q |-> Empty, choice |-> choice])
  /\ box' = Empty
  /\ outside' = (outside \/ debounced # Empty)
  /\ UNCHANGED <<url, debounced, links>>
RemoveQuery == filters.q # Empty /\ Clear(filters.choice)
ClearAll == filters # Bare /\ Clear(Default)

\* URL -> filters.
Arrive ==
  /\ going # {}
  /\ url' \in going /\ filters' = url' /\ going' = {}
  /\ box' = BoxAfter(url'.q)
  /\ UNCHANGED <<debounced, links, outside>>
\* The back button or a link: the box follows only to the empty query.
FollowLink(u) ==
  /\ links < MaxLinks /\ u # url
  /\ links' = links + 1
  /\ url' = u /\ filters' = u /\ going' = {}
  /\ box' = BoxAfter(u.q)
  /\ outside' = (outside \/ u.q # filters.q)
  /\ UNCHANGED debounced

FilterNext ==
  \/ \E t \in Text : TypeText(t)
  \/ Debounce \/ RemoveQuery \/ ClearAll \/ Arrive
  \/ \E c \in Choice : Choose(c)
  \/ \E u \in Filters : FollowLink(u)

FilterSpec == FilterInit /\ [][FilterNext]_filterVars

-----------------------------------------------------------------------------
\* At rest the address names what is shown, so that a reload or a shared link
\* shows the same; and the box shows the query that selects it, unless the
\* query came from elsewhere or the box was cleared.
RestIsConsistent ==
  (going = {} /\ box = debounced) =>
    /\ url = filters
    /\ outside \/ box = filters.q
=============================================================================
