---------------------------- MODULE Orders_proofs ---------------------------
(***************************************************************************)
(* Proofs about the order details: the shared fetcher and its cache, for   *)
(* every set of calls and any number of retries, and what a page is        *)
(* parsed into, for any specs.                                             *)
(***************************************************************************)
EXTENDS OrderFetcher, OrderParse, TLAPS

-----------------------------------------------------------------------------
\* OrderFetcher

UnderLock == {"locked", "ensure", "goto", "look", "again", "leave"}
Places == UnderLock \cup {"idle", "init", "lock", "close", "done"}

FetchRecord ==
    [at : Places, forced : BOOLEAN, tries : Nat, browsers : {0, 1}, ready : BOOLEAN,
     listening : BOOLEAN, result : {"none", "cache", "page", "stored"}]

FetchTypeOK == cached \in BOOLEAN /\ fetch \in [Fetches -> FetchRecord]

\* A record is sound: its browser answers only while it runs, and there is
\* none before the launch nor after the end.
Sound(r) ==
    /\ r \in FetchRecord
    /\ r.ready => r.browsers = 1
    /\ r.at \in {"idle", "init", "done"} => r.browsers = 0

BrowsersSound == \A f \in Fetches : Sound(fetch[f])

\* Whoever is at work on the order's page holds the order's lock.
HoldsLock == \A f \in Fetches : fetch[f].at \in UnderLock => lock = f

FetchInv == FetchTypeOK /\ BrowsersSound /\ HoldsLock

-----------------------------------------------------------------------------
\* A launch over nothing leaves at most one browser, a ready one with it.
LEMMA LaunchesSound ==
    ASSUME NEW r \in FetchRecord, r.browsers = 0, ~r.ready, NEW q \in Launches(r)
    PROVE  /\ q \in FetchRecord /\ q.at = r.at /\ q.tries = r.tries
           /\ q.ready => q.browsers = 1
<1>1. \/ q = [r EXCEPT !.browsers = r.browsers + 1, !.ready = TRUE]
      \/ q = [r EXCEPT !.browsers = r.browsers + 1]
      \/ q = r
  BY DEF Launches
<1>2. r.browsers + 1 = 1
  OBVIOUS
<1> QED BY <1>1, <1>2 DEF FetchRecord

LEMMA ForceClosedSound ==
    ASSUME NEW r \in FetchRecord
    PROVE  /\ ForceClosed(r) \in FetchRecord /\ ForceClosed(r).at = r.at
           /\ ForceClosed(r).browsers = 0 /\ ~ForceClosed(r).ready
<1>1. (IF r.browsers = 0 THEN 0 ELSE r.browsers - 1) = 0
  BY DEF FetchRecord
<1>2. ForceClosed(r) = [r EXCEPT !.browsers = 0, !.ready = FALSE, !.listening = FALSE]
  BY <1>1 DEF ForceClosed
<1> QED BY <1>2 DEF FetchRecord

\* A browser that does not answer is closed before another is launched, so
\* there is one at most.
LEMMA EnsureSound ==
    ASSUME NEW r, Sound(r), NEW q \in Ensure(r)
    PROVE  /\ q \in FetchRecord /\ q.at = r.at
           /\ q.ready => q.browsers = 1
<1>1. CASE r.ready
  BY <1>1 DEF Ensure, Sound
<1>2. CASE ~r.ready
  <2>1. q \in Launches(ForceClosed(r)) /\ r \in FetchRecord
    BY <1>2 DEF Ensure, Sound
  <2> QED BY <2>1, ForceClosedSound, LaunchesSound
<1> QED BY <1>1, <1>2

\* A call that goes on with a sound record, and with the lock where it needs
\* it, while nobody else takes or loses the lock.
LEMMA GoesInv ==
    ASSUME FetchInv, NEW f \in Fetches, NEW r, Sound(r), Goes(f, r), cached' \in BOOLEAN,
           r.at \in UnderLock => lock' = f,
           \A g \in Fetches \ {f} : lock = g => lock' = g
    PROVE  FetchInv'
<1>1. fetch' = [fetch EXCEPT ![f] = r] /\ fetch \in [Fetches -> FetchRecord] /\ r \in FetchRecord
  BY DEF FetchInv, FetchTypeOK, Goes, Sound
<1>2. FetchTypeOK'
  BY <1>1 DEF FetchTypeOK
<1>3. BrowsersSound'
  BY <1>1 DEF BrowsersSound, FetchInv
<1>4. HoldsLock'
  BY <1>1 DEF HoldsLock, FetchInv
<1> QED BY <1>2, <1>3, <1>4 DEF FetchInv

LEMMA FetchInitInv == FetchInit => FetchInv
BY DEF FetchInit, FetchInv, FetchTypeOK, BrowsersSound, Sound, HoldsLock, NewFetch,
       FetchRecord, Places, UnderLock

LEMMA FetchStepInv == FetchInv /\ [FetchNext]_fetchVars => FetchInv'
<1> SUFFICES ASSUME FetchInv, [FetchNext]_fetchVars PROVE FetchInv'
  OBVIOUS
<1>0. /\ cached \in BOOLEAN
      /\ \A f \in Fetches : Sound(fetch[f]) /\ fetch[f] \in FetchRecord
      /\ HoldsLock
  BY DEF FetchInv, FetchTypeOK, BrowsersSound
<1> USE DEF FetchRecord, Places, UnderLock, Sound, At, HoldsLock
<1>1. ASSUME NEW f \in Fetches, CallFetch(f) PROVE FetchInv'
  <2>1. PICK r : r \in FetchRecord /\ r.browsers = 0 /\ ~r.ready /\ r.at \in {"done", "init"} /\ Goes(f, r)
    <3>1. PICK forced \in BOOLEAN :
            \/ Goes(f, [NewFetch EXCEPT !.at = "done", !.result = "cache"])
            \/ Goes(f, [NewFetch EXCEPT !.at = "init", !.forced = forced])
      BY <1>1 DEF CallFetch
    <3> QED BY <3>1 DEF NewFetch
  <2> QED BY <1>0, <1>1, <2>1, GoesInv DEF CallFetch
<1>2. ASSUME NEW f \in Fetches, InitBrowser(f) PROVE FetchInv'
  <2>1. PICK r \in Launches(fetch[f]) : Goes(f, [r EXCEPT !.at = IF r.ready THEN "lock" ELSE "close"])
    BY <1>2 DEF InitBrowser
  <2>2. r \in FetchRecord /\ (r.ready => r.browsers = 1)
    BY <1>0, <1>2, LaunchesSound DEF InitBrowser
  <2>3. Sound([r EXCEPT !.at = IF r.ready THEN "lock" ELSE "close"])
    BY <2>2
  <2> QED BY <1>0, <1>2, <2>1, <2>2, <2>3, GoesInv DEF InitBrowser
<1>3. ASSUME NEW f \in Fetches, TakeLock(f) PROVE FetchInv'
  BY <1>0, <1>3, GoesInv, FetchAssumption DEF TakeLock
<1>4. ASSUME NEW f \in Fetches, LookAtRow(f) PROVE FetchInv'
  BY <1>0, <1>4, GoesInv DEF LookAtRow
<1>5. ASSUME NEW f \in Fetches, EnsureReady(f) PROVE FetchInv'
  <2>1. PICK r \in Ensure(fetch[f]) :
           Goes(f, IF r.ready THEN Registered([r EXCEPT !.at = "goto"]) ELSE [r EXCEPT !.at = "leave"])
    BY <1>5 DEF EnsureReady
  <2>2. r \in FetchRecord /\ (r.ready => r.browsers = 1)
    BY <1>0, EnsureSound
  <2> QED BY <1>0, <1>5, <2>1, <2>2, GoesInv DEF EnsureReady, Registered
<1>6. ASSUME NEW f \in Fetches, Goto(f) PROVE FetchInv'
  <2>1. PICK r : Sound(r) /\ r.at \in UnderLock /\ Goes(f, r)
    <3>1. CASE fetch[f].ready /\ Goes(f, [fetch[f] EXCEPT !.at = "look"])
      BY <1>0, <1>6, <3>1
    <3>2. CASE Goes(f, IF fetch[f].tries = GotoRetries
                       THEN [fetch[f] EXCEPT !.at = "leave"]
                       ELSE [fetch[f] EXCEPT !.tries = @ + 1])
      BY <1>0, <1>6, <3>2 DEF Goto
    <3>3. ASSUME NEW q \in Ensure(fetch[f]),
                 Goes(f, IF q.ready /\ q.tries < GotoRetries
                         THEN Registered([q EXCEPT !.tries = @ + 1])
                         ELSE [q EXCEPT !.at = "leave"])
          PROVE  \E r : Sound(r) /\ r.at \in UnderLock /\ Goes(f, r)
      <4>1. q \in FetchRecord /\ (q.ready => q.browsers = 1) /\ q.at = "goto"
        BY <1>0, <1>6, EnsureSound DEF Goto
      <4>2. CASE q.ready /\ q.tries < GotoRetries
        <5> DEFINE r == Registered([q EXCEPT !.tries = @ + 1])
        <5>1. Goes(f, r)
          BY <3>3, <4>2
        <5>2. r = [[q EXCEPT !.tries = @ + 1] EXCEPT !.listening = TRUE]
          BY DEF Registered
        <5>3. [q EXCEPT !.tries = @ + 1] \in FetchRecord
              /\ [q EXCEPT !.tries = @ + 1].at = "goto" /\ [q EXCEPT !.tries = @ + 1].browsers = 1
          BY <4>1, <4>2
        <5>4. Sound(r) /\ r.at \in UnderLock
          BY <5>2, <5>3
        <5> QED BY <5>1, <5>4
      <4>3. CASE ~(q.ready /\ q.tries < GotoRetries)
        <5>1. Goes(f, [q EXCEPT !.at = "leave"])
          BY <3>3, <4>3
        <5>2. Sound([q EXCEPT !.at = "leave"]) /\ [q EXCEPT !.at = "leave"].at \in UnderLock
          BY <4>1
        <5> QED BY <5>1, <5>2
      <4> QED BY <4>2, <4>3
    <3> QED BY <1>6, <3>1, <3>2, <3>3 DEF Goto
  <2> QED BY <1>0, <1>6, <2>1, GoesInv DEF Goto
<1>7. ASSUME NEW f \in Fetches, LookAtPage(f) PROVE FetchInv'
  BY <1>0, <1>7, GoesInv DEF LookAtPage
<1>8. ASSUME NEW f \in Fetches, LookAgain(f) PROVE FetchInv'
  BY <1>0, <1>8, GoesInv DEF LookAgain
<1>9. ASSUME NEW f \in Fetches, LeaveLock(f) PROVE FetchInv'
  <2>1. lock = f
    BY <1>0, <1>9 DEF LeaveLock
  <2>2. Sound([fetch[f] EXCEPT !.at = "close", !.listening = FALSE])
        /\ [fetch[f] EXCEPT !.at = "close", !.listening = FALSE].at = "close"
    BY <1>0
  <2> QED BY <1>0, <1>9, <2>1, <2>2, GoesInv DEF LeaveLock
<1>10. ASSUME NEW f \in Fetches, CloseFetcher(f) PROVE FetchInv'
  <2>1. Sound([ForceClosed(fetch[f]) EXCEPT !.at = "done"])
    BY <1>0, ForceClosedSound
  <2>2. [ForceClosed(fetch[f]) EXCEPT !.at = "done"].at = "done"
    BY <1>0, ForceClosedSound
  <2> QED BY <1>0, <1>10, <2>1, <2>2, GoesInv DEF CloseFetcher
<1>11. ASSUME NEW f \in Fetches, StoreRow(f) PROVE FetchInv'
  BY <1>0, <1>11, GoesInv DEF StoreRow
<1>12. ASSUME NEW f \in Fetches, BrowserDies(f) PROVE FetchInv'
  <2>1. Sound([fetch[f] EXCEPT !.ready = FALSE])
        /\ [fetch[f] EXCEPT !.ready = FALSE].at = fetch[f].at
    BY <1>0
  <2> QED BY <1>0, <1>12, <2>1, GoesInv DEF BrowserDies
<1>13. CASE UNCHANGED fetchVars
  BY <1>13 DEF fetchVars, FetchInv, FetchTypeOK, BrowsersSound
<1> QED BY <1>1, <1>2, <1>3, <1>4, <1>5, <1>6, <1>7, <1>8, <1>9, <1>10, <1>11, <1>12, <1>13
    DEF FetchNext, FetchStep

-----------------------------------------------------------------------------
LEMMA FetchInvariant == FetchSpec => []FetchInv
BY FetchInitInv, FetchStepInv, PTL DEF FetchSpec

\* A finished call leaves no browser, for any number of calls and retries and
\* however often browsers die.
THEOREM BrowsersClosed == FetchSpec => []NoBrowserLeft
<1>1. FetchInv => NoBrowserLeft
  BY DEF FetchInv, BrowsersSound, Sound, NoBrowserLeft, At
<1> QED BY <1>1, FetchInvariant, PTL

\* Two calls for one order are never at work on its page at the same time.
THEOREM OneFetchAtATime ==
    FetchSpec => [](\A f, g \in Fetches : fetch[f].at \in UnderLock /\ fetch[g].at \in UnderLock => f = g)
<1>1. FetchInv => \A f, g \in Fetches : fetch[f].at \in UnderLock /\ fetch[g].at \in UnderLock => f = g
  BY DEF FetchInv, HoldsLock
<1> QED BY <1>1, FetchInvariant, PTL

-----------------------------------------------------------------------------
\* OrderParse

\* No spec that is refused, and no second beside nothing.
SoundPair(p) == BadSpec \notin {p.first, p.second} /\ (p.second # NoSpec => p.first # NoSpec)

\* _sanitize_sku_result makes any pair sound.
LEMMA SanitizedSound == ASSUME NEW p PROVE SoundPair(Sanitized(p))
BY ParseAssumption DEF Sanitized, Valid, Pair, SoundPair

\* Whatever the sources say, what is merged from them is sound.
LEMMA MergedSound ==
    ASSUME NEW response, NEW elements, NEW lines
    PROVE  SoundPair(Merged(response, elements, lines))
BY SanitizedSound DEF Merged

\* SpecsAreSound, for any specs: whatever responses, elements and lines of text
\* a page has, and whatever was told before, no refused text is told as a spec
\* and no second spec without a first (_sanitize_sku_result, after every merge).
THEOREM SpecsTold == ParseSpec => []SpecsAreSound
<1>1. ParseInit => SpecsAreSound
  BY ParseAssumption DEF ParseInit, SpecsAreSound, Nothing, Pair
<1>2. ASSUME SpecsAreSound, ParseNext PROVE SpecsAreSound'
  <2>1. CASE ParseSpecs
    BY <2>1, MergedSound DEF ParseSpecs, SpecsAreSound, SoundPair
  <2>2. CASE specs' = specs
    BY <1>2, <2>2 DEF SpecsAreSound
  <2>3. ParseSpecs \/ specs' = specs
    BY <1>2 DEF ParseNext, ParseAmount, ParseStatus, NextLook
  <2> QED BY <2>1, <2>2, <2>3
<1>3. SpecsAreSound /\ UNCHANGED parseVars => SpecsAreSound'
  BY DEF SpecsAreSound, parseVars
<1> QED BY <1>1, <1>2, <1>3, PTL DEF ParseSpec
=============================================================================
