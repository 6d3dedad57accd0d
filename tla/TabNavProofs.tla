---------------------------- MODULE TabNavProofs ----------------------------
(***************************************************************************)
(* Navigation of one tab: the history index stays inside the history, no   *)
(* older response replaces the document of a newer one, and the document   *)
(* the browser asked for last is the one shown, however long the tab is    *)
(* used, however often its renderer dies and whatever crosses on the links.*)
(*                                                                         *)
(* The argument follows the last command on its way: it is the last load   *)
(* in the link to the renderer, or, once the renderer has taken it, the    *)
(* one fetch of the renderer's generation, or the page.                    *)
(***************************************************************************)
EXTENDS TabNav, SequenceTheorems, TLAPS

(* What the two links carry, and what the renderer holds. *)
Deeds == Nat \X Nat
Commands ==
  [m : {"navigate", "html"}, url : Urls]
  \cup [m : {"reload", "stop"}]
  \cup [m : {"traverse"}, url : Urls, ix : Nat]
Reports ==
  [m : {"url"}, url : Urls, by : Deeds]
  \cup [m : {"load"}, event : {"started", "failed", "load"}]
  \cup [m : {"open"}, url : Urls, replace : BOOLEAN]
  \cup [m : {"go"}, delta : Deltas]
  \cup [m : {"push"}, url : Urls, replace : BOOLEAN, by : Deeds]
  \cup [m : {"none"}]
Pages ==
  [url : Urls, from : Docs \cup {Home}, by : Deeds, script : BOOLEAN, loadSent : BOOLEAN,
   jsUrl : Urls, jsIx : Nat]
FetchStates == [gen : Nat, url : Urls, at : {"net", "queued"}, ok : BOOLEAN]

(* Everything that is carried is well formed. *)
LinksTyped ==
  /\ toR \in Seq(Commands)
  /\ fromR \in Seq(Reports)
  /\ wanted \in Commands
  /\ crashes \in Nat
RendererTyped ==
  /\ rend \in [alive : BOOLEAN, gen : Nat, nav : Nat, page : Pages \cup {None}]
  /\ rend.nav \in 0..rend.gen
  /\ fetches \subseteq FetchStates
TabTyped(t, seq) ==
  /\ seq \in Nat \ {0}
  /\ t \in [url : Urls, history : Seq(Entries(seq)), index : Nat,
            loading : BOOLEAN, crashed : BOOLEAN]
  /\ t.index \in 1..Len(t.history)
WellFormed == TabTyped(tab, nextSeq) /\ LinksTyped /\ RendererTyped

(* A renderer says that it died once, last, and is not replaced before. *)
DeathIsLast ==
  /\ ~rend.alive => toR = << >> /\ fetches = {}
  /\ \A n \in 1..Len(fromR) : fromR[n].m = "none" => ~rend.alive /\ n = Len(fromR)

(* The generation of the page and of every fetch was reached. *)
GenerationsReached ==
  /\ rend.page # None => rend.page.by[2] <= rend.gen
  /\ \A f \in fetches : f.gen <= rend.gen

(* A traversal is the one command that starts, repeats or stops no load. *)
IsLoad(msg) == msg.m # "traverse"
LoadsIn(msgs) == {n \in 1..Len(msgs) : IsLoad(msgs[n])}

(* The last load on the link is what the browser wants. *)
LastSentIsWanted ==
  rend.alive =>
    \A n \in LoadsIn(toR) : (\A k \in LoadsIn(toR) : k <= n) => toR[n] = wanted

(* Once the renderer has taken it, it is fetched, or shown. *)
HeadsFor(doc) ==
  /\ \A f \in fetches : f.gen = rend.gen => f.url.doc = doc
  /\ rend.page # None /\ (\A f \in fetches : f.gen # rend.gen) => rend.page.from = doc
TakenIsHeadedFor ==
  rend.alive /\ LoadsIn(toR) = {} /\ AskedForWhole => HeadsFor(wanted.url.doc)

NavigationInvariant ==
  /\ WellFormed
  /\ DeathIsLast
  /\ GenerationsReached
  /\ LastSentIsWanted
  /\ TakenIsHeadedFor

-----------------------------------------------------------------------------
(* Short sequences, and the messages there are. *)
LEMMA TupleFacts ==
  ASSUME NEW S, NEW a \in S, NEW b \in S
  PROVE  /\ << >> \in Seq(S) /\ Len(<< >>) = 0
         /\ <<a>> \in Seq(S) /\ Len(<<a>>) = 1 /\ <<a>>[1] = a
         /\ <<a, b>> \in Seq(S) /\ Len(<<a, b>>) = 2 /\ <<a, b>>[1] = a /\ <<a, b>>[2] = b
         /\ Append(<<a>>, b) = <<a, b>>
<1>1. << >> \in Seq(S) /\ <<a>> \in Seq(S) /\ <<a, b>> \in Seq(S)
  OBVIOUS
<1>2. Len(<< >>) = 0 /\ Len(<<a>>) = 1 /\ <<a>>[1] = a
  BY <1>1
<1>3. Len(<<a, b>>) = 2 /\ <<a, b>>[1] = a /\ <<a, b>>[2] = b
  BY <1>1
<1>4. Append(<<a>>, b) = <<a, b>>
  <2>1. /\ Append(<<a>>, b) \in Seq(S) /\ Len(Append(<<a>>, b)) = 2
        /\ Append(<<a>>, b)[1] = a /\ Append(<<a>>, b)[2] = b
    BY <1>1, <1>2, AppendProperties
  <2>2. \A n \in 1..2 : Append(<<a>>, b)[n] = <<a, b>>[n]
    BY <1>3, <2>1
  <2> QED
    BY <1>1, <1>3, <2>1, <2>2, SeqEqual
<1> QED
  BY <1>1, <1>2, <1>3, <1>4

LEMMA PairFacts ==
  ASSUME NEW S, NEW a \in S, NEW b \in S
  PROVE  <<a>> \o << >> = <<a>> /\ <<a>> \o <<b>> = <<a, b>>
<1>1. /\ <<a>> \in Seq(S) /\ <<b>> \in Seq(S) /\ Len(<<a>>) = 1 /\ Len(<<b>>) = 1
      /\ <<a>>[1] = a /\ <<b>>[1] = b
      /\ <<a, b>> \in Seq(S) /\ Len(<<a, b>>) = 2 /\ <<a, b>>[1] = a /\ <<a, b>>[2] = b
  BY TupleFacts
<1>2. <<a>> \o << >> = <<a>>
  BY <1>1, ConcatEmptySeq
<1>3. /\ <<a>> \o <<b>> \in Seq(S) /\ Len(<<a>> \o <<b>>) = 2
      /\ (<<a>> \o <<b>>)[1] = a /\ (<<a>> \o <<b>>)[2] = b
  BY <1>1, ConcatProperties
<1>4. \A n \in 1..2 : (<<a>> \o <<b>>)[n] = <<a, b>>[n]
  BY <1>1, <1>3
<1> QED
  BY <1>1, <1>2, <1>3, <1>4, SeqEqual

LEMMA CommandsTyped ==
  /\ \A url \in Urls : /\ Navigate(url) \in Commands
                       /\ [m |-> "html", url |-> url] \in Commands
                       /\ \A ix \in Nat : [m |-> "traverse", url |-> url, ix |-> ix] \in Commands
  /\ [m |-> "reload"] \in Commands
  /\ [m |-> "stop"] \in Commands
  BY DEF Commands, Navigate

LEMMA HomeTyped == HomeUrl \in Urls /\ HomeUrl.doc = Home /\ HomeUrl.frag = 0
  BY TabAssumption DEF HomeUrl, Urls

(* Entries of a smaller doc_seq are entries of a greater one. *)
LEMMA EntriesGrow ==
  ASSUME NEW seq \in Nat, NEW h \in Seq(Entries(seq))
  PROVE  h \in Seq(Entries(seq + 1))
<1>1. Entries(seq) \subseteq Entries(seq + 1)
  BY DEF Entries
<1> QED
  BY <1>1, SeqMonotonic

(* An entry put in place of the current one, or after it in place of all
   that follow. *)
LEMMA EntryPut ==
  ASSUME NEW S, NEW h \in Seq(S), NEW i \in 1..Len(h), NEW e \in S
  PROVE  /\ [h EXCEPT ![i] = e] \in Seq(S) /\ Len([h EXCEPT ![i] = e]) = Len(h)
         /\ Append(SubSeq(h, 1, i), e) \in Seq(S) /\ Len(Append(SubSeq(h, 1, i), e)) = i + 1
         /\ h[i] \in S
<1>1. [h EXCEPT ![i] = e] \in Seq(S) /\ Len([h EXCEPT ![i] = e]) = Len(h)
  BY ExceptSeq
<1>2. SubSeq(h, 1, i) \in Seq(S) /\ Len(SubSeq(h, 1, i)) = i
  BY SubSeqProperties, LenProperties
<1>3. /\ Append(SubSeq(h, 1, i), e) \in Seq(S) /\ Len(Append(SubSeq(h, 1, i), e)) = i + 1
  BY <1>2, AppendProperties
<1>4. h[i] \in S
  BY ElementOfSeq
<1> QED
  BY <1>1, <1>3, <1>4

(* Browser::open on a tab that shows something, and on a new one. *)
LEMMA OpenTyped ==
  ASSUME NEW t, NEW seq, TabTyped(t, seq), NEW url \in Urls, NEW replace \in BOOLEAN
  PROVE  LET r == Open(t, seq, url, replace)
         IN  /\ TabTyped(r.tab, r.seq)
             /\ r = [tab |-> r.tab, seq |-> r.seq, msgs |-> <<Navigate(url)>>]
<1> DEFINE c == Current(t)
           sameDoc == url.frag # 0 /\ t.history # << >> /\ SameDocument(c.url, url)
           entry == IF sameDoc THEN Entry(url, c.seq, PushedIndex(c, replace))
                    ELSE Entry(url, seq, 0)
           next == IF sameDoc THEN seq ELSE seq + 1
           history == IF replace THEN [t.history EXCEPT ![t.index] = entry]
                      ELSE Append(SubSeq(t.history, 1, t.index), entry)
           index == IF replace THEN t.index ELSE Len(history)
           loading == t.loading \/ ~sameDoc
           tab2 == [t EXCEPT !.history = history, !.index = index, !.url = url,
                             !.loading = loading]
<1>1. /\ seq \in Nat \ {0} /\ t.history \in Seq(Entries(seq)) /\ t.index \in 1..Len(t.history)
      /\ t.loading \in BOOLEAN /\ t.crashed \in BOOLEAN
      /\ t = [url |-> t.url, history |-> t.history, index |-> t.index,
              loading |-> t.loading, crashed |-> t.crashed]
  BY DEF TabTyped
<1>2. t.history # << >>
  BY <1>1
<1>3. Open(t, seq, url, replace) = [tab |-> tab2, seq |-> next, msgs |-> <<Navigate(url)>>]
  BY <1>1, <1>2 DEF Open
<1>4. c \in Entries(seq)
  BY <1>1, ElementOfSeq DEF Current
<1> HIDE DEF c
<1>5. sameDoc \in BOOLEAN /\ next \in Nat \ {0}
  BY <1>1, <1>2 DEF SameDocument
<1>6. t.history \in Seq(Entries(next)) /\ entry \in Entries(next)
  <2>1. CASE sameDoc
    <3>1. PushedIndex(c, replace) \in Nat
      BY <1>4 DEF PushedIndex, Entries
    <3> QED
      BY <1>1, <1>4, <2>1, <3>1 DEF Entry, Entries
  <2>2. CASE ~sameDoc
    <3>1. next = seq + 1 /\ t.history \in Seq(Entries(seq + 1))
      BY <1>1, <2>2, EntriesGrow
    <3>2. entry = [url |-> url, seq |-> seq, ix |-> 0] /\ seq \in 0..(seq + 1) - 1
      BY <1>1, <2>2 DEF Entry
    <3>3. entry \in Entries(seq + 1)
      BY <3>2 DEF Entries
    <3> QED
      BY <3>1, <3>3
  <2> QED
    BY <2>1, <2>2
<1> HIDE DEF sameDoc, next, entry
<1>7. history \in Seq(Entries(next)) /\ index \in 1..Len(history) /\ index \in Nat
  BY <1>1, <1>6, EntryPut, LenProperties
<1>8. loading \in BOOLEAN
  OBVIOUS
<1> HIDE DEF history, index, loading
<1>9. tab2 = [url |-> url, history |-> history, index |-> index,
              loading |-> loading, crashed |-> t.crashed]
  <2>1. tab2 = [t EXCEPT !.history = history, !.index = index, !.url = url, !.loading = loading]
    OBVIOUS
  <2> HIDE DEF tab2
  <2> QED
    BY <1>1, <2>1
<1>10. TabTyped(tab2, next)
  BY <1>1, <1>5, <1>7, <1>8, <1>9 DEF TabTyped
<1> HIDE DEF tab2
<1> QED
  BY <1>3, <1>10

(* What a tab is called with, and what it sends. *)
Sends(r) == /\ r.msgs \in Seq(Commands) /\ Len(r.msgs) <= 2
            /\ TabTyped(r.tab, r.seq)

LEMMA OpenSends ==
  ASSUME NEW t, NEW seq, TabTyped(t, seq), NEW url \in Urls, NEW replace \in BOOLEAN
  PROVE  Sends(Open(t, seq, url, replace))
<1> DEFINE r == Open(t, seq, url, replace)
<1>1. TabTyped(r.tab, r.seq) /\ r = [tab |-> r.tab, seq |-> r.seq, msgs |-> <<Navigate(url)>>]
  BY OpenTyped
<1>2. <<Navigate(url)>> \in Seq(Commands) /\ Len(<<Navigate(url)>>) = 1
  BY CommandsTyped, TupleFacts
<1> HIDE DEF r
<1>3. r.msgs = <<Navigate(url)>>
  BY <1>1
<1>4. Sends(r)
  BY <1>1, <1>2, <1>3 DEF Sends
<1> QED
  BY <1>4 DEF r

LEMMA ShellNavigateSends ==
  ASSUME NEW t, NEW seq, TabTyped(t, seq), NEW url \in Urls
  PROVE  Sends(ShellNavigate(t, seq, url))
<1> DEFINE r == Open(t, seq, url, FALSE)
           html == [m |-> "html", url |-> url]
           two == [r EXCEPT !.msgs = Append(@, html)]
<1>1. TabTyped(r.tab, r.seq) /\ r = [tab |-> r.tab, seq |-> r.seq, msgs |-> <<Navigate(url)>>]
  BY OpenTyped
<1>2. /\ Append(<<Navigate(url)>>, html) = <<Navigate(url), html>>
      /\ <<Navigate(url), html>> \in Seq(Commands) /\ Len(<<Navigate(url), html>>) = 2
  BY CommandsTyped, TupleFacts
<1>3. ShellNavigate(t, seq, url) = IF url = HomeUrl THEN two ELSE r
  BY DEF ShellNavigate
<1> HIDE DEF r, html
<1>4. two.msgs = <<Navigate(url), html>> /\ two.tab = r.tab /\ two.seq = r.seq
  <2>1. two = [r EXCEPT !.msgs = Append(@, html)]
    OBVIOUS
  <2>2. r.msgs = <<Navigate(url)>>
    BY <1>1
  <2>3. two = [r EXCEPT !.msgs = <<Navigate(url), html>>]
    BY <1>2, <2>1, <2>2
  <2> HIDE DEF two
  <2> QED
    BY <1>1, <2>3
<1> HIDE DEF two
<1>5. Sends(two)
  BY <1>1, <1>2, <1>4 DEF Sends
<1>6. Sends(r)
  BY OpenSends DEF r
<1> QED
  BY <1>3, <1>5, <1>6

(* "its old same-document entries become a new one" *)
LEMMA RelabelledTyped ==
  ASSUME NEW t, NEW seq, TabTyped(t, seq), NEW target \in 1..Len(t.history)
  PROVE  /\ Relabelled(t, target, seq) \in Seq(Entries(seq + 1))
         /\ Len(Relabelled(t, target, seq)) = Len(t.history)
<1> DEFINE new(n) == [t.history[n] EXCEPT !.seq = IF @ = t.history[target].seq THEN seq ELSE @,
                                          !.ix = IF n = target THEN 0 ELSE @]
<1>1. seq \in Nat /\ t.history \in Seq(Entries(seq))
  BY DEF TabTyped
<1>2. Len(t.history) \in Nat
  BY <1>1, LenProperties
<1>3. ASSUME NEW n \in 1..Len(t.history) PROVE new(n) \in Entries(seq + 1)
  <2>1. t.history[n] \in Entries(seq)
    BY <1>1, ElementOfSeq
  <2> DEFINE s == IF t.history[n].seq = t.history[target].seq THEN seq ELSE t.history[n].seq
             x == IF n = target THEN 0 ELSE t.history[n].ix
             e == t.history[n]
  <2>2. new(n) = [e EXCEPT !.seq = s, !.ix = x]
    OBVIOUS
  <2>3. s \in 0..(seq + 1) - 1 /\ x \in Nat
    BY <1>1, <2>1 DEF Entries
  <2> HIDE DEF s, x, e, new
  <2>4. e \in Entries(seq)
    BY <2>1 DEF e
  <2> QED
    BY <2>2, <2>3, <2>4 DEF Entries
<1>4. Relabelled(t, target, seq) = [n \in 1..Len(t.history) |-> new(n)]
  BY DEF Relabelled
<1> HIDE DEF new
<1>5. Relabelled(t, target, seq) \in Seq(Entries(seq + 1))
  BY <1>2, <1>3, <1>4, IsASeq
<1> QED
  BY <1>2, <1>4, <1>5, LenProperties

(* Browser::go *)
LEMMA GoSends ==
  ASSUME NEW t, TabTyped(t, nextSeq), NEW delta \in Int
  PROVE  Sends(Go(t, delta))
<1> DEFINE target == t.index + delta
           e == t.history[target]
           moved == [t EXCEPT !.index = target, !.url = e.url]
           loaded == [moved EXCEPT !.history = Relabelled(t, target, nextSeq), !.loading = TRUE]
           traverse == [m |-> "traverse", url |-> e.url, ix |-> e.ix]
<1>1. /\ nextSeq \in Nat \ {0} /\ t.history \in Seq(Entries(nextSeq))
      /\ t.index \in 1..Len(t.history) /\ t.loading \in BOOLEAN /\ t.crashed \in BOOLEAN
      /\ t = [url |-> t.url, history |-> t.history, index |-> t.index,
              loading |-> t.loading, crashed |-> t.crashed]
  BY DEF TabTyped
<1>2. CASE delta = 0
  <2>1. Go(t, delta) = [tab |-> t, seq |-> nextSeq, msgs |-> <<[m |-> "reload"]>>]
    BY <1>2 DEF Go
  <2>2. <<[m |-> "reload"]>> \in Seq(Commands) /\ Len(<<[m |-> "reload"]>>) = 1
    BY CommandsTyped, TupleFacts
  <2> QED
    BY <2>1, <2>2 DEF Sends
<1>3. CASE delta # 0 /\ target \notin 1..Len(t.history)
  <2>1. Go(t, delta) = [tab |-> t, seq |-> nextSeq, msgs |-> << >>]
    BY <1>3 DEF Go
  <2>2. << >> \in Seq(Commands) /\ Len(<< >>) = 0
    BY CommandsTyped, TupleFacts
  <2> QED
    BY <2>1, <2>2 DEF Sends
<1>4. CASE delta # 0 /\ target \in 1..Len(t.history)
  <2>1. Go(t, delta) = IF e.seq = Current(t).seq
                       THEN [tab |-> moved, seq |-> nextSeq, msgs |-> <<traverse>>]
                       ELSE [tab |-> loaded, seq |-> nextSeq + 1, msgs |-> <<Navigate(e.url)>>]
    BY <1>4 DEF Go
  <2>2. e \in Entries(nextSeq) /\ target \in Nat
    BY <1>1, <1>4, ElementOfSeq
  <2>3. e.url \in Urls /\ e.ix \in Nat
    BY <2>2 DEF Entries
  <2> HIDE DEF target, e
  <2>4. moved = [url |-> e.url, history |-> t.history, index |-> target,
                 loading |-> t.loading, crashed |-> t.crashed]
    <3>1. moved = [t EXCEPT !.index = target, !.url = e.url]
      OBVIOUS
    <3> HIDE DEF moved
    <3> QED
      BY <1>1, <3>1
  <2>5. loaded = [url |-> e.url, history |-> Relabelled(t, target, nextSeq), index |-> target,
                  loading |-> TRUE, crashed |-> t.crashed]
    <3>1. loaded = [moved EXCEPT !.history = Relabelled(t, target, nextSeq), !.loading = TRUE]
      OBVIOUS
    <3> HIDE DEF loaded, moved
    <3> QED
      BY <2>4, <3>1
  <2> HIDE DEF moved, loaded
  <2>6. TabTyped(moved, nextSeq)
    BY <1>1, <1>4, <2>2, <2>3, <2>4 DEF TabTyped
  <2>7. TabTyped(loaded, nextSeq + 1)
    BY <1>1, <1>4, <2>2, <2>3, <2>5, RelabelledTyped DEF TabTyped
  <2>8. /\ <<traverse>> \in Seq(Commands) /\ Len(<<traverse>>) = 1
        /\ <<Navigate(e.url)>> \in Seq(Commands) /\ Len(<<Navigate(e.url)>>) = 1
    BY <2>3, CommandsTyped, TupleFacts
  <2> HIDE DEF traverse
  <2> QED
    BY <2>1, <2>6, <2>7, <2>8 DEF Sends
<1> QED
  BY <1>2, <1>3, <1>4

(* FromRenderer::HistoryPush and UrlChanged *)
LEMMA HistoryPushedTyped ==
  ASSUME NEW t, NEW seq, TabTyped(t, seq), NEW url \in Urls, NEW replace \in BOOLEAN
  PROVE  TabTyped(HistoryPushed(t, url, replace), seq)
<1> DEFINE c == Current(t)
           entry == Entry(url, c.seq, PushedIndex(c, replace))
           history == IF replace THEN [t.history EXCEPT ![t.index] = entry]
                      ELSE Append(SubSeq(t.history, 1, t.index), entry)
           index == IF replace THEN t.index ELSE Len(history)
           tab2 == [t EXCEPT !.history = history, !.index = index, !.url = url]
<1>1. /\ seq \in Nat \ {0} /\ t.history \in Seq(Entries(seq)) /\ t.index \in 1..Len(t.history)
      /\ t.loading \in BOOLEAN /\ t.crashed \in BOOLEAN
      /\ t = [url |-> t.url, history |-> t.history, index |-> t.index,
              loading |-> t.loading, crashed |-> t.crashed]
  BY DEF TabTyped
<1>2. HistoryPushed(t, url, replace) = tab2
  BY DEF HistoryPushed
<1>3. c \in Entries(seq)
  BY <1>1, ElementOfSeq DEF Current
<1> HIDE DEF c
<1>4. entry \in Entries(seq)
  BY <1>1, <1>3 DEF Entry, Entries, PushedIndex
<1> HIDE DEF entry
<1>5. history \in Seq(Entries(seq)) /\ index \in 1..Len(history) /\ index \in Nat
  BY <1>1, <1>4, EntryPut, LenProperties
<1> HIDE DEF history, index
<1>6. tab2 = [url |-> url, history |-> history, index |-> index,
              loading |-> t.loading, crashed |-> t.crashed]
  <2>1. tab2 = [t EXCEPT !.history = history, !.index = index, !.url = url]
    OBVIOUS
  <2> HIDE DEF tab2
  <2> QED
    BY <1>1, <2>1
<1> HIDE DEF tab2
<1> QED
  BY <1>1, <1>2, <1>5, <1>6 DEF TabTyped

LEMMA UrlChangedTyped ==
  ASSUME NEW t, NEW seq, TabTyped(t, seq), NEW url \in Urls
  PROVE  TabTyped(UrlChanged(t, url), seq)
<1> DEFINE entry == [t.history[t.index] EXCEPT !.url = url]
           history == [t.history EXCEPT ![t.index] = entry]
           tab2 == [t EXCEPT !.url = url, !.history = history]
<1>1. /\ seq \in Nat \ {0} /\ t.history \in Seq(Entries(seq)) /\ t.index \in 1..Len(t.history)
      /\ t.loading \in BOOLEAN /\ t.crashed \in BOOLEAN
      /\ t = [url |-> t.url, history |-> t.history, index |-> t.index,
              loading |-> t.loading, crashed |-> t.crashed]
  BY DEF TabTyped
<1>2. UrlChanged(t, url) = tab2
  BY <1>1 DEF UrlChanged
<1>3. entry \in Entries(seq)
  <2>1. PICK c \in Entries(seq) : c = t.history[t.index]
    BY <1>1, ElementOfSeq
  <2>2. entry = [c EXCEPT !.url = url]
    BY <2>1
  <2> HIDE DEF entry
  <2> QED
    BY <2>2 DEF Entries
<1> HIDE DEF entry
<1>4. history \in Seq(Entries(seq)) /\ Len(history) = Len(t.history)
  BY <1>1, <1>3, EntryPut
<1> HIDE DEF history
<1>5. tab2 = [url |-> url, history |-> history, index |-> t.index,
              loading |-> t.loading, crashed |-> t.crashed]
  <2>1. tab2 = [t EXCEPT !.url = url, !.history = history]
    OBVIOUS
  <2> HIDE DEF tab2
  <2> QED
    BY <1>1, <2>1
<1> HIDE DEF tab2
<1> QED
  BY <1>1, <1>2, <1>4, <1>5, LenProperties DEF TabTyped

-----------------------------------------------------------------------------
(* The browser sends: the last load sent is what it wants. *)
LEMMA WantedTyped ==
  ASSUME NEW msgs \in Seq(Commands), Len(msgs) <= 2, wanted \in Commands
  PROVE  /\ WantedAfter(msgs) \in Commands
         /\ LoadsIn(msgs) = {} => WantedAfter(msgs) = wanted
         /\ \A n \in LoadsIn(msgs) :
              (\A k \in LoadsIn(msgs) : k <= n) => WantedAfter(msgs) = msgs[n]
<1> DEFINE last == CHOOSE n \in LoadsIn(msgs) : \A k \in LoadsIn(msgs) : k <= n
<1>1. WantedAfter(msgs) = IF LoadsIn(msgs) = {} THEN wanted ELSE msgs[last]
  BY DEF WantedAfter, LoadsIn, IsLoad
<1>2. Len(msgs) \in 0..2 /\ LoadsIn(msgs) \subseteq 1..Len(msgs)
  <2>1. Len(msgs) \in Nat
    BY LenProperties
  <2>2. Len(msgs) \in 0..2
    <3>1. \A n \in Nat : n <= 2 => n \in 0..2
      OBVIOUS
    <3>2. Len(msgs) <= 2
      OBVIOUS
    <3> QED
      BY <2>1, <3>1, <3>2, Zenon
  <2>3. LoadsIn(msgs) \subseteq 1..Len(msgs)
    BY DEF LoadsIn
  <2> QED
    BY <2>2, <2>3
<1>3. ASSUME NEW n \in LoadsIn(msgs), \A k \in LoadsIn(msgs) : k <= n
      PROVE  last = n
  <2>1. last \in LoadsIn(msgs) /\ \A k \in LoadsIn(msgs) : k <= last
    BY <1>3
  <2> HIDE DEF last
  <2> QED
    BY <1>2, <1>3, <2>1
<1>4. ASSUME LoadsIn(msgs) # {}
      PROVE  last \in LoadsIn(msgs)
  <2>1. \E n \in LoadsIn(msgs) : \A k \in LoadsIn(msgs) : k <= n
    BY <1>2, <1>4
  <2> QED
    BY <2>1
<1> HIDE DEF last
<1>5. LoadsIn(msgs) # {} => msgs[last] \in Commands
  BY <1>2, <1>4, ElementOfSeq
<1> QED
  BY <1>1, <1>3, <1>5

LEMMA LinkAfter ==
  ASSUME NEW q \in Seq(Commands), NEW msgs \in Seq(Commands)
  PROVE  /\ q \o msgs \in Seq(Commands)
         /\ Len(q \o msgs) = Len(q) + Len(msgs)
         /\ \A n \in 1..Len(q) : (q \o msgs)[n] = q[n]
         /\ \A n \in 1..Len(msgs) : (q \o msgs)[Len(q) + n] = msgs[n]
         /\ Len(q) \in Nat /\ Len(msgs) \in Nat
<1>1. Len(q) \in Nat /\ Len(msgs) \in Nat
  BY LenProperties
<1>2. q \o msgs \in Seq(Commands) /\ Len(q \o msgs) = Len(q) + Len(msgs)
  BY ConcatProperties
<1>3. \A n \in 1..Len(q) : (q \o msgs)[n] = q[n]
  BY <1>1, ConcatProperties
<1>4. ASSUME NEW n \in 1..Len(msgs) PROVE (q \o msgs)[Len(q) + n] = msgs[n]
  <2>1. Len(q) + n \in 1..Len(q) + Len(msgs) /\ ~(Len(q) + n <= Len(q)) /\ (Len(q) + n) - Len(q) = n
    BY <1>1
  <2> QED
    BY <2>1, ConcatProperties
<1> QED
  BY <1>1, <1>2, <1>3, <1>4

LEMMA LoadsAfter ==
  ASSUME NEW q \in Seq(Commands), NEW msgs \in Seq(Commands)
  PROVE  /\ \A n \in LoadsIn(q) : n \in LoadsIn(q \o msgs)
         /\ \A n \in LoadsIn(msgs) : Len(q) + n \in LoadsIn(q \o msgs)
         /\ \A n \in LoadsIn(q \o msgs) :
              \/ n \in LoadsIn(q) /\ (q \o msgs)[n] = q[n]
              \/ n - Len(q) \in LoadsIn(msgs) /\ (q \o msgs)[n] = msgs[n - Len(q)]
<1> DEFINE both == q \o msgs
<1>1. /\ Len(both) = Len(q) + Len(msgs) /\ Len(q) \in Nat /\ Len(msgs) \in Nat
      /\ \A n \in 1..Len(q) : both[n] = q[n]
      /\ \A n \in 1..Len(msgs) : both[Len(q) + n] = msgs[n]
  BY LinkAfter
<1> HIDE DEF both
<1>2. \A n \in LoadsIn(q) : n \in LoadsIn(both)
  BY <1>1 DEF LoadsIn, IsLoad
<1>3. ASSUME NEW n \in LoadsIn(msgs) PROVE Len(q) + n \in LoadsIn(both)
  <2>1. n \in 1..Len(msgs) /\ IsLoad(msgs[n])
    BY DEF LoadsIn
  <2>2. Len(q) + n \in 1..Len(both) /\ both[Len(q) + n] = msgs[n]
    BY <1>1, <2>1
  <2> QED
    BY <2>1, <2>2 DEF LoadsIn
<1>4. ASSUME NEW n \in LoadsIn(both)
      PROVE  \/ n \in LoadsIn(q) /\ both[n] = q[n]
             \/ n - Len(q) \in LoadsIn(msgs) /\ both[n] = msgs[n - Len(q)]
  <2>1. n \in 1..Len(both) /\ IsLoad(both[n])
    BY DEF LoadsIn
  <2>2. CASE n <= Len(q)
    BY <1>1, <2>1, <2>2 DEF LoadsIn
  <2>3. CASE ~(n <= Len(q))
    <3>1. n - Len(q) \in 1..Len(msgs) /\ Len(q) + (n - Len(q)) = n
      BY <1>1, <2>1, <2>3
    <3>2. both[n] = msgs[n - Len(q)]
      BY <1>1, <3>1
    <3> QED
      BY <2>1, <3>1, <3>2 DEF LoadsIn
  <2> QED
    BY <2>2, <2>3
<1> QED
  BY <1>2, <1>3, <1>4 DEF both

(* The browser handles the oldest report, or acts without one. *)
Handled == fromR' = fromR \/ (fromR # << >> /\ fromR' = Tail(fromR))

LEMMA HandledKeeps ==
  ASSUME fromR \in Seq(Reports), DeathIsLast, Handled, UNCHANGED <<rend, fetches>>,
         ~rend.alive => toR' = << >>
  PROVE  fromR' \in Seq(Reports) /\ DeathIsLast'
<1>1. CASE fromR' = fromR
  BY <1>1 DEF DeathIsLast
<1>2. CASE fromR # << >> /\ fromR' = Tail(fromR)
  <2>1. /\ fromR' \in Seq(Reports) /\ Len(fromR') = Len(fromR) - 1 /\ Len(fromR) \in Nat
        /\ \A n \in 1..Len(fromR') : fromR'[n] = fromR[n + 1]
    BY <1>2, HeadTailProperties, LenProperties
  <2>2. \A n \in 1..Len(fromR') : n + 1 \in 1..Len(fromR) /\ (n + 1 = Len(fromR) => n = Len(fromR'))
    BY <2>1
  <2> QED
    BY <2>1, <2>2 DEF DeathIsLast
<1> QED
  BY <1>1, <1>2 DEF Handled

(* Whatever the browser does, the last load it sent is the one it wants, and
   the renderer goes where it went. *)
LEMMA BrowserDoesKeeps ==
  ASSUME NavigationInvariant, NEW r, Sends(r), BrowserDoes(r), Handled,
         UNCHANGED <<rend, fetches, crashes>>
  PROVE  NavigationInvariant'
<1> DEFINE msgs == r.msgs
<1>1. /\ TabTyped(tab, nextSeq) /\ LinksTyped /\ RendererTyped /\ DeathIsLast
      /\ GenerationsReached /\ LastSentIsWanted /\ TakenIsHeadedFor
  BY DEF NavigationInvariant, WellFormed
<1>2. /\ TabTyped(tab, nextSeq)'
      /\ msgs \in Seq(Commands) /\ Len(msgs) <= 2
      /\ toR' = IF rend.alive THEN toR \o msgs ELSE toR
      /\ wanted' = WantedAfter(msgs)
  BY DEF BrowserDoes, Sends, Sent
<1> HIDE DEF msgs
<1>3. /\ wanted' \in Commands
      /\ LoadsIn(msgs) = {} => wanted' = wanted
      /\ \A n \in LoadsIn(msgs) : (\A k \in LoadsIn(msgs) : k <= n) => wanted' = msgs[n]
  BY <1>1, <1>2, WantedTyped DEF LinksTyped
<1>4. fromR' \in Seq(Reports) /\ DeathIsLast'
  BY <1>1, <1>2, HandledKeeps DEF LinksTyped, DeathIsLast
<1>5. WellFormed'
  <2>1. toR' \in Seq(Commands)
    BY <1>1, <1>2, LinkAfter DEF LinksTyped
  <2>2. LinksTyped'
    BY <1>1, <1>3, <1>4, <2>1 DEF LinksTyped
  <2>3. RendererTyped'
    BY <1>1 DEF RendererTyped
  <2> QED
    BY <1>2, <2>2, <2>3 DEF WellFormed
<1>6. GenerationsReached'
  BY <1>1 DEF GenerationsReached
<1>7. LastSentIsWanted'
  <2> SUFFICES ASSUME rend.alive, NEW n \in LoadsIn(toR \o msgs),
                      \A k \in LoadsIn(toR \o msgs) : k <= n
               PROVE  (toR \o msgs)[n] = wanted'
    BY <1>2 DEF LastSentIsWanted, LoadsIn
  <2>1. Len(toR) \in Nat /\ Len(msgs) \in Nat /\ toR \in Seq(Commands)
    BY <1>1, <1>2, LenProperties DEF LinksTyped
  <2>2. CASE n - Len(toR) \in LoadsIn(msgs) /\ (toR \o msgs)[n] = msgs[n - Len(toR)]
    <3>1. ASSUME NEW k \in LoadsIn(msgs) PROVE k <= n - Len(toR)
      <4>1. Len(toR) + k <= n
        BY <1>2, <2>1, LoadsAfter
      <4>2. k \in Nat /\ n \in Int
        BY <2>1, <1>2, LinkAfter DEF LoadsIn
      <4> QED
        BY <2>1, <4>1, <4>2
    <3> QED
      BY <1>3, <2>2, <3>1
  <2>3. CASE n \in LoadsIn(toR) /\ (toR \o msgs)[n] = toR[n]
    <3>1. LoadsIn(msgs) = {}
      <4> SUFFICES ASSUME NEW k \in LoadsIn(msgs) PROVE FALSE
        OBVIOUS
      <4>1. Len(toR) + k <= n
        BY <1>2, <2>1, LoadsAfter
      <4>2. k \in 1..Len(msgs) /\ n \in 1..Len(toR)
        BY <2>3 DEF LoadsIn
      <4> QED
        BY <2>1, <4>1, <4>2
    <3>2. \A k \in LoadsIn(toR) : k <= n
      BY <1>2, <2>1, LoadsAfter
    <3>3. toR[n] = wanted
      BY <1>1, <2>3, <3>2 DEF LastSentIsWanted
    <3> QED
      BY <1>3, <2>3, <3>1, <3>3
  <2> QED
    BY <1>2, <2>1, <2>2, <2>3, LoadsAfter
<1>8. TakenIsHeadedFor'
  <2> SUFFICES ASSUME rend.alive, LoadsIn(toR \o msgs) = {}, AskedForWhole'
               PROVE  HeadsFor(wanted'.url.doc)
    BY <1>2 DEF TakenIsHeadedFor, HeadsFor, LoadsIn
  <2>1. LoadsIn(toR) = {} /\ LoadsIn(msgs) = {}
    BY <1>1, <1>2, LoadsAfter DEF LinksTyped
  <2>2. wanted' = wanted
    BY <1>3, <2>1
  <2> QED
    BY <1>1, <2>1, <2>2 DEF TakenIsHeadedFor, AskedForWhole, AskedForDocument
<1> QED
  BY <1>4, <1>5, <1>6, <1>7, <1>8 DEF NavigationInvariant

-----------------------------------------------------------------------------
(* The renderer takes the oldest command: the rest still ends with what is
   wanted, and if the rest has no load, the command was the one wanted. *)
LEMMA CommandTaken ==
  ASSUME NavigationInvariant, NEW kind, Receive(kind)
  PROVE  /\ rend.alive /\ Head(toR) \in Commands /\ Head(toR).m = kind
         /\ toR' \in Seq(Commands)
         /\ UNCHANGED <<tab, nextSeq, crashes, wanted>>
         /\ \A n \in LoadsIn(toR') : (\A k \in LoadsIn(toR') : k <= n) => toR'[n] = wanted
         /\ LoadsIn(toR') = {} /\ IsLoad(Head(toR)) => Head(toR) = wanted
         /\ LoadsIn(toR') = {} /\ ~IsLoad(Head(toR)) => LoadsIn(toR) = {}
<1>1. /\ toR \in Seq(Commands) /\ toR # << >> /\ toR' = Tail(toR) /\ rend.alive
      /\ Head(toR).m = kind /\ UNCHANGED <<tab, nextSeq, crashes, wanted>>
  BY DEF NavigationInvariant, WellFormed, LinksTyped, Receive
<1>2. /\ Tail(toR) \in Seq(Commands) /\ Head(toR) \in Commands /\ Head(toR) = toR[1]
      /\ Len(Tail(toR)) = Len(toR) - 1 /\ Len(toR) \in Nat /\ Len(toR) >= 1
      /\ \A n \in 1..Len(Tail(toR)) : Tail(toR)[n] = toR[n + 1]
  BY <1>1, HeadTailProperties, LenProperties
<1>3. \A n \in LoadsIn(toR) : (\A k \in LoadsIn(toR) : k <= n) => toR[n] = wanted
  BY <1>1 DEF NavigationInvariant, LastSentIsWanted
<1>4. \A n \in LoadsIn(Tail(toR)) : n \in Nat /\ n + 1 \in LoadsIn(toR) /\ Tail(toR)[n] = toR[n + 1]
  BY <1>2 DEF LoadsIn
<1>5. \A n \in LoadsIn(toR) : n = 1 \/ n - 1 \in LoadsIn(Tail(toR))
  <2> SUFFICES ASSUME NEW n \in LoadsIn(toR), n # 1 PROVE n - 1 \in LoadsIn(Tail(toR))
    OBVIOUS
  <2>1. n \in 1..Len(toR) /\ IsLoad(toR[n])
    BY DEF LoadsIn
  <2>2. n - 1 \in 1..Len(Tail(toR)) /\ (n - 1) + 1 = n
    BY <1>2, <2>1
  <2>3. Tail(toR)[n - 1] = toR[n]
    BY <1>2, <2>2
  <2> QED
    BY <2>1, <2>2, <2>3 DEF LoadsIn
<1>6. ASSUME NEW n \in LoadsIn(Tail(toR)), \A k \in LoadsIn(Tail(toR)) : k <= n
      PROVE  Tail(toR)[n] = wanted
  <2>1. ASSUME NEW k \in LoadsIn(toR) PROVE k <= n + 1
    <3>1. CASE k = 1
      <4>1. n \in Nat
        BY <1>4
      <4> QED
        BY <3>1, <4>1
    <3>2. CASE k - 1 \in LoadsIn(Tail(toR))
      <4>1. k - 1 <= n /\ n \in Nat /\ k \in Nat
        BY <1>4, <1>6, <3>2 DEF LoadsIn
      <4> QED
        BY <4>1
    <3> QED
      BY <1>5, <3>1, <3>2
  <2> QED
    BY <1>3, <1>4, <2>1
<1>7. ASSUME LoadsIn(Tail(toR)) = {}, IsLoad(Head(toR)) PROVE Head(toR) = wanted
  <2>1. \A k \in LoadsIn(toR) : k = 1
    BY <1>5, <1>7
  <2>2. 1 \in 1..Len(toR) /\ IsLoad(toR[1])
    BY <1>2, <1>7
  <2>3. 1 \in LoadsIn(toR)
    BY <2>2 DEF LoadsIn
  <2>4. \A k \in LoadsIn(toR) : k <= 1
    BY <2>1
  <2> QED
    BY <1>2, <1>3, <2>3, <2>4
<1>8. ASSUME LoadsIn(Tail(toR)) = {}, ~IsLoad(Head(toR)) PROVE LoadsIn(toR) = {}
  BY <1>2, <1>5, <1>8 DEF LoadsIn
<1> QED
  BY <1>1, <1>2, <1>6, <1>7, <1>8

(* What every step of a living renderer leaves to show: it reports to the
   browser and takes a command, or none. *)
Works(msgs) ==
  /\ rend.alive /\ rend'.alive
  /\ msgs \in Seq(Reports) /\ \A n \in 1..Len(msgs) : msgs[n].m # "none"
  /\ fromR' = fromR \o msgs
  /\ UNCHANGED <<tab, nextSeq, crashes, wanted>>
  /\ UNCHANGED toR \/ \E kind \in {"navigate", "reload", "html", "stop", "traverse"} : Receive(kind)

LEMMA WorksKeeps ==
  ASSUME NavigationInvariant, NEW msgs, Works(msgs),
         RendererTyped', GenerationsReached', TakenIsHeadedFor'
  PROVE  NavigationInvariant'
<1>1. /\ TabTyped(tab, nextSeq) /\ LinksTyped /\ DeathIsLast /\ LastSentIsWanted
  BY DEF NavigationInvariant, WellFormed
<1>2. /\ toR' \in Seq(Commands)
      /\ \A n \in LoadsIn(toR') : (\A k \in LoadsIn(toR') : k <= n) => toR'[n] = wanted
  <2>1. CASE UNCHANGED toR
    BY <1>1, <2>1 DEF LinksTyped, LastSentIsWanted, Works
  <2>2. CASE \E kind \in {"navigate", "reload", "html", "stop", "traverse"} : Receive(kind)
    BY <2>2, CommandTaken
  <2> QED
    BY <2>1, <2>2 DEF Works
<1>3. /\ fromR \in Seq(Reports) /\ msgs \in Seq(Reports) /\ fromR' = fromR \o msgs
      /\ \A n \in 1..Len(msgs) : msgs[n].m # "none"
      /\ rend.alive /\ rend'.alive /\ UNCHANGED <<tab, nextSeq, crashes, wanted>>
  BY <1>1 DEF Works, LinksTyped
<1>4. /\ fromR' \in Seq(Reports) /\ Len(fromR') = Len(fromR) + Len(msgs)
      /\ Len(fromR) \in Nat /\ Len(msgs) \in Nat
  BY <1>3, ConcatProperties, LenProperties
<1>5. \A n \in 1..Len(fromR') : fromR'[n].m # "none"
  <2> SUFFICES ASSUME NEW n \in 1..Len(fromR') PROVE fromR'[n].m # "none"
    OBVIOUS
  <2>1. CASE n <= Len(fromR)
    <3>1. n \in 1..Len(fromR) /\ fromR'[n] = fromR[n]
      BY <1>3, <1>4, <2>1, ConcatProperties
    <3> QED
      BY <1>1, <1>3, <3>1 DEF DeathIsLast
  <2>2. CASE ~(n <= Len(fromR))
    <3>1. n - Len(fromR) \in 1..Len(msgs) /\ fromR'[n] = msgs[n - Len(fromR)]
      BY <1>3, <1>4, <2>2, ConcatProperties
    <3> QED
      BY <1>3, <3>1
  <2> QED
    BY <2>1, <2>2
<1>6. DeathIsLast'
  BY <1>3, <1>5 DEF DeathIsLast
<1>7. WellFormed'
  <2>1. LinksTyped'
    BY <1>1, <1>2, <1>3, <1>4 DEF LinksTyped
  <2>2. TabTyped(tab, nextSeq)'
    BY <1>1, <1>3 DEF TabTyped, Entries
  <2> QED
    BY <2>1, <2>2 DEF WellFormed
<1>8. LastSentIsWanted'
  BY <1>2, <1>3 DEF LastSentIsWanted
<1> QED
  BY <1>6, <1>7, <1>8 DEF NavigationInvariant

(* What the renderer reports. *)
LEMMA ReportsTyped ==
  /\ \A url \in Urls, by \in Deeds : UrlMsg(url, by) \in Reports
  /\ \A event \in {"started", "failed", "load"} : LoadMsg(event) \in Reports
  /\ \A url \in Urls, replace \in BOOLEAN :
       /\ [m |-> "open", url |-> url, replace |-> replace] \in Reports
       /\ \A by \in Deeds : [m |-> "push", url |-> url, replace |-> replace, by |-> by] \in Reports
  /\ \A delta \in Deltas : [m |-> "go", delta |-> delta] \in Reports
  /\ [m |-> "none"] \in Reports
  BY DEF Reports, UrlMsg, LoadMsg

LEMMA NoDeathReported ==
  /\ \A url, by : UrlMsg(url, by).m # "none"
  /\ \A event : LoadMsg(event).m # "none"
  BY DEF UrlMsg, LoadMsg

(* One report, two or none, none of which is the renderer's death. *)
LEMMA ReportsSent ==
  ASSUME NEW a \in Reports, NEW b \in Reports, a.m # "none", b.m # "none"
  PROVE  /\ << >> \in Seq(Reports) /\ \A n \in 1..Len(<< >>) : << >>[n].m # "none"
         /\ <<a>> \in Seq(Reports) /\ \A n \in 1..Len(<<a>>) : <<a>>[n].m # "none"
         /\ <<a, b>> \in Seq(Reports) /\ \A n \in 1..Len(<<a, b>>) : <<a, b>>[n].m # "none"
<1>1. /\ << >> \in Seq(Reports) /\ Len(<< >>) = 0
      /\ <<a>> \in Seq(Reports) /\ Len(<<a>>) = 1 /\ <<a>>[1] = a
      /\ <<a, b>> \in Seq(Reports) /\ Len(<<a, b>>) = 2 /\ <<a, b>>[1] = a /\ <<a, b>>[2] = b
  BY TupleFacts
<1>2. \A n \in 1..Len(<< >>) : << >>[n].m # "none"
  BY <1>1
<1>3. \A n \in 1..Len(<<a>>) : <<a>>[n].m # "none"
  BY <1>1
<1>4. \A n \in 1..Len(<<a, b>>) : <<a, b>>[n].m # "none"
  BY <1>1
<1> QED
  BY <1>1, <1>2, <1>3, <1>4

-----------------------------------------------------------------------------
(* The renderer's state with some of it changed. *)
RendOf(alive, gen, nav, page) == [alive |-> alive, gen |-> gen, nav |-> nav, page |-> page]

LEMMA RendererParts ==
  ASSUME RendererTyped
  PROVE  /\ rend = RendOf(rend.alive, rend.gen, rend.nav, rend.page)
         /\ rend.alive \in BOOLEAN /\ rend.gen \in Nat /\ rend.nav \in 0..rend.gen
         /\ rend.page \in Pages \cup {None}
         /\ fetches \subseteq FetchStates
  BY DEF RendererTyped, RendOf

LEMMA RendererMade ==
  ASSUME NEW alive \in BOOLEAN, NEW gen \in Nat, NEW nav \in 0..gen, NEW page \in Pages \cup {None},
         rend' = RendOf(alive, gen, nav, page), fetches' \subseteq FetchStates
  PROVE  /\ RendererTyped'
         /\ rend'.alive = alive /\ rend'.gen = gen /\ rend'.nav = nav /\ rend'.page = page
<1>1. rend'.alive = alive /\ rend'.gen = gen /\ rend'.nav = nav /\ rend'.page = page
  BY DEF RendOf
<1>2. rend' \in [alive : BOOLEAN, gen : Nat, nav : Nat, page : Pages \cup {None}]
  <2>1. nav \in Nat
    OBVIOUS
  <2> QED
    BY <2>1 DEF RendOf
<1> QED
  BY <1>1, <1>2 DEF RendererTyped

(* A page of which only what its script or its reader changes is changed. *)
LEMMA PageChanged ==
  ASSUME NEW page \in Pages, NEW url \in Urls, NEW ix \in Nat
  PROVE  /\ \A r : r = [page EXCEPT !.url = url] =>
               r \in Pages /\ r.by = page.by /\ r.from = page.from

         /\ \A r : r = [page EXCEPT !.jsUrl = url, !.jsIx = ix] =>
               r \in Pages /\ r.by = page.by /\ r.from = page.from
         /\ \A r : r = [page EXCEPT !.loadSent = TRUE] =>
               r \in Pages /\ r.by = page.by /\ r.from = page.from
  BY DEF Pages

LEMMA PageLoaded ==
  ASSUME NEW url \in Urls, NEW gen \in Nat, NEW script \in BOOLEAN, crashes \in Nat
  PROVE  /\ Loaded(url, gen, script) \in Pages
         /\ Loaded(url, gen, script).by = <<crashes, gen>>
         /\ Loaded(url, gen, script).from = url.doc
         /\ Loaded(url, gen, script).url = url
         /\ <<crashes, gen>> \in Deeds /\ <<crashes, gen>>[2] = gen
<1> DEFINE page == Loaded(url, gen, script)
<1>1. page = [url |-> url, from |-> url.doc, by |-> <<crashes, gen>>, script |-> script,
              loadSent |-> FALSE, jsUrl |-> url, jsIx |-> 0]
  BY DEF Loaded
<1>2. url.doc \in Docs \cup {Home} /\ <<crashes, gen>> \in Deeds
  BY DEF Urls, Deeds
<1> HIDE DEF page
<1>3. page \in Pages
  BY <1>1, <1>2 DEF Pages
<1> QED
  BY <1>1, <1>2, <1>3 DEF page

(* Only the page's URLs and marks change: the renderer goes where it went. *)
LEMMA PageChangeKeeps ==
  ASSUME NavigationInvariant, rend.page # None, NEW page \in Pages,
         page.by = rend.page.by, page.from = rend.page.from,
         rend' = [rend EXCEPT !.page = page], UNCHANGED <<fetches, wanted>>,
         LoadsIn(toR') = {} => LoadsIn(toR) = {}
  PROVE  RendererTyped' /\ GenerationsReached' /\ TakenIsHeadedFor' /\ rend'.alive = rend.alive
<1>1. /\ RendererTyped /\ GenerationsReached /\ TakenIsHeadedFor
  BY DEF NavigationInvariant, WellFormed
<1>2. /\ rend = RendOf(rend.alive, rend.gen, rend.nav, rend.page)
      /\ rend.alive \in BOOLEAN /\ rend.gen \in Nat /\ rend.nav \in 0..rend.gen
      /\ fetches \subseteq FetchStates
  BY <1>1, RendererParts
<1>3. rend' = RendOf(rend.alive, rend.gen, rend.nav, page)
  BY <1>2 DEF RendOf
<1>4. /\ RendererTyped'
      /\ rend'.alive = rend.alive /\ rend'.gen = rend.gen /\ rend'.page = page
  BY <1>2, <1>3, RendererMade
<1>5. GenerationsReached'
  BY <1>1, <1>4 DEF GenerationsReached
<1>6. TakenIsHeadedFor'
  <2> SUFFICES ASSUME rend.alive, LoadsIn(toR) = {}, AskedForWhole
               PROVE  HeadsFor(wanted.url.doc)'
    BY <1>4 DEF TakenIsHeadedFor, AskedForWhole, AskedForDocument
  <2>1. HeadsFor(wanted.url.doc)
    BY <1>1 DEF TakenIsHeadedFor
  <2> QED
    BY <1>4, <2>1 DEF HeadsFor
<1> QED
  BY <1>4, <1>5, <1>6

(* A navigation: the newest fetch is the one for its document, or the last
   command asked for a fragment. *)
LEMMA NavigateToKeeps ==
  ASSUME NavigationInvariant, NEW url \in Urls, NavigateTo(url),
         NEW kind \in {"navigate", "reload"}, Receive(kind),
         AskedForWhole /\ LoadsIn(toR') = {} => url = wanted.url
  PROVE  NavigationInvariant'
<1> DEFINE page == rend.page
           gen == rend.gen + 1
           new == [gen |-> gen, url |-> url, at |-> "net", ok |-> TRUE]
           scrolls == page # None /\ page.url.doc = url.doc /\ url.frag # 0 /\ page.url # url
<1>1. /\ rend.alive /\ UNCHANGED <<tab, nextSeq, crashes, wanted>>
  BY CommandTaken
<1>2. /\ RendererTyped /\ GenerationsReached /\ TakenIsHeadedFor
      /\ rend = RendOf(rend.alive, rend.gen, rend.nav, rend.page)
      /\ rend.alive \in BOOLEAN /\ rend.gen \in Nat /\ rend.nav \in 0..rend.gen
      /\ rend.page \in Pages \cup {None} /\ fetches \subseteq FetchStates
  BY RendererParts DEF NavigationInvariant, WellFormed
<1>3. CASE scrolls
  <2>1. /\ rend' = [rend EXCEPT !.page.url = url] /\ UNCHANGED fetches
        /\ fromR' = fromR \o <<UrlMsg(url, page.by)>>
    BY <1>3 DEF NavigateTo, Report
  <2>2. PICK next : next = [page EXCEPT !.url = url]
    OBVIOUS
  <2>3. page \in Pages /\ next \in Pages /\ next.by = page.by /\ next.from = page.from
    <3>1. page \in Pages
      BY <1>2, <1>3
    <3> HIDE DEF page
    <3> QED
      BY <2>2, <3>1, PageChanged
  <2>4. rend' = RendOf(rend.alive, rend.gen, rend.nav, next)
    BY <1>2, <2>1, <2>2 DEF RendOf
  <2>5. /\ RendererTyped'
        /\ rend'.alive = rend.alive /\ rend'.gen = rend.gen /\ rend'.page = next
    BY <1>2, <2>1, <2>3, <2>4, RendererMade
  <2>6. GenerationsReached'
    BY <1>2, <1>3, <2>1, <2>3, <2>5 DEF GenerationsReached
  <2>7. TakenIsHeadedFor'
    BY <1>1, <1>3 DEF TakenIsHeadedFor, AskedForWhole, AskedForDocument
  <2>8. UrlMsg(url, page.by) \in Reports /\ UrlMsg(url, page.by).m # "none"
    BY <2>3, ReportsTyped, NoDeathReported DEF Pages
  <2>9. Works(<<UrlMsg(url, page.by)>>)
    BY <1>1, <2>1, <2>5, <2>8, ReportsSent DEF Works
  <2> QED
    BY <2>5, <2>6, <2>7, <2>9, WorksKeeps
<1>4. CASE ~scrolls
  <2>1. /\ rend' = [rend EXCEPT !.gen = gen, !.nav = gen]
        /\ fetches' = Aborted(rend.nav) \cup {new}
        /\ fromR' = fromR \o <<LoadMsg("started")>>
    BY <1>4 DEF NavigateTo, Report
  <2>2. gen \in Nat /\ gen \in 0..gen
    BY <1>2
  <2>3. rend' = RendOf(rend.alive, gen, gen, page)
    BY <1>2, <2>1 DEF RendOf
  <2>4. new \in FetchStates /\ new.gen = gen /\ new.url = url
    BY <2>2 DEF FetchStates
  <2> HIDE DEF new
  <2>5. fetches' \subseteq fetches \cup {new} /\ fetches' \subseteq FetchStates /\ new \in fetches'
    BY <1>2, <2>1, <2>4 DEF Aborted
  <2>6. /\ RendererTyped'
        /\ rend'.alive = rend.alive /\ rend'.gen = gen /\ rend'.page = page
    BY <1>2, <2>2, <2>3, <2>5, RendererMade
  <2>7. \A f \in fetches' : f = new \/ (f.gen <= rend.gen /\ f.gen \in Nat)
    BY <1>2, <2>5 DEF GenerationsReached, FetchStates
  <2>8. GenerationsReached'
    <3>1. rend.page # None => rend.page.by[2] <= rend.gen /\ rend.page.by[2] \in Nat
      BY <1>2 DEF GenerationsReached, Pages, Deeds
    <3> QED
      BY <1>2, <2>4, <2>6, <2>7, <3>1 DEF GenerationsReached
  <2>9. TakenIsHeadedFor'
    <3> SUFFICES ASSUME AskedForWhole, LoadsIn(toR') = {}
                 PROVE  HeadsFor(wanted.url.doc)'
      BY <1>1 DEF TakenIsHeadedFor, AskedForWhole, AskedForDocument
    <3>1. \A f \in fetches' : f.gen = gen => f = new
      BY <1>2, <2>2, <2>7
    <3>2. ~(\A f \in fetches' : f.gen # gen)
      BY <2>4, <2>5
    <3> QED
      BY <1>1, <2>4, <2>6, <3>1, <3>2 DEF HeadsFor
  <2>10. LoadMsg("started") \in Reports /\ LoadMsg("started").m # "none"
    BY ReportsTyped, NoDeathReported
  <2>11. Works(<<LoadMsg("started")>>)
    BY <1>1, <2>1, <2>6, <2>10, ReportsSent DEF Works
  <2> QED
    BY <2>6, <2>8, <2>9, <2>11, WorksKeeps
<1> QED
  BY <1>3, <1>4

LEMMA CommandFields ==
  ASSUME NEW msg \in Commands
  PROVE  /\ msg.m \in {"navigate", "html", "traverse"} => msg.url \in Urls
         /\ msg.m = "traverse" => msg.ix \in Nat
         /\ IsLoad(msg) <=> msg.m # "traverse"
  BY DEF Commands, IsLoad

LEMMA OnNavigateKeeps ==
  ASSUME NavigationInvariant, OnNavigate
  PROVE  NavigationInvariant'
<1>1. Receive("navigate") /\ NavigateTo(Head(toR).url)
  BY DEF OnNavigate
<1>2. Head(toR).url \in Urls /\ (LoadsIn(toR') = {} => Head(toR) = wanted)
  BY <1>1, CommandTaken, CommandFields
<1> QED
  BY <1>1, <1>2, NavigateToKeeps

LEMMA OnReloadKeeps ==
  ASSUME NavigationInvariant, OnReload
  PROVE  NavigationInvariant'
<1>1. Receive("reload")
  BY DEF OnReload
<1>2. /\ rend.alive /\ LoadsIn(toR') = {} => wanted.m = "reload"
      /\ UNCHANGED <<tab, nextSeq, crashes, wanted>>
  BY <1>1, CommandTaken, CommandFields
<1>3. ~(AskedForWhole /\ LoadsIn(toR') = {})
  BY <1>1, CommandTaken, CommandFields DEF AskedForWhole, AskedForDocument
<1>4. RendererTyped /\ GenerationsReached
  BY DEF NavigationInvariant, WellFormed
<1>5. CASE rend.page = None
  <2>1. UNCHANGED <<rend, fromR, fetches>>
    BY <1>5 DEF OnReload
  <2>2. rend.alive
    BY <1>1, CommandTaken
  <2>3. RendererTyped' /\ GenerationsReached' /\ TakenIsHeadedFor'
    BY <1>2, <1>3, <1>4, <2>1
       DEF RendererTyped, GenerationsReached, TakenIsHeadedFor, AskedForWhole, AskedForDocument
  <2>4. fromR \in Seq(Reports)
    BY DEF NavigationInvariant, WellFormed, LinksTyped
  <2>5. fromR' = fromR \o << >>
    BY <2>1, <2>4, ConcatEmptySeq
  <2>6. << >> \in Seq(Reports) /\ \A n \in 1..Len(<< >>) : << >>[n].m # "none"
    BY ReportsTyped, NoDeathReported, ReportsSent
  <2>7. Works(<< >>)
    BY <1>1, <1>2, <2>1, <2>2, <2>5, <2>6 DEF Works
  <2> QED
    BY <2>3, <2>7, WorksKeeps
<1>6. CASE rend.page # None
  <2>1. rend.page.url \in Urls
    BY <1>4, <1>6, RendererParts DEF Pages
  <2>2. NavigateTo(rend.page.url)
    BY <1>6 DEF OnReload
  <2> QED
    BY <1>1, <1>3, <2>1, <2>2, NavigateToKeeps
<1> QED
  BY <1>5, <1>6

LEMMA OnLoadHtmlKeeps ==
  ASSUME NavigationInvariant, OnLoadHtml
  PROVE  NavigationInvariant'
<1> DEFINE url == Head(toR).url
           page == Loaded(url, rend.gen + 1, FALSE)
<1>1. /\ Receive("html") /\ UNCHANGED fetches
      /\ rend' = [rend EXCEPT !.gen = @ + 1, !.page = page]
      /\ fromR' = fromR \o <<UrlMsg(page.url, page.by)>>
  BY DEF OnLoadHtml, Report
<1>2. /\ rend.alive /\ url \in Urls /\ (LoadsIn(toR') = {} => Head(toR) = wanted)
      /\ UNCHANGED <<tab, nextSeq, crashes, wanted>>
  BY <1>1, CommandTaken, CommandFields
<1>3. /\ RendererTyped /\ GenerationsReached /\ crashes \in Nat
      /\ rend = RendOf(rend.alive, rend.gen, rend.nav, rend.page)
      /\ rend.alive \in BOOLEAN /\ rend.gen \in Nat /\ rend.nav \in 0..rend.gen
      /\ fetches \subseteq FetchStates
  BY RendererParts DEF NavigationInvariant, WellFormed, LinksTyped
<1>4. /\ page \in Pages /\ page.by = <<crashes, rend.gen + 1>> /\ page.from = url.doc
      /\ page.url = url /\ page.by \in Deeds /\ page.by[2] = rend.gen + 1
  <2>1. rend.gen + 1 \in Nat /\ FALSE \in BOOLEAN
    BY <1>3
  <2> QED
    <3> HIDE DEF url
    <3>1. /\ page \in Pages /\ page.by = <<crashes, rend.gen + 1>> /\ page.from = url.doc
          /\ page.url = url
          /\ <<crashes, rend.gen + 1>> \in Deeds /\ <<crashes, rend.gen + 1>>[2] = rend.gen + 1
      BY <1>2, <1>3, <2>1, PageLoaded, ZenonT(30)
    <3> HIDE DEF page
    <3> QED
      BY <3>1, Zenon
<1>5. url = Head(toR).url
  OBVIOUS
<1> HIDE DEF page, url
<1>6. rend' = RendOf(rend.alive, rend.gen + 1, rend.nav, page)
  BY <1>1, <1>3 DEF RendOf
<1>7. /\ RendererTyped'
      /\ rend'.alive = rend.alive /\ rend'.gen = rend.gen + 1 /\ rend'.page = page
  <2>1. rend.gen + 1 \in Nat /\ rend.nav \in 0..(rend.gen + 1)
    BY <1>3
  <2> QED
    BY <1>1, <1>3, <1>4, <1>6, <2>1, RendererMade
<1>8. \A f \in fetches : f.gen <= rend.gen /\ f.gen \in Nat
  BY <1>3 DEF GenerationsReached, FetchStates
<1>9. GenerationsReached'
  BY <1>1, <1>3, <1>4, <1>7, <1>8 DEF GenerationsReached
<1>10. TakenIsHeadedFor'
  <2> SUFFICES ASSUME LoadsIn(toR') = {}
               PROVE  HeadsFor(wanted.url.doc)'
    BY <1>1 DEF TakenIsHeadedFor
  <2>1. page.from = wanted'.url.doc
    BY <1>2, <1>4, <1>5
  <2>2. \A f \in fetches' : f.gen # rend'.gen
    BY <1>1, <1>3, <1>7, <1>8
  <2> QED
    BY <1>7, <2>1, <2>2 DEF HeadsFor
<1>11. UrlMsg(page.url, page.by) \in Reports /\ UrlMsg(page.url, page.by).m # "none"
  BY <1>2, <1>4, ReportsTyped, NoDeathReported
<1>12. Works(<<UrlMsg(page.url, page.by)>>)
  BY <1>1, <1>2, <1>7, <1>11, ReportsSent DEF Works
<1> QED
  BY <1>7, <1>9, <1>10, <1>12, WorksKeeps

LEMMA OnStopKeeps ==
  ASSUME NavigationInvariant, OnStop
  PROVE  NavigationInvariant'
<1>1. /\ Receive("stop") /\ UNCHANGED fromR
      /\ rend' = IF rend.nav = 0 THEN rend ELSE [rend EXCEPT !.nav = 0, !.gen = @ + 1]
      /\ fetches' \subseteq fetches
  BY DEF OnStop, Aborted
<1>2. rend.alive /\ UNCHANGED <<tab, nextSeq, crashes, wanted>>
  BY <1>1, CommandTaken
<1>3. ~(AskedForWhole /\ LoadsIn(toR') = {})
  BY <1>1, CommandTaken, CommandFields DEF AskedForWhole, AskedForDocument
<1>4. /\ RendererTyped /\ GenerationsReached /\ fromR \in Seq(Reports)
      /\ rend = RendOf(rend.alive, rend.gen, rend.nav, rend.page)
      /\ rend.alive \in BOOLEAN /\ rend.gen \in Nat /\ rend.nav \in 0..rend.gen
      /\ rend.page \in Pages \cup {None} /\ fetches \subseteq FetchStates
  BY RendererParts DEF NavigationInvariant, WellFormed, LinksTyped
<1>5. PICK gen \in {rend.gen, rend.gen + 1}, nav \in {rend.nav, 0} :
        rend' = RendOf(rend.alive, gen, nav, rend.page)
  BY <1>1, <1>4 DEF RendOf
<1>6. /\ RendererTyped'
      /\ rend'.alive = rend.alive /\ rend'.gen = gen /\ rend'.page = rend.page
  <2>1. gen \in Nat /\ nav \in 0..gen
    BY <1>4, <1>5
  <2> QED
    BY <1>1, <1>4, <1>5, <2>1, RendererMade
<1>7. GenerationsReached'
  <2>1. rend.page # None => rend.page.by[2] <= rend.gen /\ rend.page.by[2] \in Nat
    BY <1>4 DEF GenerationsReached, Pages, Deeds
  <2>2. \A f \in fetches : f.gen <= rend.gen /\ f.gen \in Nat
    BY <1>4 DEF GenerationsReached, FetchStates
  <2> QED
    BY <1>1, <1>4, <1>5, <1>6, <2>1, <2>2 DEF GenerationsReached
<1>8. TakenIsHeadedFor'
  BY <1>2, <1>3 DEF TakenIsHeadedFor, AskedForWhole, AskedForDocument
<1>9. fromR' = fromR \o << >>
  BY <1>1, <1>4, ConcatEmptySeq
<1>10. << >> \in Seq(Reports) /\ \A n \in 1..Len(<< >>) : << >>[n].m # "none"
  BY ReportsTyped, NoDeathReported, ReportsSent
<1>11. Works(<< >>)
  BY <1>1, <1>2, <1>6, <1>9, <1>10 DEF Works
<1> QED
  BY <1>6, <1>7, <1>8, <1>11, WorksKeeps

LEMMA OnTraverseKeeps ==
  ASSUME NavigationInvariant, OnTraverse
  PROVE  NavigationInvariant'
<1> DEFINE url == Head(toR).url
           ix == Head(toR).ix
<1>1. Receive("traverse") /\ UNCHANGED fetches
  BY DEF OnTraverse
<1>2. /\ rend.alive /\ url \in Urls /\ ix \in Nat
      /\ LoadsIn(toR') = {} => LoadsIn(toR) = {}
      /\ UNCHANGED <<tab, nextSeq, crashes, wanted>>
  BY <1>1, CommandTaken, CommandFields
<1>3. /\ RendererTyped /\ GenerationsReached /\ TakenIsHeadedFor /\ fromR \in Seq(Reports)
      /\ rend = RendOf(rend.alive, rend.gen, rend.nav, rend.page)
      /\ rend.page \in Pages \cup {None} /\ fetches \subseteq FetchStates
  BY RendererParts DEF NavigationInvariant, WellFormed, LinksTyped
<1>4. CASE rend.page = None
  <2>1. UNCHANGED <<rend, fromR>>
    BY <1>4 DEF OnTraverse
  <2>2. RendererTyped' /\ GenerationsReached'
    BY <1>1, <1>3, <2>1 DEF RendererTyped, GenerationsReached
  <2>3. TakenIsHeadedFor'
    BY <1>1, <1>2, <1>3, <2>1
       DEF TakenIsHeadedFor, HeadsFor, AskedForWhole, AskedForDocument
  <2>4. fromR' = fromR \o << >>
    BY <1>3, <2>1, ConcatEmptySeq
  <2>5. << >> \in Seq(Reports) /\ \A n \in 1..Len(<< >>) : << >>[n].m # "none"
    BY ReportsTyped, NoDeathReported, ReportsSent
  <2>6. Works(<< >>)
    BY <1>1, <1>2, <2>1, <2>4, <2>5 DEF Works
  <2> QED
    BY <2>2, <2>3, <2>6, WorksKeeps
<1>5. CASE rend.page # None
  <2>1. /\ rend' = [rend EXCEPT !.page.url = url, !.page.jsUrl = url, !.page.jsIx = ix]
        /\ fromR' = fromR \o <<UrlMsg(url, rend.page.by)>>
    BY <1>5 DEF OnTraverse, Report
  <2> HIDE DEF url, ix
  <2>2. PICK next : next = [rend.page EXCEPT !.url = url, !.jsUrl = url, !.jsIx = ix]
    OBVIOUS
  <2>3. rend.page \in Pages
    BY <1>3, <1>5
  <2>4. next \in Pages /\ next.by = rend.page.by /\ next.from = rend.page.from
    BY <1>2, <2>2, <2>3 DEF Pages
  <2>5. rend' = [rend EXCEPT !.page = next]
    BY <1>3, <2>1, <2>2 DEF RendOf
  <2>6. /\ RendererTyped' /\ GenerationsReached' /\ TakenIsHeadedFor' /\ rend'.alive = rend.alive
    BY <1>1, <1>2, <1>5, <2>4, <2>5, PageChangeKeeps
  <2>7. UrlMsg(url, rend.page.by) \in Reports /\ UrlMsg(url, rend.page.by).m # "none"
    BY <1>2, <2>3, ReportsTyped, NoDeathReported DEF Pages
  <2>8. Works(<<UrlMsg(url, rend.page.by)>>)
    BY <1>1, <1>2, <2>1, <2>6, <2>7, ReportsSent DEF Works
  <2> QED
    BY <2>6, <2>8, WorksKeeps
<1> QED
  BY <1>4, <1>5

(* A step of the renderer or the network that reports nothing. *)
LEMMA QuietWork ==
  ASSUME NavigationInvariant, rend.alive, rend'.alive,
         UNCHANGED <<tab, nextSeq, toR, fromR, crashes, wanted>>
  PROVE  Works(<< >>)
<1>1. fromR \in Seq(Reports)
  BY DEF NavigationInvariant, WellFormed, LinksTyped
<1>2. fromR' = fromR \o << >>
  BY <1>1, ConcatEmptySeq
<1>3. << >> \in Seq(Reports) /\ \A n \in 1..Len(<< >>) : << >>[n].m # "none"
  BY ReportsTyped, NoDeathReported, ReportsSent
<1> QED
  BY <1>2, <1>3 DEF Works

LEMMA FetchAnsweredKeeps ==
  ASSUME NavigationInvariant, NEW f \in fetches, NEW ok \in BOOLEAN, FetchAnswered(f, ok)
  PROVE  NavigationInvariant'
<1> DEFINE g == [f EXCEPT !.at = "queued", !.ok = ok]
<1>1. /\ fetches' = (fetches \ {f}) \cup {g}
      /\ UNCHANGED <<tab, nextSeq, toR, fromR, rend, crashes, wanted>>
  BY DEF FetchAnswered
<1>2. /\ RendererTyped /\ GenerationsReached /\ TakenIsHeadedFor /\ DeathIsLast
      /\ rend.alive \in BOOLEAN /\ fetches \subseteq FetchStates
  BY RendererParts DEF NavigationInvariant, WellFormed
<1>3. rend.alive
  BY <1>2 DEF DeathIsLast
<1>4. g \in FetchStates /\ g.gen = f.gen /\ g.url = f.url
  <2>1. PICK h : h = g
    OBVIOUS
  <2>2. h \in FetchStates /\ h.gen = f.gen /\ h.url = f.url
    BY <1>2, <2>1 DEF FetchStates
  <2> QED
    BY <2>1, <2>2
<1> HIDE DEF g
<1>5. RendererTyped'
  BY <1>1, <1>2, <1>4 DEF RendererTyped
<1>6. GenerationsReached'
  BY <1>1, <1>2, <1>4 DEF GenerationsReached
<1>7. TakenIsHeadedFor'
  <2> SUFFICES ASSUME LoadsIn(toR) = {}, AskedForWhole
               PROVE  HeadsFor(wanted.url.doc)'
    BY <1>1 DEF TakenIsHeadedFor, AskedForWhole, AskedForDocument
  <2>1. HeadsFor(wanted.url.doc)
    BY <1>2, <1>3 DEF TakenIsHeadedFor
  <2>2. \A h \in fetches' : h = g \/ h \in fetches
    BY <1>1
  <2>3. \A h \in fetches' : h.gen = rend.gen => h.url.doc = wanted.url.doc
    BY <1>4, <2>1, <2>2 DEF HeadsFor
  <2>4. (\A h \in fetches' : h.gen # rend.gen) => \A h \in fetches : h.gen # rend.gen
    BY <1>1, <1>4
  <2> QED
    BY <1>1, <2>1, <2>3, <2>4 DEF HeadsFor
<1>8. Works(<< >>)
  BY <1>1, <1>3, QuietWork
<1> QED
  BY <1>5, <1>6, <1>7, <1>8, WorksKeeps

LEMMA OnDocumentKeeps ==
  ASSUME NavigationInvariant, NEW f \in fetches, OnDocument(f)
  PROVE  NavigationInvariant'
<1> DEFINE page == Loaded(f.url, f.gen, f.ok)
<1>1. /\ rend.alive /\ fetches' = fetches \ {f}
      /\ UNCHANGED <<tab, nextSeq, toR, crashes, wanted>>
  BY DEF OnDocument
<1>2. /\ RendererTyped /\ GenerationsReached /\ TakenIsHeadedFor /\ crashes \in Nat
      /\ rend = RendOf(rend.alive, rend.gen, rend.nav, rend.page)
      /\ rend.alive \in BOOLEAN /\ rend.gen \in Nat /\ fetches \subseteq FetchStates
  BY RendererParts DEF NavigationInvariant, WellFormed, LinksTyped
<1>3. /\ f.url \in Urls /\ f.gen \in Nat /\ f.ok \in BOOLEAN /\ fetches' \subseteq FetchStates
      /\ fetches' \subseteq fetches
  BY <1>1, <1>2 DEF FetchStates
<1>4. CASE Superseded(f)
  <2>1. UNCHANGED <<rend, fromR>>
    BY <1>4 DEF OnDocument
  <2>2. RendererTyped' /\ GenerationsReached'
    BY <1>2, <1>3, <2>1 DEF RendererTyped, GenerationsReached
  <2>3. TakenIsHeadedFor'
    <3> SUFFICES ASSUME LoadsIn(toR) = {}, AskedForWhole
                 PROVE  HeadsFor(wanted.url.doc)'
      BY <1>1 DEF TakenIsHeadedFor, AskedForWhole, AskedForDocument
    <3>1. HeadsFor(wanted.url.doc)
      BY <1>1, <1>2 DEF TakenIsHeadedFor
    <3>2. (\A h \in fetches' : h.gen # rend.gen) => \A h \in fetches : h.gen # rend.gen
      BY <1>1, <1>4 DEF Superseded
    <3> QED
      BY <1>1, <1>3, <2>1, <3>1, <3>2 DEF HeadsFor
  <2>4. Works(<< >>)
    BY <1>1, <2>1, QuietWork
  <2> QED
    BY <2>2, <2>3, <2>4, WorksKeeps
<1>5. CASE ~Superseded(f)
  <2> DEFINE msgs == <<UrlMsg(page.url, page.by)>>
                     \o IF f.ok THEN << >> ELSE <<LoadMsg("failed")>>
  <2>1. /\ rend' = [rend EXCEPT !.nav = 0, !.page = page]
        /\ fromR' = fromR \o msgs
    BY <1>5 DEF OnDocument, Report
  <2>2. f.gen = rend.gen
    BY <1>5 DEF Superseded
  <2>3. /\ page \in Pages /\ page.by = <<crashes, f.gen>> /\ page.from = f.url.doc
        /\ page.url = f.url
        /\ <<crashes, f.gen>> \in Deeds /\ <<crashes, f.gen>>[2] = f.gen
    <3>1. CASE f.ok = TRUE
      <4>1. page = Loaded(f.url, f.gen, TRUE)
        BY <3>1, Zenon
      <4> HIDE DEF page
      <4>2. TRUE \in BOOLEAN
        OBVIOUS
      <4> QED
        BY <1>2, <1>3, <4>1, <4>2, PageLoaded, Zenon
    <3>2. CASE f.ok = FALSE
      <4>1. page = Loaded(f.url, f.gen, FALSE)
        BY <3>2, Zenon
      <4> HIDE DEF page
      <4>2. FALSE \in BOOLEAN
        OBVIOUS
      <4> QED
        BY <1>2, <1>3, <4>1, <4>2, PageLoaded, Zenon
    <3> QED
      BY <1>3, <3>1, <3>2
  <2> HIDE DEF page
  <2>4. page.by \in Deeds /\ page.by[2] = rend.gen
    BY <2>2, <2>3, Zenon
  <2>5. rend' = RendOf(rend.alive, rend.gen, 0, page)
    BY <1>2, <2>1 DEF RendOf
  <2>6. /\ RendererTyped'
        /\ rend'.alive = rend.alive /\ rend'.gen = rend.gen /\ rend'.page = page
    BY <1>2, <1>3, <2>3, <2>5, RendererMade
  <2>7. GenerationsReached'
    BY <1>2, <1>3, <2>4, <2>6 DEF GenerationsReached
  <2>8. TakenIsHeadedFor'
    <3> SUFFICES ASSUME LoadsIn(toR) = {}, AskedForWhole
                 PROVE  HeadsFor(wanted.url.doc)'
      BY <1>1 DEF TakenIsHeadedFor, AskedForWhole, AskedForDocument
    <3>1. HeadsFor(wanted.url.doc)
      BY <1>1, <1>2 DEF TakenIsHeadedFor
    <3>2. page.from = wanted.url.doc
      BY <2>2, <2>3, <3>1 DEF HeadsFor
    <3> QED
      BY <1>1, <1>3, <2>6, <3>1, <3>2 DEF HeadsFor
  <2>9. /\ UrlMsg(page.url, page.by) \in Reports /\ UrlMsg(page.url, page.by).m # "none"
        /\ LoadMsg("failed") \in Reports /\ LoadMsg("failed").m # "none"
    BY <1>3, <2>3, <2>4, ReportsTyped, NoDeathReported
  <2>10. msgs \in Seq(Reports) /\ \A n \in 1..Len(msgs) : msgs[n].m # "none"
    <3> DEFINE a == UrlMsg(page.url, page.by)
               b == LoadMsg("failed")
    <3>1. msgs = IF f.ok THEN <<a>> \o << >> ELSE <<a>> \o <<b>>
      OBVIOUS
    <3> HIDE DEF a, b, msgs
    <3>2. a \in Reports /\ b \in Reports /\ a.m # "none" /\ b.m # "none"
      BY <2>9 DEF a, b
    <3>3. <<a>> \o << >> = <<a>> /\ <<a>> \o <<b>> = <<a, b>>
      BY <3>2, PairFacts
    <3>4. msgs = <<a>> \/ msgs = <<a, b>>
      BY <1>3, <3>1, <3>3
    <3> QED
      BY <3>2, <3>4, ReportsSent
  <2>11. Works(msgs)
    BY <1>1, <2>1, <2>6, <2>10 DEF Works
  <2> QED
    BY <2>6, <2>7, <2>8, <2>11, WorksKeeps
<1> QED
  BY <1>4, <1>5

LEMMA LoadCompleteKeeps ==
  ASSUME NavigationInvariant, LoadComplete
  PROVE  NavigationInvariant'
<1>1. /\ rend.alive /\ rend.page # None /\ rend' = [rend EXCEPT !.page.loadSent = TRUE]
      /\ fromR' = fromR \o <<LoadMsg("load")>>
      /\ UNCHANGED <<tab, nextSeq, toR, fetches, crashes, wanted>>
  BY DEF LoadComplete, Report
<1>2. PICK next : next = [rend.page EXCEPT !.loadSent = TRUE]
  OBVIOUS
<1>3. /\ rend = RendOf(rend.alive, rend.gen, rend.nav, rend.page) /\ rend.page \in Pages
  BY <1>1, RendererParts DEF NavigationInvariant, WellFormed
<1>4. next \in Pages /\ next.by = rend.page.by /\ next.from = rend.page.from
  BY <1>2, <1>3 DEF Pages
<1>5. rend' = [rend EXCEPT !.page = next]
  BY <1>1, <1>2, <1>3 DEF RendOf
<1>6. RendererTyped' /\ GenerationsReached' /\ TakenIsHeadedFor' /\ rend'.alive = rend.alive
  BY <1>1, <1>4, <1>5, PageChangeKeeps
<1>7. LoadMsg("load") \in Reports /\ LoadMsg("load").m # "none"
  BY ReportsTyped, NoDeathReported
<1>8. Works(<<LoadMsg("load")>>)
  BY <1>1, <1>6, <1>7, ReportsSent DEF Works
<1> QED
  BY <1>6, <1>8, WorksKeeps

-----------------------------------------------------------------------------
(* The page's script changes its own URL and position, and reports. *)
LEMMA ScriptKeeps ==
  ASSUME NavigationInvariant, rend.alive, rend.page # None, NEW msgs,
         msgs \in Seq(Reports), \A n \in 1..Len(msgs) : msgs[n].m # "none",
         fromR' = fromR \o msgs,
         UNCHANGED <<tab, nextSeq, toR, fetches, crashes, wanted>>,
         \/ UNCHANGED rend
         \/ \E url \in Urls, ix \in Nat : rend' = [rend EXCEPT !.page.jsUrl = url, !.page.jsIx = ix]
  PROVE  NavigationInvariant'
<1>1. /\ RendererTyped /\ GenerationsReached /\ TakenIsHeadedFor
      /\ rend = RendOf(rend.alive, rend.gen, rend.nav, rend.page) /\ rend.page \in Pages
  BY RendererParts DEF NavigationInvariant, WellFormed
<1>2. RendererTyped' /\ GenerationsReached' /\ TakenIsHeadedFor' /\ rend'.alive = rend.alive
  <2>1. CASE UNCHANGED rend
    BY <1>1, <2>1 DEF RendererTyped, GenerationsReached, TakenIsHeadedFor, HeadsFor,
                      AskedForWhole, AskedForDocument
  <2>2. ASSUME NEW url \in Urls, NEW ix \in Nat,
               rend' = [rend EXCEPT !.page.jsUrl = url, !.page.jsIx = ix]
        PROVE  RendererTyped' /\ GenerationsReached' /\ TakenIsHeadedFor' /\ rend'.alive = rend.alive
    <3>1. PICK next : next = [rend.page EXCEPT !.jsUrl = url, !.jsIx = ix]
      OBVIOUS
    <3>2. next \in Pages /\ next.by = rend.page.by /\ next.from = rend.page.from
      BY <1>1, <3>1 DEF Pages
    <3>3. rend' = [rend EXCEPT !.page = next]
      BY <1>1, <2>2, <3>1 DEF RendOf
    <3> QED
      BY <3>2, <3>3, PageChangeKeeps
  <2> QED
    BY <2>1, <2>2
<1>3. Works(msgs)
  BY <1>2 DEF Works
<1> QED
  BY <1>2, <1>3, WorksKeeps

LEMMA SameDocumentNavigationKeeps ==
  ASSUME NavigationInvariant, NEW op, ScriptStep(op), NEW url \in Urls, NEW replace \in BOOLEAN,
         SameDocumentNavigation(url, replace)
  PROVE  NavigationInvariant'
<1> DEFINE by == rend.page.by
           a == [m |-> "push", url |-> url, replace |-> replace, by |-> by]
           b == UrlMsg(url, by)
           ix == rend.page.jsIx + IF replace THEN 0 ELSE 1
<1>1. /\ rend.alive /\ rend.page # None
      /\ UNCHANGED <<tab, nextSeq, toR, fetches, crashes, wanted>>
  BY DEF ScriptStep
<1>2. rend' = [rend EXCEPT !.page.jsUrl = url, !.page.jsIx = ix] /\ fromR' = fromR \o <<a, b>>
  BY DEF SameDocumentNavigation, Report
<1>3. rend.page \in Pages
  BY <1>1, RendererParts DEF NavigationInvariant, WellFormed
<1>4. by \in Deeds /\ ix \in Nat
  BY <1>3 DEF Pages
<1>5. a \in Reports /\ b \in Reports /\ a.m # "none" /\ b.m # "none"
  <2>1. a.m = "push"
    OBVIOUS
  <2> QED
    BY <1>4, <2>1, ReportsTyped, NoDeathReported
<1> HIDE DEF a, b, ix, by
<1>6. <<a, b>> \in Seq(Reports) /\ \A n \in 1..Len(<<a, b>>) : <<a, b>>[n].m # "none"
  BY <1>5, ReportsSent
<1> QED
  BY <1>1, <1>2, <1>4, <1>6, ScriptKeeps

(* One report, of a script that asks the browser for something. *)
LEMMA ScriptAsksKeeps ==
  ASSUME NavigationInvariant, NEW op, ScriptStep(op), UNCHANGED rend,
         NEW msg \in Reports, msg.m # "none", Report(<<msg>>)
  PROVE  NavigationInvariant'
<1>1. /\ rend.alive /\ rend.page # None
      /\ UNCHANGED <<tab, nextSeq, toR, fetches, crashes, wanted>>
  BY DEF ScriptStep
<1>2. <<msg>> \in Seq(Reports) /\ \A n \in 1..Len(<<msg>>) : <<msg>>[n].m # "none"
  BY ReportsSent
<1> QED
  BY <1>1, <1>2, ScriptKeeps DEF Report

LEMMA ScriptNextKeeps ==
  ASSUME NavigationInvariant, ScriptNext
  PROVE  NavigationInvariant'
<1>1. ASSUME NEW op, ScriptStep(op)
      PROVE  rend.page \in Pages /\ rend.page.jsUrl \in Urls
  <2>1. rend.page # None
    BY <1>1 DEF ScriptStep
  <2> QED
    BY <2>1, RendererParts DEF NavigationInvariant, WellFormed, Pages
<1>2. \A doc \in Docs : [doc |-> doc, frag |-> 0] \in Urls
  BY TabAssumption DEF Urls
<1>3. ASSUME NEW doc \in Docs, ScriptPush(doc) \/ ScriptReplace(doc)
      PROVE  NavigationInvariant'
  <2>1. FALSE \in BOOLEAN /\ TRUE \in BOOLEAN
    OBVIOUS
  <2>2. CASE ScriptPush(doc)
    BY <1>2, <2>1, <2>2, SameDocumentNavigationKeeps DEF ScriptPush
  <2>3. CASE ScriptReplace(doc)
    BY <1>2, <2>1, <2>3, SameDocumentNavigationKeeps DEF ScriptReplace
  <2> QED
    BY <1>3, <2>2, <2>3
<1>4. ASSUME NEW frag \in 1..MaxFrag, ScriptFragment(frag)
      PROVE  NavigationInvariant'
  <2>1. ScriptStep("fragment") /\ SameDocumentNavigation([rend.page.jsUrl EXCEPT !.frag = frag], FALSE)
    BY <1>4 DEF ScriptFragment
  <2>2. [rend.page.jsUrl EXCEPT !.frag = frag] \in Urls
    <3>1. PICK url \in Urls : url = rend.page.jsUrl
      BY <1>1, <2>1
    <3>2. frag \in 0..MaxFrag
      BY TabAssumption
    <3>3. [url EXCEPT !.frag = frag] \in Urls
      BY <3>2 DEF Urls
    <3> QED
      BY <3>1, <3>3
  <2>3. FALSE \in BOOLEAN
    OBVIOUS
  <2> QED
    BY <2>1, <2>2, <2>3, SameDocumentNavigationKeeps
<1>5. ASSUME NEW url \in LinkUrls, ScriptAssign(url)
      PROVE  NavigationInvariant'
  <2> DEFINE msg == [m |-> "open", url |-> url, replace |-> FALSE]
  <2>1. ScriptStep("assign") /\ UNCHANGED rend /\ Report(<<msg>>)
    BY <1>5 DEF ScriptAssign
  <2>2. url \in Urls
    BY TabAssumption DEF Urls
  <2>3. msg \in Reports /\ msg.m # "none"
    BY <2>2, ReportsTyped
  <2> HIDE DEF msg
  <2> QED
    BY <2>1, <2>3, ScriptAsksKeeps
<1>6. ASSUME ScriptReload
      PROVE  NavigationInvariant'
  <2> DEFINE msg == [m |-> "open", url |-> rend.page.jsUrl, replace |-> TRUE]
  <2>1. ScriptStep("reload") /\ UNCHANGED rend /\ Report(<<msg>>)
    BY <1>6 DEF ScriptReload
  <2>2. msg \in Reports /\ msg.m # "none"
    BY <1>1, <2>1, ReportsTyped
  <2> HIDE DEF msg
  <2> QED
    BY <2>1, <2>2, ScriptAsksKeeps
<1>7. ASSUME NEW delta \in Deltas, ScriptGo(delta)
      PROVE  NavigationInvariant'
  <2> DEFINE msg == [m |-> "go", delta |-> delta]
  <2>1. ScriptStep("go") /\ UNCHANGED rend /\ Report(<<msg>>)
    BY <1>7 DEF ScriptGo
  <2>2. msg \in Reports /\ msg.m # "none"
    BY ReportsTyped
  <2> HIDE DEF msg
  <2> QED
    BY <2>1, <2>2, ScriptAsksKeeps
<1> QED
  BY <1>3, <1>4, <1>5, <1>6, <1>7 DEF ScriptNext

-----------------------------------------------------------------------------
(* The user's operations. *)
LEMMA UserNextKeeps ==
  ASSUME NavigationInvariant, UserNext
  PROVE  NavigationInvariant'
<1>1. TabTyped(tab, nextSeq) /\ wanted \in Commands
  BY DEF NavigationInvariant, WellFormed, LinksTyped
<1>2. ASSUME NEW op, UserStep(op), NEW r, Sends(r), BrowserDoes(r)
      PROVE  NavigationInvariant'
  <2>1. Handled /\ UNCHANGED <<rend, fetches, crashes>>
    BY <1>2 DEF UserStep, Handled
  <2> QED
    BY <1>2, <2>1, BrowserDoesKeeps
<1>3. ASSUME NEW url \in LinkUrls, UserOpen(url)
      PROVE  NavigationInvariant'
  <2>1. url \in Urls
    BY TabAssumption DEF Urls
  <2>2. Sends(ShellNavigate(tab, nextSeq, url))
    BY <1>1, <2>1, ShellNavigateSends
  <2> QED
    BY <1>2, <1>3, <2>2 DEF UserOpen
<1>4. Sends(ShellNavigate(tab, nextSeq, HomeUrl))
  BY <1>1, HomeTyped, ShellNavigateSends
<1>5. ASSUME NEW delta \in Deltas, UserGo(delta)
      PROVE  NavigationInvariant'
  <2>1. Sends(Go(tab, delta))
    BY <1>1, GoSends DEF Deltas
  <2> QED
    BY <1>2, <1>5, <2>1 DEF UserGo
<1>6. ASSUME UserHome
      PROVE  NavigationInvariant'
  BY <1>2, <1>4, <1>6 DEF UserHome
<1>7. ASSUME NEW kind \in {"reload", "stop"}, NEW loading \in BOOLEAN
      PROVE  Sends([tab |-> [tab EXCEPT !.loading = loading], seq |-> nextSeq,
                    msgs |-> <<[m |-> kind]>>])
  <2> DEFINE t == [tab EXCEPT !.loading = loading]
             r == [tab |-> t, seq |-> nextSeq, msgs |-> <<[m |-> kind]>>]
  <2>1. TabTyped(t, nextSeq)
    <3>1. PICK u : u = t
      OBVIOUS
    <3>2. TabTyped(u, nextSeq)
      <4>1. /\ u = [tab EXCEPT !.loading = loading]
            /\ tab = [url |-> tab.url, history |-> tab.history, index |-> tab.index,
                      loading |-> tab.loading, crashed |-> tab.crashed]
        BY <1>1, <3>1 DEF TabTyped
      <4>2. u = [url |-> tab.url, history |-> tab.history, index |-> tab.index,
                 loading |-> loading, crashed |-> tab.crashed]
        BY <4>1
      <4> QED
        BY <1>1, <4>2 DEF TabTyped
    <3> QED
      BY <3>1, <3>2
  <2>2. [m |-> kind] \in Commands
    BY DEF Commands
  <2>3. <<[m |-> kind]>> \in Seq(Commands) /\ Len(<<[m |-> kind]>>) = 1
    BY <2>2, TupleFacts
  <2>4. Sends(r)
    <3> HIDE DEF t
    <3> QED
      BY <2>1, <2>3 DEF Sends
  <2> QED
    BY <2>4
<1>8. ASSUME UserReload
      PROVE  NavigationInvariant'
  <2>1. Sends([tab |-> [tab EXCEPT !.loading = TRUE], seq |-> nextSeq, msgs |-> <<[m |-> "reload"]>>])
    BY <1>7
  <2>2. PICK r : BrowserDoes(r) /\ Sends(r)
    <3>1. CASE tab.url = HomeUrl
      BY <1>4, <1>8, <3>1 DEF UserReload
    <3>2. CASE tab.url # HomeUrl
      BY <1>8, <2>1, <3>2 DEF UserReload
    <3> QED
      BY <3>1, <3>2
  <2>3. UserStep("reload")
    BY <1>8 DEF UserReload
  <2> QED
    BY <1>2, <2>2, <2>3
<1>9. ASSUME UserStop
      PROVE  NavigationInvariant'
  <2>1. Sends([tab |-> [tab EXCEPT !.loading = FALSE], seq |-> nextSeq, msgs |-> <<[m |-> "stop"]>>])
    BY <1>7
  <2> QED
    BY <1>2, <1>9, <2>1 DEF UserStop
<1> QED
  BY <1>3, <1>5, <1>6, <1>8, <1>9 DEF UserNext

-----------------------------------------------------------------------------
(* The browser handles a report of the renderer. *)
LEMMA HeadReport ==
  ASSUME NavigationInvariant, NEW kind, Handle(kind)
  PROVE  /\ Head(fromR) \in Reports /\ Head(fromR).m = kind /\ Head(fromR) = fromR[1]
         /\ Len(fromR) \in Nat /\ 1 \in 1..Len(fromR)
         /\ Handled /\ fromR' = Tail(fromR) /\ UNCHANGED <<fetches, crashes>>
<1>1. fromR \in Seq(Reports) /\ fromR # << >> /\ Head(fromR).m = kind
  BY DEF NavigationInvariant, WellFormed, LinksTyped, Handle
<1>2. Head(fromR) \in Reports /\ Len(fromR) \in Nat /\ Head(fromR) = fromR[1]
  BY <1>1, HeadTailProperties, LenProperties
<1>3. 1 \in 1..Len(fromR)
  <2>1. Len(fromR) # 0
    BY <1>1, EmptySeq
  <2> QED
    BY <1>2, <2>1
<1> QED
  BY <1>1, <1>2, <1>3 DEF Handle, Handled

LEMMA ReportFields ==
  ASSUME NEW msg \in Reports
  PROVE  /\ msg.m \in {"url", "open", "push"} => msg.url \in Urls
         /\ msg.m \in {"open", "push"} => msg.replace \in BOOLEAN
         /\ msg.m = "go" => msg.delta \in Deltas
  BY DEF Reports

(* Only the tab's record changes. *)
LEMMA TabChangeKeeps ==
  ASSUME NavigationInvariant, Handled, TabTyped(tab', nextSeq),
         UNCHANGED <<nextSeq, toR, rend, fetches, crashes, wanted>>
  PROVE  NavigationInvariant'
<1>1. /\ LinksTyped /\ RendererTyped /\ DeathIsLast
      /\ GenerationsReached /\ LastSentIsWanted /\ TakenIsHeadedFor
  BY DEF NavigationInvariant, WellFormed
<1>2. fromR' \in Seq(Reports) /\ DeathIsLast'
  BY <1>1, HandledKeeps DEF LinksTyped, DeathIsLast
<1>3. WellFormed'
  <2>1. LinksTyped' /\ RendererTyped'
    BY <1>1, <1>2 DEF LinksTyped, RendererTyped
  <2>2. TabTyped(tab, nextSeq)'
    BY DEF TabTyped, Entries
  <2> QED
    BY <2>1, <2>2 DEF WellFormed
<1>4. GenerationsReached' /\ LastSentIsWanted' /\ TakenIsHeadedFor'
  BY <1>1 DEF GenerationsReached, LastSentIsWanted, TakenIsHeadedFor, HeadsFor,
              AskedForWhole, AskedForDocument
<1> QED
  BY <1>2, <1>3, <1>4 DEF NavigationInvariant

LEMMA LoadingChanged ==
  ASSUME NEW t, NEW seq, TabTyped(t, seq), NEW loading \in BOOLEAN, NEW crashed \in BOOLEAN,
         NEW u, u = [t EXCEPT !.loading = loading] \/ u = [t EXCEPT !.loading = loading, !.crashed = crashed]
  PROVE  TabTyped(u, seq) /\ u.url = t.url
<1>1. t = [url |-> t.url, history |-> t.history, index |-> t.index,
           loading |-> t.loading, crashed |-> t.crashed]
  BY DEF TabTyped
<1>2. CASE u = [t EXCEPT !.loading = loading]
  <2>1. u = [url |-> t.url, history |-> t.history, index |-> t.index,
             loading |-> loading, crashed |-> t.crashed]
    BY <1>1, <1>2
  <2> QED
    BY <2>1 DEF TabTyped
<1>3. CASE u = [t EXCEPT !.loading = loading, !.crashed = crashed]
  <2>1. u = [url |-> t.url, history |-> t.history, index |-> t.index,
             loading |-> loading, crashed |-> crashed]
    BY <1>1, <1>3
  <2> QED
    BY <2>1 DEF TabTyped
<1> QED
  BY <1>2, <1>3

LEMMA HandleNoneKeeps ==
  ASSUME NavigationInvariant, NEW respawned \in BOOLEAN, HandleNone(respawned)
  PROVE  NavigationInvariant'
<1> DEFINE html == [m |-> "html", url |-> tab.url]
<1>1. /\ Handle("none") /\ UNCHANGED nextSeq
      /\ tab' = [tab EXCEPT !.loading = FALSE, !.crashed = ~respawned]
      /\ rend' = IF respawned THEN NewRenderer ELSE rend
      /\ toR' = IF respawned THEN <<html>> ELSE toR
      /\ wanted' = IF respawned THEN html ELSE wanted
  BY DEF HandleNone
<1>2. /\ TabTyped(tab, nextSeq) /\ LinksTyped /\ RendererTyped /\ DeathIsLast
      /\ GenerationsReached /\ LastSentIsWanted /\ TakenIsHeadedFor
  BY DEF NavigationInvariant, WellFormed
<1>3. /\ Handled /\ UNCHANGED <<fetches, crashes>> /\ fromR' = Tail(fromR)
      /\ fromR # << >> /\ fromR \in Seq(Reports)
      /\ ~rend.alive /\ toR = << >> /\ fetches = {} /\ Len(fromR) = 1
  <2>1. fromR[1].m = "none" /\ 1 \in 1..Len(fromR) /\ fromR # << >>
    BY <1>1, HeadReport DEF Handle
  <2> QED
    BY <1>1, <1>2, <2>1, HeadReport DEF DeathIsLast, LinksTyped
<1>4. TabTyped(tab', nextSeq)
  <2>1. FALSE \in BOOLEAN /\ (~respawned) \in BOOLEAN
    OBVIOUS
  <2> QED
    BY <1>1, <1>2, <2>1, LoadingChanged
<1>5. CASE ~respawned
  BY <1>1, <1>3, <1>4, <1>5, TabChangeKeeps
<1>6. CASE respawned
  <2>1. html \in Commands /\ IsLoad(html)
    BY <1>2, CommandsTyped DEF TabTyped, IsLoad
  <2> HIDE DEF html
  <2>2. <<html>> \in Seq(Commands) /\ Len(<<html>>) = 1 /\ <<html>>[1] = html
    BY <2>1, TupleFacts
  <2>3. /\ rend' = [alive |-> TRUE, gen |-> 0, nav |-> 0, page |-> None]
        /\ toR' = <<html>> /\ wanted' = html
    BY <1>1, <1>6 DEF NewRenderer
  <2>4. RendererTyped'
    BY <1>3, <2>3 DEF RendererTyped
  <2>5. fromR' \in Seq(Reports) /\ Len(fromR') = 0
    BY <1>3, HeadTailProperties
  <2>6. DeathIsLast'
    BY <2>3, <2>5 DEF DeathIsLast
  <2>7. LinksTyped'
    BY <1>2, <1>3, <2>1, <2>2, <2>3, <2>5 DEF LinksTyped
  <2>8. TabTyped(tab, nextSeq)'
    BY <1>1, <1>4 DEF TabTyped, Entries
  <2>9. GenerationsReached'
    BY <1>3, <2>3 DEF GenerationsReached
  <2>10. LoadsIn(toR') = {1}
    BY <2>1, <2>2, <2>3 DEF LoadsIn
  <2>11. LastSentIsWanted' /\ TakenIsHeadedFor'
    BY <2>2, <2>3, <2>10 DEF LastSentIsWanted, TakenIsHeadedFor
  <2> QED
    BY <2>4, <2>6, <2>7, <2>8, <2>9, <2>11 DEF NavigationInvariant, WellFormed
<1> QED
  BY <1>5, <1>6

LEMMA BrowserNextKeeps ==
  ASSUME NavigationInvariant, BrowserNext
  PROVE  NavigationInvariant'
<1>1. TabTyped(tab, nextSeq)
  BY DEF NavigationInvariant, WellFormed
<1>2. ASSUME HandleUrl PROVE NavigationInvariant'
  <2>1. /\ Handle("url") /\ tab' = UrlChanged(tab, Head(fromR).url)
        /\ UNCHANGED <<nextSeq, toR, rend, wanted>>
    BY <1>2 DEF HandleUrl
  <2>2. Head(fromR).url \in Urls /\ Handled /\ UNCHANGED <<fetches, crashes>>
    BY <2>1, HeadReport, ReportFields
  <2>3. TabTyped(tab', nextSeq)
    BY <1>1, <2>1, <2>2, UrlChangedTyped
  <2> QED
    BY <2>1, <2>2, <2>3, TabChangeKeeps
<1>3. ASSUME HandlePush PROVE NavigationInvariant'
  <2>1. /\ Handle("push")
        /\ tab' = HistoryPushed(tab, Head(fromR).url, Head(fromR).replace)
        /\ UNCHANGED <<nextSeq, toR, rend, wanted>>
    BY <1>3 DEF HandlePush
  <2>2. /\ Head(fromR).url \in Urls /\ Head(fromR).replace \in BOOLEAN
        /\ Handled /\ UNCHANGED <<fetches, crashes>>
    BY <2>1, HeadReport, ReportFields
  <2>3. TabTyped(tab', nextSeq)
    BY <1>1, <2>1, <2>2, HistoryPushedTyped
  <2> QED
    BY <2>1, <2>2, <2>3, TabChangeKeeps
<1>4. ASSUME HandleLoad PROVE NavigationInvariant'
  <2>1. /\ Handle("load") /\ UNCHANGED <<nextSeq, toR, rend, wanted>>
        /\ \E loading \in BOOLEAN : tab' = [tab EXCEPT !.loading = loading]
    BY <1>4 DEF HandleLoad
  <2>2. Handled /\ UNCHANGED <<fetches, crashes>>
    BY <2>1, HeadReport
  <2>3. TabTyped(tab', nextSeq)
    BY <1>1, <2>1, LoadingChanged
  <2> QED
    BY <2>1, <2>2, <2>3, TabChangeKeeps
<1>5. ASSUME HandleOpen PROVE NavigationInvariant'
  <2>1. /\ Handle("open") /\ UNCHANGED rend
        /\ BrowserDoes(Open(tab, nextSeq, Head(fromR).url, Head(fromR).replace))
    BY <1>5 DEF HandleOpen
  <2>2. /\ Head(fromR).url \in Urls /\ Head(fromR).replace \in BOOLEAN
        /\ Handled /\ UNCHANGED <<fetches, crashes>>
    BY <2>1, HeadReport, ReportFields
  <2>3. Sends(Open(tab, nextSeq, Head(fromR).url, Head(fromR).replace))
    BY <1>1, <2>2, OpenSends
  <2> QED
    BY <2>1, <2>2, <2>3, BrowserDoesKeeps
<1>6. ASSUME HandleGo PROVE NavigationInvariant'
  <2>1. Handle("go") /\ UNCHANGED rend /\ BrowserDoes(Go(tab, Head(fromR).delta))
    BY <1>6 DEF HandleGo
  <2>2. /\ Head(fromR).delta \in Int
        /\ Handled /\ UNCHANGED <<fetches, crashes>>
    BY <2>1, HeadReport, ReportFields DEF Deltas
  <2>3. Sends(Go(tab, Head(fromR).delta))
    BY <1>1, <2>2, GoSends
  <2> QED
    BY <2>1, <2>2, <2>3, BrowserDoesKeeps
<1> QED
  BY <1>2, <1>3, <1>4, <1>5, <1>6, HandleNoneKeeps DEF BrowserNext

-----------------------------------------------------------------------------
(* The renderer dies, a tab is opened, nothing happens. *)
LEMMA CrashKeeps ==
  ASSUME NavigationInvariant, Crash
  PROVE  NavigationInvariant'
<1>1. /\ rend.alive /\ rend' = [rend EXCEPT !.alive = FALSE, !.nav = 0, !.page = None]
      /\ crashes' = crashes + 1 /\ toR' = << >> /\ fetches' = {}
      /\ fromR' = fromR \o <<[m |-> "none"]>>
      /\ UNCHANGED <<tab, nextSeq, wanted>>
  BY DEF Crash, Report
<1>2. /\ TabTyped(tab, nextSeq) /\ LinksTyped /\ RendererTyped /\ DeathIsLast
      /\ rend = RendOf(rend.alive, rend.gen, rend.nav, rend.page) /\ rend.gen \in Nat
  BY RendererParts DEF NavigationInvariant, WellFormed
<1>3. rend' = RendOf(FALSE, rend.gen, 0, None)
  BY <1>1, <1>2 DEF RendOf
<1>4. RendererTyped' /\ rend'.alive = FALSE /\ rend'.page = None
  <2>1. FALSE \in BOOLEAN /\ 0 \in 0..rend.gen
    BY <1>2
  <2> QED
    BY <1>1, <1>2, <1>3, <2>1, RendererMade
<1>5. <<[m |-> "none"]>> \in Seq(Reports) /\ Len(<<[m |-> "none"]>>) = 1
  BY ReportsTyped, TupleFacts
<1>6. /\ fromR' \in Seq(Reports) /\ Len(fromR') = Len(fromR) + 1 /\ Len(fromR) \in Nat
      /\ \A n \in 1..Len(fromR) : fromR'[n] = fromR[n]
  BY <1>1, <1>2, <1>5, ConcatProperties, LenProperties DEF LinksTyped
<1>7. \A n \in 1..Len(fromR') : n = Len(fromR') \/ n \in 1..Len(fromR)
  BY <1>6
<1>8. DeathIsLast'
  <2>1. \A n \in 1..Len(fromR') : fromR'[n].m = "none" => n = Len(fromR')
    BY <1>1, <1>2, <1>6, <1>7 DEF DeathIsLast
  <2> QED
    BY <1>1, <1>4, <2>1 DEF DeathIsLast
<1>9. LinksTyped'
  <2>1. << >> \in Seq(Commands) /\ crashes + 1 \in Nat
    BY <1>2 DEF LinksTyped
  <2> QED
    BY <1>1, <1>2, <1>6, <2>1 DEF LinksTyped
<1>10. TabTyped(tab, nextSeq)'
  BY <1>1, <1>2 DEF TabTyped, Entries
<1>11. GenerationsReached' /\ LastSentIsWanted' /\ TakenIsHeadedFor'
  BY <1>1, <1>4 DEF GenerationsReached, LastSentIsWanted, TakenIsHeadedFor
<1> QED
  BY <1>4, <1>8, <1>9, <1>10, <1>11 DEF NavigationInvariant, WellFormed

(* A new tab: the history is the one entry it is opened with. *)
LEMMA FirstOpen ==
  ASSUME NEW url \in FirstUrls
  PROVE  /\ Sends(ShellNavigate(NewTab, 0, url))
         /\ ShellNavigate(NewTab, 0, url).msgs
              = IF url = HomeUrl THEN <<Navigate(url), [m |-> "html", url |-> url]>>
                ELSE <<Navigate(url)>>
<1> DEFINE entry == [url |-> url, seq |-> 0, ix |-> 0]
           t == [url |-> url, history |-> <<entry>>, index |-> 1, loading |-> TRUE,
                 crashed |-> FALSE]
           r == Open(NewTab, 0, url, FALSE)
           html == [m |-> "html", url |-> url]
           two == [r EXCEPT !.msgs = Append(@, html)]
<1>1. url \in Urls
  BY TabAssumption DEF Urls
<1>2. entry \in Entries(1)
  BY <1>1 DEF Entries
<1>3. <<entry>> \in Seq(Entries(1)) /\ Len(<<entry>>) = 1
  BY <1>2, TupleFacts
<1>4. TabTyped(t, 1)
  <2> HIDE DEF entry
  <2>1. 1 \in 1..Len(<<entry>>) /\ 1 \in Nat \ {0}
    BY <1>3
  <2> QED
    BY <1>1, <1>3, <2>1 DEF TabTyped
<1>5. r = [tab |-> t, seq |-> 1, msgs |-> <<Navigate(url)>>]
  <2>1. NewTab.history = << >>
    BY DEF NewTab
  <2>2. r = [tab |-> [NewTab EXCEPT !.history = <<entry>>, !.index = Len(<<entry>>),
                                    !.url = url, !.loading = @ \/ TRUE],
             seq |-> 1, msgs |-> <<Navigate(url)>>]
    BY <2>1 DEF Open, Entry
  <2> HIDE DEF entry, r
  <2>3. PICK u : u = [NewTab EXCEPT !.history = <<entry>>, !.index = Len(<<entry>>),
                                    !.url = url, !.loading = TRUE]
    OBVIOUS
  <2>4. u = t
    BY <1>3, <2>3 DEF NewTab
  <2>5. (NewTab.loading \/ TRUE) = TRUE
    OBVIOUS
  <2>6. r = [tab |-> u, seq |-> 1, msgs |-> <<Navigate(url)>>]
    BY <2>2, <2>3, <2>5, Zenon
  <2> HIDE DEF t
  <2> QED
    BY <2>4, <2>6
<1>6. /\ Append(<<Navigate(url)>>, html) = <<Navigate(url), html>>
      /\ <<Navigate(url), html>> \in Seq(Commands) /\ Len(<<Navigate(url), html>>) = 2
      /\ <<Navigate(url)>> \in Seq(Commands) /\ Len(<<Navigate(url)>>) = 1
  BY <1>1, CommandsTyped, TupleFacts
<1>7. ShellNavigate(NewTab, 0, url) = IF url = HomeUrl THEN two ELSE r
  BY DEF ShellNavigate
<1>8. html = [m |-> "html", url |-> url]
  OBVIOUS
<1> HIDE DEF r, html, t
<1>9. two = [tab |-> t, seq |-> 1, msgs |-> <<Navigate(url), html>>]
  <2>1. r.msgs = <<Navigate(url)>>
    BY <1>5
  <2>2. two = [r EXCEPT !.msgs = <<Navigate(url), html>>]
    BY <1>6, <2>1
  <2> HIDE DEF two
  <2> QED
    BY <1>5, <2>2
<1> HIDE DEF two
<1>10. Sends(two) /\ Sends(r)
  BY <1>4, <1>5, <1>6, <1>9 DEF Sends
<1> QED
  BY <1>5, <1>7, <1>8, <1>9, <1>10

LEMMA NavigationInit ==
  ASSUME Init
  PROVE  NavigationInvariant
<1>1. PICK url \in FirstUrls :
        LET opened == ShellNavigate(NewTab, 0, url)
        IN /\ tab = opened.tab /\ nextSeq = opened.seq /\ toR = opened.msgs
           /\ wanted = opened.msgs[Len(opened.msgs)]
  BY DEF Init
<1>2. /\ fromR = << >> /\ fetches = {} /\ crashes = 0
      /\ rend = RendOf(TRUE, 0, 0, None)
  BY DEF Init, NewRenderer, RendOf
<1>3. url \in Urls
  BY TabAssumption DEF Urls
<1>4. /\ TabTyped(tab, nextSeq) /\ toR \in Seq(Commands)
  BY <1>1, FirstOpen DEF Sends
<1>5. /\ Navigate(url) \in Commands /\ IsLoad(Navigate(url))
      /\ [m |-> "html", url |-> url] \in Commands /\ IsLoad([m |-> "html", url |-> url])
  BY <1>3, CommandsTyped DEF IsLoad, Navigate
<1>6. /\ Len(toR) \in {1, 2} /\ wanted = toR[Len(toR)] /\ wanted \in Commands
      /\ \A n \in 1..Len(toR) : IsLoad(toR[n])
  <2> DEFINE a == Navigate(url)
             b == [m |-> "html", url |-> url]
  <2>1. toR = <<a, b>> \/ toR = <<a>>
    BY <1>1, FirstOpen
  <2>2. wanted = toR[Len(toR)]
    BY <1>1
  <2> HIDE DEF a, b
  <2>3. a \in Commands /\ b \in Commands /\ IsLoad(a) /\ IsLoad(b)
    BY <1>5 DEF a, b
  <2>4. /\ Len(<<a>>) = 1 /\ <<a>>[1] = a
        /\ Len(<<a, b>>) = 2 /\ <<a, b>>[1] = a /\ <<a, b>>[2] = b
    BY TupleFacts
  <2>5. CASE toR = <<a>>
    BY <2>2, <2>3, <2>4, <2>5
  <2>6. CASE toR = <<a, b>>
    BY <2>2, <2>3, <2>4, <2>6
  <2> QED
    BY <2>1, <2>5, <2>6
<1>7. RendererTyped /\ rend.alive /\ rend.page = None
  <2>1. rend = [alive |-> TRUE, gen |-> 0, nav |-> 0, page |-> None]
    BY <1>2 DEF RendOf
  <2>2. rend \in [alive : BOOLEAN, gen : Nat, nav : Nat, page : Pages \cup {None}]
    BY <2>1
  <2>3. rend.alive /\ rend.gen = 0 /\ rend.nav = 0 /\ rend.page = None
    BY <2>1
  <2>4. rend.nav \in 0..rend.gen
    BY <2>3
  <2>5. fetches \subseteq FetchStates
    BY <1>2
  <2> QED
    BY <2>2, <2>3, <2>4, <2>5 DEF RendererTyped
<1>8. << >> \in Seq(Reports) /\ Len(<< >>) = 0
  OBVIOUS
<1>9. LinksTyped /\ DeathIsLast /\ GenerationsReached
  <2>1. LinksTyped
    BY <1>2, <1>4, <1>6, <1>8 DEF LinksTyped
  <2>2. DeathIsLast
    <3>1. 1..Len(fromR) = {}
      BY <1>2, <1>8
    <3> QED
      BY <1>7, <3>1 DEF DeathIsLast
  <2>3. GenerationsReached
    BY <1>2, <1>7 DEF GenerationsReached
  <2> QED
    BY <2>1, <2>2, <2>3
<1>10. LoadsIn(toR) = 1..Len(toR) /\ LoadsIn(toR) # {}
  BY <1>6 DEF LoadsIn
<1>11. LastSentIsWanted /\ TakenIsHeadedFor
  <2>1. \A n \in 1..Len(toR) : (\A k \in 1..Len(toR) : k <= n) => n = Len(toR)
    BY <1>6
  <2> QED
    BY <1>6, <1>10, <2>1 DEF LastSentIsWanted, TakenIsHeadedFor
<1> QED
  BY <1>4, <1>7, <1>9, <1>11 DEF NavigationInvariant, WellFormed

LEMMA NavigationStutters ==
  ASSUME NavigationInvariant, UNCHANGED vars
  PROVE  NavigationInvariant'
<1>1. UNCHANGED <<tab, nextSeq, toR, fromR, rend, fetches, crashes, wanted>>
  BY DEF vars
<1>2. WellFormed'
  BY <1>1 DEF NavigationInvariant, WellFormed, LinksTyped, RendererTyped, TabTyped, Entries
<1>3. DeathIsLast' /\ GenerationsReached' /\ LastSentIsWanted' /\ TakenIsHeadedFor'
  BY <1>1 DEF NavigationInvariant, DeathIsLast, GenerationsReached, LastSentIsWanted,
              TakenIsHeadedFor, HeadsFor, AskedForWhole, AskedForDocument
<1> QED
  BY <1>2, <1>3 DEF NavigationInvariant

LEMMA NavigationStep ==
  ASSUME NavigationInvariant, Next
  PROVE  NavigationInvariant'
<1>1. CASE RendererNext
  BY <1>1, OnNavigateKeeps, OnReloadKeeps, OnLoadHtmlKeeps, OnStopKeeps, OnTraverseKeeps
     DEF RendererNext
<1>2. CASE Answers
  BY <1>2, FetchAnsweredKeeps DEF Answers
<1>3. CASE Commits
  BY <1>3, OnDocumentKeeps DEF Commits
<1> QED
  BY <1>1, <1>2, <1>3, UserNextKeeps, ScriptNextKeeps, BrowserNextKeeps, LoadCompleteKeeps,
     CrashKeeps DEF Next

(* The navigation of a tab is well formed at all times, and its last command is
   on its way, taken or carried out (crates/browser/src/lib.rs:
   Browser::open, go; crates/engine/src/renderer.rs: navigate). *)
THEOREM NavigationAlwaysFollowed == Spec => []NavigationInvariant
<1>1. Init => NavigationInvariant
  BY NavigationInit
<1>2. NavigationInvariant /\ [Next]_vars => NavigationInvariant'
  BY NavigationStep, NavigationStutters
<1> QED
  BY <1>1, <1>2, PTL DEF Spec

(* Tab::history is never indexed outside, whatever reports of pushes, URLs and
   traversals reach the browser when (crates/browser/src/lib.rs). *)
THEOREM TabAlwaysWellFormed == Spec => []TypeOK
<1>1. NavigationInvariant => TypeOK
  BY DEF NavigationInvariant, WellFormed, TabTyped, RendererTyped, TypeOK
<1> QED
  BY <1>1, NavigationAlwaysFollowed, PTL

(* Once nothing is in flight, the document the browser asked for last is the
   one the tab shows (crates/engine/src/renderer.rs: navigate, load_html). *)
THEOREM LastAskedIsShown == Spec => []LastNavigationWins
<1>1. NavigationInvariant => LastNavigationWins
  <2> SUFFICES ASSUME NavigationInvariant, Quiet, rend.page # None, AskedForWhole
               PROVE  rend.page.from = wanted.url.doc
    BY DEF LastNavigationWins
  <2>1. toR = << >> /\ fetches = {} /\ rend.alive
    BY DEF Quiet, InFlight
  <2>2. LoadsIn(toR) = {}
    <3>1. Len(<< >>) = 0
      OBVIOUS
    <3> QED
      BY <2>1, <3>1 DEF LoadsIn
  <2>3. HeadsFor(wanted.url.doc)
    BY <2>1, <2>2 DEF NavigationInvariant, TakenIsHeadedFor
  <2> QED
    BY <2>1, <2>3 DEF HeadsFor
<1> QED
  BY <1>1, NavigationAlwaysFollowed, PTL

-----------------------------------------------------------------------------
(* A step of the renderer shows a page of the same document, or one loaded in
   a generation as great. *)
Newer ==
  rend.page # None /\ rend'.page # None /\ crashes' = crashes
    => rend'.page.by[2] >= rend.page.by[2]

LEMMA SamePageNewer ==
  ASSUME NavigationInvariant, rend'.page # None => rend'.page.by = rend.page.by
  PROVE  Newer
<1>1. rend.page # None => rend.page.by[2] \in Nat
  BY RendererParts DEF NavigationInvariant, WellFormed, Pages, Deeds
<1> QED
  BY <1>1 DEF Newer

(* The fields of a page a step may change without loading one. *)
LEMMA PageFieldsNewer ==
  ASSUME NavigationInvariant, rend.page # None, NEW url, NEW ix, NEW sent,
         \/ rend' = [rend EXCEPT !.page.url = url]
         \/ rend' = [rend EXCEPT !.page.url = url, !.page.jsUrl = url, !.page.jsIx = ix]
         \/ rend' = [rend EXCEPT !.page.jsUrl = url, !.page.jsIx = ix]
         \/ rend' = [rend EXCEPT !.page.loadSent = sent]
  PROVE  Newer
<1>1. rend = RendOf(rend.alive, rend.gen, rend.nav, rend.page) /\ rend.page \in Pages
  BY RendererParts DEF NavigationInvariant, WellFormed
<1>2. \A next : /\ next = [rend.page EXCEPT !.url = url] => next.by = rend.page.by
                /\ next = [rend.page EXCEPT !.url = url, !.jsUrl = url, !.jsIx = ix] => next.by = rend.page.by
                /\ next = [rend.page EXCEPT !.jsUrl = url, !.jsIx = ix] => next.by = rend.page.by
                /\ next = [rend.page EXCEPT !.loadSent = sent] => next.by = rend.page.by
  BY <1>1 DEF Pages
<1>3. CASE rend' = [rend EXCEPT !.page.url = url]
  <2>1. rend'.page = [rend.page EXCEPT !.url = url]
    BY <1>1, <1>3 DEF RendOf
  <2> QED
    BY <1>2, <2>1, SamePageNewer
<1>4. CASE rend' = [rend EXCEPT !.page.url = url, !.page.jsUrl = url, !.page.jsIx = ix]
  <2>1. rend'.page = [rend.page EXCEPT !.url = url, !.jsUrl = url, !.jsIx = ix]
    BY <1>1, <1>4 DEF RendOf
  <2> QED
    BY <1>2, <2>1, SamePageNewer
<1>5. CASE rend' = [rend EXCEPT !.page.jsUrl = url, !.page.jsIx = ix]
  <2>1. rend'.page = [rend.page EXCEPT !.jsUrl = url, !.jsIx = ix]
    BY <1>1, <1>5 DEF RendOf
  <2> QED
    BY <1>2, <2>1, SamePageNewer
<1>6. CASE rend' = [rend EXCEPT !.page.loadSent = sent]
  <2>1. rend'.page = [rend.page EXCEPT !.loadSent = sent]
    BY <1>1, <1>6 DEF RendOf
  <2> QED
    BY <1>2, <2>1, SamePageNewer
<1> QED
  BY <1>3, <1>4, <1>5, <1>6

(* A page loaded in a generation the renderer has reached or reaches. *)
LEMMA LoadedNewer ==
  ASSUME NavigationInvariant, NEW url, NEW gen \in Nat, NEW script, gen >= rend.gen,
         rend'.page = Loaded(url, gen, script)
  PROVE  Newer
<1>1. rend.page # None => rend.page.by[2] \in Nat /\ rend.page.by[2] <= rend.gen /\ rend.gen \in Nat
  BY RendererParts DEF NavigationInvariant, WellFormed, Pages, Deeds, GenerationsReached
<1>2. rend'.page.by = <<crashes, gen>>
  BY DEF Loaded
<1>3. rend'.page.by[2] = gen
  BY <1>2
<1> QED
  BY <1>1, <1>3 DEF Newer

LEMMA StepNewer ==
  ASSUME NavigationInvariant, Next
  PROVE  Newer
<1>1. /\ rend = RendOf(rend.alive, rend.gen, rend.nav, rend.page) /\ rend.gen \in Nat
      /\ fetches \subseteq FetchStates
  BY RendererParts DEF NavigationInvariant, WellFormed
<1>2. ASSUME UNCHANGED rend PROVE Newer
  BY <1>2, SamePageNewer
<1>3. ASSUME rend.page = None \/ rend'.page = None PROVE Newer
  BY <1>3 DEF Newer
<1>4. ASSUME NEW url, NavigateTo(url) PROVE Newer
  <2>1. \/ rend.page # None /\ rend' = [rend EXCEPT !.page.url = url]
        \/ rend' = [rend EXCEPT !.gen = rend.gen + 1, !.nav = rend.gen + 1]
    BY <1>4 DEF NavigateTo
  <2>2. CASE rend' = [rend EXCEPT !.gen = rend.gen + 1, !.nav = rend.gen + 1]
    <3>1. rend'.page = rend.page
      BY <1>1, <2>2 DEF RendOf
    <3> QED
      BY <3>1, SamePageNewer
  <2> QED
    BY <2>1, <2>2, PageFieldsNewer
<1>5. CASE RendererNext
  <2>1. CASE OnNavigate
    BY <1>4, <2>1 DEF OnNavigate
  <2>2. CASE OnReload
    BY <1>2, <1>4, <2>2 DEF OnReload
  <2>3. CASE OnLoadHtml
    <3> DEFINE page == Loaded(Head(toR).url, rend.gen + 1, FALSE)
    <3>1. rend' = [rend EXCEPT !.gen = @ + 1, !.page = page]
      BY <2>3 DEF OnLoadHtml
    <3> HIDE DEF page
    <3>2. rend'.page = page
      BY <1>1, <3>1 DEF RendOf
    <3>3. rend.gen + 1 \in Nat /\ rend.gen + 1 >= rend.gen
      BY <1>1
    <3> QED
      BY <3>2, <3>3, LoadedNewer DEF page
  <2>4. CASE OnStop
    <3>1. rend' = IF rend.nav = 0 THEN rend ELSE [rend EXCEPT !.nav = 0, !.gen = @ + 1]
      BY <2>4 DEF OnStop
    <3>2. rend'.page = rend.page
      BY <1>1, <3>1 DEF RendOf
    <3> QED
      BY <3>2, SamePageNewer
  <2>5. CASE OnTraverse
    BY <1>2, <2>5, PageFieldsNewer DEF OnTraverse
  <2> QED
    BY <1>5, <2>1, <2>2, <2>3, <2>4, <2>5 DEF RendererNext
<1>6. CASE Commits
  <2>1. PICK f \in fetches : OnDocument(f)
    BY <1>6 DEF Commits
  <2>2. CASE Superseded(f)
    BY <1>2, <2>1, <2>2 DEF OnDocument
  <2>3. CASE ~Superseded(f)
    <3> DEFINE page == Loaded(f.url, f.gen, f.ok)
    <3>1. rend' = [rend EXCEPT !.nav = 0, !.page = page]
      BY <2>1, <2>3 DEF OnDocument
    <3> HIDE DEF page
    <3>2. rend'.page = page
      BY <1>1, <3>1 DEF RendOf
    <3>3. f.gen \in Nat /\ f.gen >= rend.gen
      BY <1>1, <2>3 DEF FetchStates, Superseded
    <3> QED
      BY <3>2, <3>3, LoadedNewer DEF page
  <2> QED
    BY <2>2, <2>3
<1>7. CASE LoadComplete
  BY <1>7, PageFieldsNewer DEF LoadComplete
<1>8. CASE Crash
  <2>1. rend' = [rend EXCEPT !.alive = FALSE, !.nav = 0, !.page = None]
    BY <1>8 DEF Crash
  <2>2. rend'.page = None
    BY <1>1, <2>1 DEF RendOf
  <2> QED
    BY <1>3, <2>2
<1>9. CASE ScriptNext
  <2>1. rend.page # None
    BY <1>9 DEF ScriptNext, ScriptStep, ScriptPush, ScriptReplace, ScriptFragment, ScriptAssign,
                ScriptGo, ScriptReload
  <2>2. \/ UNCHANGED rend
        \/ \E url, replace : SameDocumentNavigation(url, replace)
    BY <1>9 DEF ScriptNext, ScriptPush, ScriptReplace, ScriptFragment, ScriptAssign,
                ScriptGo, ScriptReload
  <2>3. ASSUME NEW url, NEW replace, SameDocumentNavigation(url, replace) PROVE Newer
    BY <2>1, <2>3, PageFieldsNewer DEF SameDocumentNavigation
  <2> QED
    BY <1>2, <2>2, <2>3
<1>10. CASE BrowserNext
  <2>1. ASSUME NEW respawned \in BOOLEAN, HandleNone(respawned) PROVE Newer
    <3>1. rend' = IF respawned THEN NewRenderer ELSE rend
      BY <2>1 DEF HandleNone
    <3>2. NewRenderer.page = None
      BY DEF NewRenderer
    <3> QED
      BY <1>2, <1>3, <3>1, <3>2
  <2> QED
    BY <1>2, <1>10, <2>1 DEF BrowserNext, HandleUrl, HandlePush, HandleLoad, HandleOpen, HandleGo
<1>11. CASE UserNext
  BY <1>2, <1>11 DEF UserNext, UserOpen, UserHome, UserGo, UserReload, UserStop, UserStep
<1>12. CASE Answers
  BY <1>2, <1>12 DEF Answers, FetchAnswered
<1> QED
  BY <1>5, <1>6, <1>7, <1>8, <1>9, <1>10, <1>11, <1>12 DEF Next

(* While one renderer lives, a response of an earlier navigation never replaces
   the document of a later one (crates/engine/src/renderer.rs:
   LoopMsg::Document). *)
THEOREM NoOlderDocument == Spec => NewestDocument
<1>1. NavigationInvariant /\ [Next]_vars => [Newer]_vars
  BY StepNewer
<1> QED
  BY <1>1, NavigationAlwaysFollowed, PTL DEF Spec, NewestDocument, Newer
=============================================================================
