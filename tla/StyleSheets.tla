----------------------------- MODULE StyleSheets -----------------------------
(***************************************************************************)
(* The rules of style sheets as script sees them (crates/script/js/        *)
(* 20_dom.js): objects parsed from the text of a <style> element and       *)
(* written back to it later, and constructed sheets, which apply through   *)
(* the roots that adopted them.  A text is a sequence of items, an item a  *)
(* style rule with its contents or a group with those of its rules.        *)
(***************************************************************************)
EXTENDS Integers, Sequences, SequencesExt, FiniteSets

CONSTANTS
  Roots,       \* the document and shadow roots
  FirstText,   \* of the <style> element
  Items,       \* rules to insert
  Texts,       \* what else the page puts in the element
  MaxSheetOps

VARIABLES
  rules,       \* every rule object that was made, in order
  list,        \* the rules of each sheet
  elementText, \* the text of the <style> element
  syncedText,  \* the text that the rules are known to agree with
  pending,     \* appended rules that are not in the text yet
  rewrite,     \* sheets whose text has to be written anew
  disabled,
  savedText,   \* of the disabled <style>, << >> or the text in a sequence
  sheetMedia,  \* of the constructed sheet
  adopted,     \* the sheets of each root
  adopters,    \* the roots that are known to the constructed sheet
  dirtySheets, adoptedDirty, flushQueued,
  applied,     \* what the layout engine was given for each root
  outside,     \* texts changed while own changes waited, or was disabled
  sheetOp, sheetOps

styleSheets == <<rules, list, elementText, syncedText, pending, rewrite, disabled, savedText, sheetMedia, adopted, adopters,
                 dirtySheets, adoptedDirty, flushQueued, applied, outside, sheetOp, sheetOps>>
ruleState == <<rules, list, elementText, syncedText, pending, savedText, sheetMedia>>
Owned == "S"         \* the sheet of the <style> element
Constructed == "C"   \* new CSSStyleSheet()
Sheets == {Owned, Constructed}
Contents == UNION {Range(item.vs) : item \in Items}

(* ruleText(): the cached text, or one put together; the empty group of    *)
(* some kinds keeps the text it was made from.                             *)
RECURSIVE RuleText(_, _)
RuleText(rs, id) ==
  LET r == rs[id] IN
  IF r.text # << >> THEN Head(r.text)
  ELSE IF r.k # "style" /\ (r.kids # << >> \/ r.k = "media")
       THEN [k |-> r.k, vs |-> FlattenSeq([i \in DOMAIN r.kids |-> RuleText(rs, r.kids[i]).vs])]
       ELSE [k |-> r.k, vs |-> r.body]
TextOf(rs, ids) == [i \in DOMAIN ids |-> RuleText(rs, ids[i])]

(* makeRule(), makeRules(): the rules are added, the ids in order.         *)
Rule(k, vs, text, sheet, parent) == [k |-> k, body |-> vs, text |-> <<text>>, kids |-> << >>, sheet |-> sheet, parent |-> parent]
MakeRule(rs, item, sheet, parent) ==
  LET id == Len(rs) + 1
      kids == IF item.k = "style" THEN << >> ELSE item.vs
      own == [Rule(item.k, item.vs, item, sheet, parent) EXCEPT !.kids = [i \in DOMAIN kids |-> id + i]]
  IN rs \o <<own>> \o [i \in DOMAIN kids |-> Rule("style", <<kids[i]>>, [k |-> "style", vs |-> <<kids[i]>>], sheet, id)]
MakeRules(rs, items, sheet) ==
  FoldLeft(LAMBDA a, item : [rs |-> MakeRule(a.rs, item, sheet, 0), ids |-> Append(a.ids, Len(a.rs) + 1)], [rs |-> rs, ids |-> << >>], items)

Init ==
  /\ LET made == MakeRules(<< >>, FirstText, Owned) IN rules = made.rs /\ list = [s \in Sheets |-> IF s = Owned THEN made.ids ELSE << >>]
  /\ elementText = FirstText /\ syncedText = FirstText /\ pending = << >> /\ rewrite = {} /\ disabled = {} /\ savedText = << >>
  /\ sheetMedia = FALSE /\ adopted = [r \in Roots |-> << >>] /\ adopters = {} /\ dirtySheets = {} /\ adoptedDirty = {} /\ flushQueued = FALSE
  /\ applied = [r \in Roots |-> << >>] /\ outside = FALSE /\ sheetOp = "" /\ sheetOps = 0

-----------------------------------------------------------------------------
Op(what) == sheetOps < MaxSheetOps /\ sheetOps' = sheetOps + 1 /\ sheetOp' = what
Step(what) == sheetOp' = what /\ UNCHANGED sheetOps
(* markSheetDirty().                                                       *)
MarkSheetDirty(s) == dirtySheets' = dirtySheets \union {s} /\ flushQueued' = TRUE /\ UNCHANGED adoptedDirty
(* syncSheet(): text that script or the parser changed is parsed again,    *)
(* unless own changes are waiting.                                         *)
MustSync(s) == s = Owned /\ pending = << >> /\ Owned \notin rewrite /\ elementText # syncedText
Synced(s) == IF MustSync(s) THEN MakeRules(rules, elementText, Owned) ELSE [rs |-> rules, ids |-> list[s]]
SyncText(s) == syncedText' = IF MustSync(s) THEN elementText ELSE syncedText
SyncSheet(s) ==
  /\ Step("read") /\ MustSync(s)
  /\ rules' = Synced(s).rs /\ list' = [list EXCEPT ![s] = Synced(s).ids] /\ SyncText(s)
  /\ UNCHANGED <<elementText, pending, rewrite, disabled, savedText, sheetMedia, adopted, adopters, dirtySheets, adoptedDirty, flushQueued, applied, outside>>

OwnWhileDisabled(s) == outside' = (outside \/ (s = Owned /\ Owned \in disabled))
InsertRule(s, i, item) ==
  LET now == Synced(s)
      made == MakeRule(now.rs, item, s, 0)
      ids == SubSeq(now.ids, 1, i) \o <<Len(now.rs) + 1>> \o SubSeq(now.ids, i + 1, Len(now.ids))
      appends == i = Len(now.ids) /\ s \notin rewrite
  IN /\ Op("insert") /\ i <= Len(now.ids)
     /\ rules' = made /\ list' = [list EXCEPT ![s] = ids] /\ SyncText(s)
     /\ pending' = (IF appends /\ s = Owned THEN Append(pending, item) ELSE pending)
     /\ rewrite' = (IF appends THEN rewrite ELSE rewrite \union {s})
     /\ MarkSheetDirty(s) /\ OwnWhileDisabled(s)
     /\ UNCHANGED <<elementText, disabled, savedText, sheetMedia, adopted, adopters, applied>>
DeleteRule(s, i) ==
  LET now == Synced(s) IN
  /\ Op("delete") /\ i \in DOMAIN now.ids
  /\ rules' = now.rs /\ list' = [list EXCEPT ![s] = RemoveAt(now.ids, i)] /\ SyncText(s)
  /\ rewrite' = rewrite \union {s} /\ MarkSheetDirty(s) /\ OwnWhileDisabled(s)
  /\ UNCHANGED <<elementText, pending, disabled, savedText, sheetMedia, adopted, adopters, applied>>
ReplaceSync(items) ==
  LET made == MakeRules(rules, items, Constructed) IN
  /\ Op("replace") /\ rules' = made.rs /\ list' = [list EXCEPT ![Constructed] = made.ids]
  /\ rewrite' = rewrite \union {Constructed} /\ MarkSheetDirty(Constructed)
  /\ UNCHANGED <<elementText, syncedText, pending, disabled, savedText, sheetMedia, adopted, adopters, applied, outside>>

(* ruleChanged(): the rule's cached text and those of the rules around it  *)
(* are stale.                                                              *)
\* mutant of Stale
StaleHere(rs, id) == [rs EXCEPT ![id].text = << >>]
Stale(rs, id) ==
  LET p == rs[id].parent IN
  IF p = 0 THEN [rs EXCEPT ![id].text = << >>] ELSE [rs EXCEPT ![id].text = << >>, ![p].text = << >>]
RuleChanged(rs, id) ==
  /\ rules' = Stale(rs, id) /\ rewrite' = rewrite \union {rs[id].sheet}
  /\ MarkSheetDirty(rs[id].sheet) /\ OwnWhileDisabled(rs[id].sheet)
  /\ UNCHANGED <<elementText, syncedText, pending, disabled, savedText, sheetMedia, adopted, adopters, applied, list>>
(* A property of rule.style, or selectorText; the rule may have been       *)
(* deleted, or replaced by a later parse, and marks its sheet all the same. *)
SetStyle(id, v) ==
  Op("style") /\ rules[id].k = "style" /\ rules[id].body # <<v>> /\ RuleChanged([rules EXCEPT ![id].body = <<v>>], id)
(* insertRuleInto(), deleteRuleFrom().                                     *)
GroupInsertRule(id, i, v) ==
  LET kids == rules[id].kids
      made == MakeRule(rules, [k |-> "style", vs |-> <<v>>], rules[id].sheet, id)
  IN /\ Op("insert in group") /\ rules[id].k # "style" /\ i <= Len(kids)
     /\ RuleChanged([made EXCEPT ![id].kids = SubSeq(kids, 1, i) \o <<Len(made)>> \o SubSeq(kids, i + 1, Len(kids))], id)
GroupDeleteRule(id, i) ==
  Op("delete in group") /\ i \in DOMAIN rules[id].kids /\ RuleChanged([rules EXCEPT ![id].kids = RemoveAt(@, i)], id)

(* The page, or the parser, changes the element's text.                    *)
SetText(text) ==
  /\ Op("text") /\ text # elementText /\ elementText' = text
  /\ outside' = (outside \/ pending # << >> \/ Owned \in rewrite \union disabled)
  /\ UNCHANGED <<rules, list, syncedText, pending, rewrite, disabled, savedText, sheetMedia, adopted, adopters, dirtySheets, adoptedDirty, flushQueued, applied>>
AdoptedChanged(roots) == adoptedDirty' = adoptedDirty \union roots /\ flushQueued' = (flushQueued \/ roots # {}) /\ UNCHANGED dirtySheets
(* sheet.disabled: the text of a <style> is taken away meanwhile.          *)
SetDisabled(s, b) ==
  /\ Op("disabled") /\ (s \in disabled) # b
  /\ disabled' = (IF b THEN disabled \union {s} ELSE disabled \ {s})
  /\ AdoptedChanged(IF s = Constructed THEN adopters ELSE {})
  /\ IF s = Constructed THEN UNCHANGED <<elementText, syncedText, savedText, outside>>
     ELSE /\ savedText' = (IF b THEN <<elementText>> ELSE << >>)
          /\ elementText' = (IF b THEN << >> ELSE Head(savedText)) /\ syncedText' = elementText'
          /\ outside' = (outside \/ pending # << >> \/ Owned \in rewrite \/ elementText # syncedText)
  /\ UNCHANGED <<rules, list, pending, rewrite, sheetMedia, adopted, adopters, applied>>
(* Of a constructed sheet: nobody is told.                                 *)
SetMedia ==
  /\ Op("media") /\ sheetMedia' = ~sheetMedia
  /\ UNCHANGED <<rules, list, elementText, syncedText, pending, rewrite, disabled, savedText, adopted, adopters, dirtySheets, adoptedDirty, flushQueued, applied, outside>>

(* adoptedStyleSheets: set as a whole (what precedes a sheet that cannot   *)
(* be adopted stays), an element set or the last one deleted.              *)
SetAdopted(root, sheets) ==
  LET bad == {i \in DOMAIN sheets : sheets[i] # Constructed}
      taken == IF bad = {} THEN sheets ELSE SubSeq(sheets, 1, (CHOOSE i \in bad : \A j \in bad : i <= j) - 1)
  IN /\ Op("adopt") /\ adopted' = [adopted EXCEPT ![root] = taken] /\ AdoptedChanged({root})
     /\ UNCHANGED <<ruleState, rewrite, disabled, adopters, applied, outside>>
SetIndexed(root, i, s) ==
  /\ Op("adopt at") /\ i <= Len(adopted[root]) + 1 /\ s = Constructed
  /\ adopted' = [adopted EXCEPT ![root] = SubSeq(@, 1, i - 1) \o <<s>> \o SubSeq(@, i + 1, Len(@))] /\ AdoptedChanged({root})
  /\ UNCHANGED <<ruleState, rewrite, disabled, adopters, applied, outside>>
DeleteLast(root) ==
  /\ Op("drop") /\ adopted[root] # << >> /\ adopted' = [adopted EXCEPT ![root] = Front(@)] /\ AdoptedChanged({root})
  /\ UNCHANGED <<ruleState, rewrite, disabled, adopters, applied, outside>>

(* flushSheet() of the <style>: the text is written anew or appended to;   *)
(* of a constructed sheet: its adopters are flushed after it.              *)
\* mutant of KnownText
KnownTextOld(text) == syncedText
KnownText(text) == text
FlushSheet ==
  LET text == IF Owned \in rewrite THEN TextOf(rules, list[Owned]) ELSE elementText \o pending
      changes == Owned \in dirtySheets /\ (Owned \in rewrite \/ pending # << >>)
  IN /\ elementText' = (IF changes THEN text ELSE elementText)
     /\ syncedText' = (IF changes THEN KnownText(text) ELSE syncedText)
     /\ pending' = (IF Owned \in dirtySheets THEN << >> ELSE pending)
     /\ rewrite' = rewrite \ dirtySheets
ToAdopt(dirty) == adoptedDirty \union (IF Constructed \in dirty THEN adopters ELSE {})
(* flushAdopted(): the texts of the enabled sheets, with their media.      *)
Given(rs, root) ==
  LET on == SelectSeq(adopted[root], LAMBDA s : s \notin disabled)
  IN [i \in DOMAIN on |-> [media |-> sheetMedia, text |-> TextOf(rs, list[on[i]])]]
FlushSheets ==
  /\ FlushSheet
  /\ adopters' = adopters \union {r \in ToAdopt(dirtySheets) : adopted[r] # << >>}
  /\ applied' = [r \in Roots |-> IF r \in ToAdopt(dirtySheets) THEN Given(rules, r) ELSE applied[r]]
  /\ dirtySheets' = {} /\ adoptedDirty' = {}
  /\ UNCHANGED <<rules, list, disabled, savedText, sheetMedia, adopted, outside>>
Flush == flushQueued /\ flushQueued' = FALSE /\ Step("flush") /\ FlushSheets
(* layoutRead(), before getBoundingClientRect() and the like: it looks at  *)
(* the changed sheets only.                                                *)
FlushesFirst(dirty) == dirty # {}
LayoutRead ==
  /\ sheetOp # "layout" /\ Step("layout") /\ UNCHANGED flushQueued
  /\ IF FlushesFirst(dirtySheets) THEN FlushSheets
     ELSE UNCHANGED <<ruleState, rewrite, disabled, adopted, adopters, dirtySheets, adoptedDirty, applied, outside>>

Next ==
  \/ \E s \in Sheets, i \in 0 .. 2 : DeleteRule(s, i) \/ \E item \in Items : InsertRule(s, i, item)
  \/ \E item \in Items : ReplaceSync(<<item>>)
  \/ \E id \in DOMAIN rules, v \in Contents : SetStyle(id, v) \/ \E i \in 0 .. 1 : GroupInsertRule(id, i, v)
  \/ \E id \in DOMAIN rules, i \in 1 .. 2 : GroupDeleteRule(id, i)
  \/ \E text \in Texts : SetText(text)
  \/ \E s \in Sheets, b \in BOOLEAN : SetDisabled(s, b)
  \/ SetMedia
  \/ \E root \in Roots : DeleteLast(root) \/ (\E i \in 1 .. 2, s \in Sheets : SetIndexed(root, i, s))
                         \/ \E sheets \in {<<Constructed>>, <<Constructed, Owned>>, << >>} : SetAdopted(root, sheets)
  \/ \E s \in Sheets : SyncSheet(s)
  \/ Flush \/ LayoutRead
Spec == Init /\ [][Next]_styleSheets

-----------------------------------------------------------------------------
(* What the rules say, whatever is cached.                                 *)
Says(id) ==
  LET r == rules[id]
  IN [k |-> r.k, vs |-> IF r.k = "style" THEN r.body ELSE FlattenSeq([i \in DOMAIN r.kids |-> rules[r.kids[i]].body])]
(* Groups other than @media whose last rule was deleted keep it in their   *)
(* text.                                                                   *)
Emptied == \E id \in DOMAIN rules : rules[id].k = "layer" /\ rules[id].kids = << >>
SaysAll(s) == [i \in DOMAIN list[s] |-> Says(list[s][i])]
Waiting == dirtySheets # {} \/ adoptedDirty # {}

(* Once no change waits, the element's text says what the rules say, or is *)
(* one that the next look at them parses; and every root has what its      *)
(* enabled sheets say (ruleChanged, flushSheet, flushAdopted).             *)
RulesApplied ==
  ~Waiting /\ ~outside /\ ~Emptied =>
    /\ Owned \notin disabled => elementText # syncedText \/ elementText = SaysAll(Owned)
    /\ \A root \in Roots :
         LET on == SelectSeq(adopted[root], LAMBDA s : s \notin disabled)
         IN [i \in DOMAIN applied[root] |-> applied[root][i].text] = [i \in DOMAIN on |-> SaysAll(on[i])]

(* A change that waits has its flush queued (markSheetDirty,               *)
(* adoptedChanged).                                                        *)
FlushComes == Waiting => flushQueued

(* Writing the rules back leaves nothing to parse again: the objects the   *)
(* page holds stay the rules of the sheet (flushSheet, syncSheet).         *)
ObjectsKept == [][sheetOp' \in {"flush", "layout"} /\ elementText' # elementText => elementText' = syncedText']_styleSheets

(* A layout read sees every change made to rules before it (layoutRead).   *)
LayoutSeesRules == sheetOp = "layout" => dirtySheets = {}
=============================================================================
