-------------------------------- MODULE Forms --------------------------------
(***************************************************************************)
(* Check boxes and radio buttons of a form, its label and its buttons      *)
(* (crates/script/js/30_html.js).  A click toggles its control before its  *)
(* event, takes that back if a handler cancels it, or else tells the page  *)
(* afterwards; and every handler may click, submit, reset and set again.   *)
(* The stack holds the events whose handlers run and the clicks that have  *)
(* yet to be over, the innermost first.                                    *)
(***************************************************************************)
EXTENDS Integers, Sequences, SequencesExt, FiniteSets, FiniteSetsExt

CONSTANTS
  Boxes, Radios,     \* the controls; Radios in document order
  Required, FormDefaults,  \* with those attributes
  Labelled,          \* the control of the label
  FormMaxOps, MaxDepth,  \* bounds on the calls of the page and on the stack
  None

VARIABLES
  ticked,      \* checked controls
  mixed,       \* indeterminate check boxes
  off,         \* disabled controls
  ungrouped,   \* radios without a name
  clicking,    \* clickInProgress
  submitting,  \* submittingForms has the form
  clicks,      \* the stack
  known,       \* what the page knows to be checked
  joined,      \* radios that were checked when they came into the group
  formOps

vars == <<ticked, mixed, off, ungrouped, clicking, submitting, clicks, known, joined, formOps>>
control == <<ticked, mixed, joined>>

Controls == Boxes \union Range(Radios)
Elements == Controls \union {"label", "submit", "reset"}
Named == Range(Radios) \ ungrouped
GroupOf(r) == IF r \in Named THEN Named ELSE {r}
InOrder == SetToSeq(Boxes) \o Radios

FormInit ==
  /\ ticked = FormDefaults /\ known = ticked
  /\ mixed \in SUBSET Boxes
  /\ off = {} /\ ungrouped = {} /\ clicking = {} /\ submitting = FALSE /\ clicks = << >> /\ joined = {} /\ formOps = 0

(* N.setChecked and setChecked(): a radio that is checked unchecks others. *)
\* mutant of Checked
CheckedAlone(set, el) == set \union {el}
Checked(set, el) == IF el \in Boxes THEN set \union {el} ELSE (set \ GroupOf(el)) \union {el}
SetTo(set, el, value) == IF value THEN Checked(set, el) ELSE set \ {el}
Becomes(set) == ticked' = set /\ joined' = joined \intersect set

(* An event whose handlers run: rest is what its caller does afterwards.   *)
NoAct == [toggled |-> FALSE, restores |-> FALSE]
Event(name, el, rest) == [event |-> name, on |-> el, canceled |-> FALSE, act |-> NoAct, rest |-> rest]

(* L.activation.begin(): what a click does before its event.               *)
Begun(el) ==
  IF el \notin Controls \/ el \in off THEN NoAct
  ELSE IF el \in Boxes
  THEN [toggled |-> TRUE, restores |-> TRUE, old |-> el \in ticked, mixed |-> el \in mixed, before |-> known]
  ELSE IF el \in ticked THEN [NoAct EXCEPT !.restores = TRUE]
  ELSE [toggled |-> TRUE, restores |-> TRUE, before |-> known,
        prev |-> LET others == SelectSeq(Radios, LAMBDA r : r \in GroupOf(el) /\ r \in ticked)
                 IN  IF others = << >> THEN None ELSE Head(others)]
Dispatch(el, guarded, below) ==
  /\ clicks' = <<[Event("click", el, IF guarded THEN <<"guard">> ELSE << >>) EXCEPT !.act = Begun(el)]>> \o below
  /\ IF Begun(el).toggled
     THEN Becomes(SetTo(ticked, el, el \notin ticked)) /\ mixed' = mixed \ {el}
     ELSE UNCHANGED control

-----------------------------------------------------------------------------
(* Submission: formCheckValidity() fires invalid at one control after the  *)
(* other; the submit event comes if there was none.                        *)
Invalid(el) ==
  /\ el \notin off
  /\ IF el \in Boxes THEN el \in Required \ ticked
     ELSE GroupOf(el) \intersect Required # {} /\ GroupOf(el) \intersect ticked = {}
Unsound(list) == SelectSeq(list, Invalid)

\* mutant of Validate
ValidateLast(list, ok, below) ==
  IF Unsound(list) # << >>
  THEN LET el == Head(Unsound(list))
       IN  clicks' = <<Event("invalid", el, SubSeq(list, 1 + CHOOSE i \in DOMAIN list : list[i] = el, Len(list)))>> \o below
           /\ UNCHANGED submitting
  ELSE clicks' = <<Event("submit", "form", << >>)>> \o below /\ submitting' = TRUE
Validate(list, ok, below) ==
  IF Unsound(list) # << >>
  THEN LET el == Head(Unsound(list))
       IN  clicks' = <<Event("invalid", el, SubSeq(list, 1 + CHOOSE i \in DOMAIN list : list[i] = el, Len(list)))>> \o below
           /\ UNCHANGED submitting
  ELSE IF ok THEN clicks' = <<Event("submit", "form", << >>)>> \o below /\ submitting' = TRUE
  ELSE clicks' = below /\ UNCHANGED submitting

\* mutant of SubmitForm
SubmitFormAgain(below) == Validate(InOrder, TRUE, below)
SubmitForm(below) ==
  IF submitting THEN clicks' = below /\ UNCHANGED submitting
  ELSE Validate(InOrder, TRUE, below)

-----------------------------------------------------------------------------
(* The user, and the page: on its own, or in a handler.                    *)
Running == clicks # << >> /\ Head(clicks).event # "over"
Acts == (clicks = << >> \/ Running) /\ Len(clicks) < MaxDepth /\ formOps < FormMaxOps /\ formOps' = formOps + 1

UserClick(el) ==
  /\ clicks = << >> /\ Acts /\ el \notin off
  /\ Dispatch(el, FALSE, clicks)
  /\ UNCHANGED <<off, ungrouped, clicking, submitting, known>>

ScriptClick(el) ==
  /\ Acts /\ el \notin off \union clicking
  /\ clicking' = clicking \union {el}
  /\ Dispatch(el, TRUE, clicks)
  /\ UNCHANGED <<off, ungrouped, submitting, known>>

Cancel ==
  /\ Acts /\ Running /\ Head(clicks).event \in {"click", "submit", "reset", "invalid"}
  /\ clicks' = <<[Head(clicks) EXCEPT !.canceled = TRUE]>> \o Tail(clicks)
  /\ UNCHANGED <<control, off, ungrouped, clicking, submitting, known>>

SetChecked(el) ==
  /\ Acts
  /\ Becomes(SetTo(ticked, el, el \notin ticked))
  /\ known' = ticked'
  /\ UNCHANGED <<mixed, off, ungrouped, clicking, submitting, clicks>>

SetDisabled(el) ==
  /\ Acts
  /\ off' = (off \union {el}) \ (off \intersect {el})
  /\ UNCHANGED <<control, ungrouped, clicking, submitting, clicks, known>>

SetName(r) ==
  /\ Acts
  /\ ungrouped' = (ungrouped \union {r}) \ (ungrouped \intersect {r})
  /\ joined' = joined \union ({r} \intersect ticked)
  /\ UNCHANGED <<ticked, mixed, off, clicking, submitting, clicks, known>>

RequestSubmit ==
  /\ Acts /\ SubmitForm(clicks)
  /\ UNCHANGED <<control, off, ungrouped, clicking, known>>

FormReset ==
  /\ Acts
  /\ clicks' = <<Event("reset", "form", << >>)>> \o clicks
  /\ UNCHANGED <<control, off, ungrouped, clicking, submitting, known>>

-----------------------------------------------------------------------------
(* The handlers of the innermost event have returned.                      *)
Restored(act, el) ==
  IF el \in Boxes THEN SetTo(ticked, el, act.old)
  ELSE IF act.prev = None THEN ticked \ {el} ELSE Checked(ticked \ {el}, act.prev)

Top == Head(clicks)
Over == [event |-> "over", on |-> Top.on, guarded |-> Top.rest # << >>]
AfterClick == <<Over>> \o Tail(clicks)

ClickCanceled ==
  /\ Running /\ Top.event = "click" /\ Top.canceled
  /\ clicks' = AfterClick
  /\ IF Top.act.toggled
     THEN /\ Becomes(Restored(Top.act, Top.on))
          /\ mixed' = IF Top.on \in Boxes /\ Top.act.mixed THEN mixed \union {Top.on} ELSE mixed
          \* a change that was announced meanwhile is taken back silently
          /\ known' = IF known = Top.act.before THEN known ELSE ticked'
     ELSE UNCHANGED <<control, known>>
  /\ UNCHANGED <<off, ungrouped, clicking, submitting, formOps>>

Clicked(el) == Running /\ Top.event = "click" /\ ~Top.canceled /\ Top.on = el

Announces(top) == top.act.toggled
ToggleEnds(el) ==
  /\ Clicked(el)
  /\ clicks' = (IF Announces(Top) THEN <<Event("input", el, <<"change">>)>> ELSE << >>) \o AfterClick
  /\ UNCHANGED <<control, off, ungrouped, clicking, submitting, known, formOps>>

SubmitClicked ==
  /\ Clicked("submit")
  /\ SubmitForm(AfterClick)
  /\ UNCHANGED <<control, off, ungrouped, clicking, known, formOps>>

ResetClicked ==
  /\ Clicked("reset")
  /\ clicks' = <<Event("reset", "form", << >>)>> \o AfterClick
  /\ UNCHANGED <<control, off, ungrouped, clicking, submitting, known, formOps>>

LabelClicked ==
  /\ Clicked("label")
  /\ IF Labelled \in off \union clicking
     THEN clicks' = AfterClick /\ UNCHANGED <<control, clicking>>
     ELSE clicking' = clicking \union {Labelled} /\ Dispatch(Labelled, TRUE, AfterClick)
  /\ UNCHANGED <<off, ungrouped, submitting, known, formOps>>

(* finally { clickInProgress.delete(this) }                                *)
ClickOver ==
  /\ clicks # << >> /\ Top.event = "over"
  /\ clicks' = Tail(clicks)
  /\ clicking' = IF Top.guarded THEN clicking \ {Top.on} ELSE clicking
  /\ UNCHANGED <<control, off, ungrouped, submitting, known, formOps>>

(* input is followed by change, at which the page looks at its controls.   *)
ChangeFires ==
  /\ Running /\ Top.event = "input"
  /\ clicks' = <<Event("change", Top.on, << >>)>> \o Tail(clicks)
  /\ known' = ticked
  /\ UNCHANGED <<control, off, ungrouped, clicking, submitting, formOps>>
ChangeEnds ==
  /\ Running /\ Top.event = "change"
  /\ clicks' = Tail(clicks)
  /\ UNCHANGED <<control, off, ungrouped, clicking, submitting, known, formOps>>

InvalidEnds ==
  /\ Running /\ Top.event = "invalid"
  /\ Validate(Top.rest, FALSE, Tail(clicks))
  /\ UNCHANGED <<control, off, ungrouped, clicking, known, formOps>>

SubmitEnds ==
  /\ Running /\ Top.event = "submit"
  /\ clicks' = Tail(clicks) /\ submitting' = FALSE
  /\ UNCHANGED <<control, off, ungrouped, clicking, known, formOps>>

(* resetControl() for one control after the other.                         *)
ResetAll == FoldLeft(LAMBDA set, el : SetTo(set, el, el \in FormDefaults), ticked, InOrder)
ResetEnds ==
  /\ Running /\ Top.event = "reset"
  /\ clicks' = Tail(clicks)
  /\ IF Top.canceled THEN UNCHANGED <<control, known>> ELSE Becomes(ResetAll) /\ known' = ticked' /\ UNCHANGED mixed
  /\ UNCHANGED <<off, ungrouped, clicking, submitting, formOps>>

Returns ==
  \/ ClickCanceled \/ SubmitClicked \/ ResetClicked \/ LabelClicked \/ ClickOver
  \/ ChangeFires \/ ChangeEnds \/ InvalidEnds \/ SubmitEnds \/ ResetEnds
  \/ \E el \in Controls : ToggleEnds(el)

Page ==
  \/ \E el \in Elements : UserClick(el) \/ ScriptClick(el)
  \/ \E el \in Controls : SetChecked(el) \/ SetDisabled(el)
  \/ \E r \in Range(Radios) : SetName(r)
  \/ Cancel \/ RequestSubmit \/ FormReset

FormNext == Page \/ Returns
FormSpec == FormInit /\ [][FormNext]_vars

-----------------------------------------------------------------------------
(* No two radios of a group are checked, unless one was when it came into  *)
(* the group: through nested clicks, cancelled ones and resets.            *)
OneOfGroup ==
  \A p, q \in Named \intersect ticked : p = q \/ p \in joined \/ q \in joined

(* When nothing runs, a page that looks at its controls at every change    *)
(* event knows them: no toggle is kept without an event, and a cancelled   *)
(* click leaves everything as it was.                                      *)
ChangesAnnounced == clicks = << >> => known = ticked

(* Nothing is entered twice: click() of an element, the submit event.      *)
NoReentry ==
  /\ \A i, j \in DOMAIN clicks : i # j /\ clicks[i].on = clicks[j].on
       => ~(clicks[i].event = "click" /\ clicks[j].event = "click" /\ clicks[i].rest # << >> /\ clicks[j].rest # << >>)
  /\ Cardinality({i \in DOMAIN clicks : clicks[i].event = "submit"}) <= 1
  /\ clicks = << >> => clicking = {} /\ ~submitting

(* The submit event is only fired when all controls are valid.             *)
SubmitsValid == [][~submitting /\ submitting' => Unsound(InOrder) = << >>]_vars

-----------------------------------------------------------------------------
(***************************************************************************)
(* The options of a select element (crates/script/js/30_html.js).  Of a    *)
(* single select the host remembers what was set for every option, in the  *)
(* tree or not, and shows the last that is on; of a multiple one the       *)
(* script keeps a set, made when it is first asked for.  An option outside *)
(* has a third memory of its own.                                          *)
(***************************************************************************)

CONSTANTS
  Options, Disabled,  \* the options, and those that are disabled
  SelectMaxOps

VARIABLES
  options,    \* in the select, in tree order
  byDefault,  \* options with the attribute selected
  set,        \* the host's memory: TRUE, FALSE or None
  outside,    \* optionSelectedDetached
  multiple,
  multi,      \* the set of a multiple select, or None
  wanted,     \* what the page chose last: a set, or None if it does not know
  selectOps

selectVars == <<options, byDefault, set, outside, multiple, multi, wanted, selectOps>>

-----------------------------------------------------------------------------
(* selectedness_list() of the host, and multiSet().                        *)
On(o) == IF set[o] = None THEN o \in byDefault ELSE set[o]
Chosen(list) ==
  LET on == {i \in DOMAIN list : On(list[i])}
      enabled == {i \in DOMAIN list : list[i] \notin Disabled}
  IN  IF on # {} THEN {list[Max(on)]}
      ELSE IF enabled = {} \/ \E o \in Range(list) : set[o] # None THEN {} ELSE {list[Min(enabled)]}
MultiSet == IF multi = None THEN Range(options) \intersect byDefault ELSE multi
Selected == IF multiple THEN Range(options) \intersect MultiSet ELSE Chosen(options)
\* mutant of IndexSet
IndexSetAlso(list, o) == IF o = None THEN set ELSE [set EXCEPT ![o] = TRUE]
IndexSet(list, o) == [x \in Options |-> IF x \in Range(list) THEN x = o ELSE set[x]]

FirstEnabled(list) ==
  LET enabled == SelectSeq(list, LAMBDA o : o \notin Disabled)
  IN  IF enabled # << >> THEN enabled[1] ELSE IF list # << >> THEN list[1] ELSE None

SelectInit ==
  /\ options \in {<< >>} \union {<<o>> : o \in Options}
  /\ byDefault \in {{}} \union {{o} : o \in Options}
  /\ set = [o \in Options |-> None] /\ outside = [o \in Options |-> None]
  /\ multiple \in BOOLEAN /\ multi = None /\ wanted = None /\ selectOps = 0

Act == selectOps < SelectMaxOps /\ selectOps' = selectOps + 1

-----------------------------------------------------------------------------
(* Options outside the select carry what was set for them there, or their  *)
(* attribute.                                                              *)
Carries(o) == IF outside[o] = None THEN o \in byDefault ELSE outside[o]

(* What the select remembers of an option from an earlier time in it.  It  *)
(* is not told what has been set for the option outside, and does not show *)
(* it if it has no set yet: then the page does not know what is selected.  *)
Held(o) == IF multiple THEN o \in (IF multi = None THEN byDefault ELSE multi) ELSE On(o)
Agreed(list) ==
  \A o \in Range(list) : (Held(o) => Carries(o)) /\ (multiple /\ multi = None /\ Carries(o) => Held(o))

(* add(), length, the indexed setter: options come in, alone or in a       *)
(* group.  optionsInserted(): of those that are on the last is selected,   *)
(* in a multiple select all, if its set exists.                            *)
InsertOptions(list, at) ==
  LET in == SubSeq(options, 1, at) \o list \o SubSeq(options, at + 1, Len(options))
      on == SelectSeq(list, Carries)
      agreed == wanted # None /\ Agreed(list)
  IN  /\ Act /\ list # << >> /\ Range(list) \intersect Range(options) = {} /\ at \in 0..Len(options)
      /\ options' = in
      /\ outside' = [o \in Options |-> IF o \in Range(list) THEN None ELSE outside[o]]
      /\ IF multiple
         THEN /\ multi' = IF multi = None THEN None ELSE multi \union Range(on)
              /\ wanted' = IF agreed THEN wanted \union Range(on) ELSE None
              /\ UNCHANGED set
         ELSE /\ set' = IF on = << >> \/ Chosen(in) = {Last(on)} THEN set ELSE IndexSet(in, Last(on))
              /\ wanted' = IF on # << >> /\ agreed THEN {Last(on)} ELSE IF agreed THEN wanted ELSE None
              /\ UNCHANGED multi
      /\ UNCHANGED <<byDefault, multiple>>

(* remove(), length: nothing else is selected instead.                     *)
RemoveOption(o) ==
  /\ Act /\ o \in Range(options)
  /\ options' = SelectSeq(options, LAMBDA x : x # o)
  /\ wanted' = IF wanted = None \/ (~multiple /\ wanted \subseteq {o}) THEN None ELSE wanted \ {o}
  /\ UNCHANGED <<byDefault, set, outside, multiple, multi>>

(* selectedIndex = and value =.                                            *)
SetSelectedIndex(o) ==
  /\ Act /\ o \in Range(options) \union {None}
  /\ IF multiple THEN multi' = {o} \ {None} /\ UNCHANGED set
     ELSE set' = IndexSet(options, o) /\ UNCHANGED multi
  /\ wanted' = IF ~multiple /\ options = << >> THEN None ELSE {o} \ {None}
  /\ UNCHANGED <<options, byDefault, outside, multiple>>

(* option.selected =, in the select or outside.                            *)
SetSelected(o, v) ==
  /\ Act
  /\ IF o \notin Range(options)
     THEN outside' = [outside EXCEPT ![o] = v] /\ UNCHANGED <<set, multi, wanted>>
     ELSE /\ UNCHANGED outside
          /\ IF multiple
             THEN /\ multi' = IF v THEN MultiSet \union {o} ELSE MultiSet \ {o}
                  /\ wanted' = IF wanted = None THEN None ELSE IF v THEN wanted \union {o} ELSE wanted \ {o}
                  /\ UNCHANGED set
             ELSE /\ set' = IF v THEN IndexSet(options, o)
                            ELSE IF Chosen(options) = {o} THEN IndexSet(options, FirstEnabled(options)) ELSE set
                  /\ wanted' = IF v THEN {o} ELSE IF Chosen(options) = {o} THEN {FirstEnabled(options)} ELSE wanted
                  /\ UNCHANGED multi
  /\ UNCHANGED <<options, byDefault, multiple>>

(* The attribute: it counts until something was set.                       *)
SetDefaultSelected(o, v) ==
  /\ Act
  /\ byDefault' = IF v THEN byDefault \union {o} ELSE byDefault \ {o}
  /\ wanted' = IF o \in Range(options) /\ set[o] = None /\ ~multiple THEN None ELSE wanted
  /\ UNCHANGED <<options, set, outside, multiple, multi>>

SetMultiple == /\ Act /\ multiple' = ~multiple /\ wanted' = None
               /\ UNCHANGED <<options, byDefault, set, outside, multi>>

(* Anything that asks for the selection of a multiple select makes its set. *)
Asked == /\ multiple /\ multi = None
         /\ multi' = MultiSet /\ wanted' = MultiSet
         /\ UNCHANGED <<options, byDefault, set, outside, multiple, selectOps>>

(* resetControl().                                                         *)
SelectDefaults == SelectSeq(options, LAMBDA o : o \in byDefault)
SelectReset ==
  /\ Act
  /\ set' = IndexSet(options, IF SelectDefaults # << >> THEN Last(SelectDefaults) ELSE IF ~multiple /\ options # << >> THEN options[1] ELSE None)
  /\ multi' = None
  /\ wanted' = IF multiple \/ options = << >> THEN None ELSE {IF SelectDefaults # << >> THEN Last(SelectDefaults) ELSE options[1]}
  /\ UNCHANGED <<options, byDefault, outside, multiple>>

Groups == {<<o>> : o \in Options} \union {<<o, p>> : o, p \in Options}
SelectNext ==
  \/ \E list \in {l \in Groups : IsInjective(l)}, at \in 0..Cardinality(Options) : InsertOptions(list, at)
  \/ \E o \in Options : RemoveOption(o) \/ \E v \in BOOLEAN : SetSelected(o, v) \/ SetDefaultSelected(o, v)
  \/ \E o \in Options \union {None} : SetSelectedIndex(o)
  \/ SetMultiple \/ Asked \/ SelectReset
SelectSpec == SelectInit /\ [][SelectNext]_selectVars

-----------------------------------------------------------------------------
(* What the page chose is what is selected, through options that come and  *)
(* go, alone and in groups, with attributes and without.                   *)
ShowsChosen == wanted # None => Selected = wanted \intersect Range(options)

(* A reset leaves what the attributes say, whatever was chosen before.     *)
ResetRestores ==
  [][SelectReset => Selected' = IF multiple THEN Range(SelectDefaults)
                          ELSE IF options = << >> THEN {} ELSE {IF SelectDefaults # << >> THEN Last(SelectDefaults) ELSE options[1]}]_selectVars

-----------------------------------------------------------------------------
(***************************************************************************)
(* Text in inputs and textareas, and its selection (crates/script/js/      *)
(* 30_html.js).  A text is a sequence of letters and "nl".  The selection  *)
(* is kept by the script, the value by the host, which changes it without  *)
(* a word when the user types.                                             *)
(***************************************************************************)

CONSTANTS TextValues, MaxTextOps

VARIABLES
  textarea,    \* or an input
  text,
  selection,   \* << >> or <<[start, end, dir]>>: selectionState
  ranged,      \* what setRangeText() did last: [from, to, with, keeps]
  textOps

textVars == <<textarea, text, selection, ranged, textOps>>

NoRange == [from |-> 0, to |-> 0, with |-> 0, keeps |-> FALSE]
TextAct == textOps < MaxTextOps /\ textOps' = textOps + 1 /\ UNCHANGED textarea
Smaller(a, b) == IF a < b THEN a ELSE b
At(start, end, dir) == <<[start |-> start, end |-> end, dir |-> dir]>>

(* selState(): kept from now on, and cut to the value it is asked for.     *)
SelState ==
  IF selection = << >> THEN At(Len(text), Len(text), "none")[1]
  ELSE [selection[1] EXCEPT !.start = Smaller(@, Len(text)), !.end = Smaller(@, Len(text))]

(* sanitizeValue(), of an input; \r\n is one "nl" of a textarea.           *)
Sanitized(t) == IF textarea THEN t ELSE SelectSeq(t, LAMBDA c : c # "nl")
TextInit ==
  /\ textarea \in BOOLEAN /\ text \in {Sanitized(t) : t \in TextValues} /\ selection = << >> /\ ranged = NoRange /\ textOps = 0
SetTextValue(t) ==
  /\ TextAct /\ text' = Sanitized(t)
  /\ selection' = (IF text' # text THEN At(Len(text'), Len(text'), "none") ELSE selection)
  /\ ranged' = NoRange
TypeText(t) == TextAct /\ t # text /\ Sanitized(t) = t /\ text' = t /\ ranged' = NoRange /\ UNCHANGED selection
(* resetControl(), to the value attribute or the text of the element.       *)
TextReset(t) == TextAct /\ text' = Sanitized(t) /\ selection' = << >> /\ ranged' = NoRange
SelectAll == TextAct /\ selection' = At(0, Len(text), "none") /\ ranged' = NoRange /\ UNCHANGED text

\* mutant of WithStart
WithStartAlone(s, n) == [s EXCEPT !.start = n]
WithStart(s, n) == [s EXCEPT !.start = n, !.end = IF @ < n THEN n ELSE @]
WithEnd(s, n) == [s EXCEPT !.end = n, !.start = IF @ > n THEN n ELSE @]
Selects(s) == TextAct /\ selection' = <<s>> /\ ranged' = NoRange /\ UNCHANGED text
ReadSelection == selection # <<SelState>> /\ Selects(SelState)
SetSelectionStart(n) == Selects(WithStart(SelState, Smaller(n, Len(text))))
SetSelectionEnd(n) == Selects(WithEnd(SelState, Smaller(n, Len(text))))
SetSelectionDirection(dir) == Selects([SelState EXCEPT !.dir = dir])
SetSelectionRange(start, end, dir) ==
  LET e == Smaller(end, Len(text)) IN Selects(At(Smaller(start, e), e, dir)[1])

(* setRangeText(): the text between from and to is replaced; "preserve"    *)
(* moves the ends of the selection with the text around them.              *)
\* mutant of MovedEnd
MovedEndInside(p, from, to, by) == IF p > to THEN p + by - (to - from) ELSE p
MovedStart(p, from, to, by) == IF p > to THEN p + by - (to - from) ELSE IF p > from THEN from ELSE p
MovedEnd(p, from, to, by) == IF p > to THEN p + by - (to - from) ELSE IF p > from THEN from + by ELSE p
SetRangeText(with, range, how) ==
  LET s == SelState
      st == Smaller(IF range = << >> THEN s.start ELSE range[1], Len(text))
      en == Smaller(IF range = << >> THEN s.end ELSE range[2], Len(text))
      by == Len(with)
  IN /\ TextAct /\ (range # << >> => range[1] <= range[2])
     /\ text' = SubSeq(text, 1, st) \o with \o SubSeq(text, en + 1, Len(text))
     /\ selection' = CASE how = "select" -> At(st, st + by, "none")
                       [] how = "start" -> At(st, st, "none")
                       [] how = "end" -> At(st + by, st + by, "none")
                       [] OTHER -> At(MovedStart(s.start, st, en, by), MovedEnd(s.end, st, en, by), "none")
     /\ ranged' = [from |-> st, to |-> en, with |-> by, keeps |-> how = "preserve"]

Positions == 0 .. 3
TextNext ==
  \/ \E t \in TextValues : SetTextValue(t) \/ TypeText(t) \/ TextReset(t)
  \/ \E t \in TextValues, how \in {"preserve", "select", "start", "end"} :
       SetRangeText(t, << >>, how) \/ \E i, j \in Positions : SetRangeText(t, <<i, j>>, how)
  \/ SelectAll \/ ReadSelection
  \/ \E n \in Positions : SetSelectionStart(n) \/ SetSelectionEnd(n) \/ \E m \in Positions : SetSelectionRange(n, m, "none")
  \/ SetSelectionDirection("backward") \/ SetSelectionRange(0, 1, "forward")

(* What is told of the selection lies in the text, its start not behind    *)
(* its end, whatever was set, typed, replaced and reset (selState).        *)
SelectionInside == LET s == SelState IN 0 <= s.start /\ s.start <= s.end /\ s.end <= Len(text)

(* setRangeText() that preserves the selection keeps what was selected and *)
(* not replaced selected, and selects nothing more of the rest.            *)
Covered(s) == (s.start + 1) .. s.end
KeepsSelected ==
  [][ranged'.keeps /\ textOps' # textOps =>
       LET r == ranged'
           moved == {IF p > r.to THEN p + r.with - (r.to - r.from) ELSE p : p \in {q \in Covered(SelState) : q <= r.from \/ q > r.to}}
       IN moved = Covered(SelState') \ ((r.from + 1) .. (r.from + r.with))]_textVars

-----------------------------------------------------------------------------
(***************************************************************************)
(* Inputs of the types number and range, and of month and time, whose      *)
(* values are numbers too.                                                 *)
(***************************************************************************)

CONSTANTS
  Numbers, Bounds, NumberSteps, AnyStep,
  RangeMax,      \* of a range without max, 100 in the code
  MaxNumberOps

VARIABLES
  isRange,
  number,        \* the value, or None
  least, most, stepAttr, valueAttr, \* attributes, or None; AnyStep is "any"
  numberOp, numberOps,
  field          \* of a month or time control: its parts

numberVars == <<isRange, number, least, most, stepAttr, valueAttr, numberOp, numberOps, field>>

NumberStep == IF stepAttr = None THEN 1 ELSE stepAttr
StepBase == IF least # None THEN least ELSE IF valueAttr # None THEN valueAttr ELSE 0
(* validityOf(), of a number.                                              *)
Underflow(n) == n # None /\ least # None /\ n < least
Overflow(n) == n # None /\ most # None /\ n > most
StepMismatch(n) == n # None /\ stepAttr # AnyStep /\ (n - StepBase) % NumberStep # 0
NumberValid(n) == ~Underflow(n) /\ ~Overflow(n) /\ ~StepMismatch(n)

(* sanitizeValue(): a range has a value always, within its bounds.         *)
RangeTop(low) == LET high == IF most = None THEN RangeMax ELSE most IN IF high < low THEN low ELSE high
SanitizedNumber(n) ==
  LET low == IF least = None THEN 0 ELSE least
      high == RangeTop(low)
      v == IF n = None THEN low + (high - low) \div 2 ELSE n
  IN IF ~isRange THEN n ELSE Smaller(high, IF v < low THEN low ELSE v)
NumberInit ==
  /\ isRange \in BOOLEAN /\ least \in Bounds \union {None} /\ most \in Bounds \union {None}
  /\ stepAttr \in NumberSteps \union {None} /\ valueAttr = None /\ number = None /\ numberOp = "" /\ numberOps = 0 /\ field = << >>
NumberAct(what) == numberOps < MaxNumberOps /\ numberOps' = numberOps + 1 /\ numberOp' = what
Attributes == <<isRange, least, most, stepAttr, valueAttr>>
SetNumber(n) == NumberAct("set") /\ number' = SanitizedNumber(n) /\ UNCHANGED <<Attributes, field>>
NumberReset == NumberAct("set") /\ number' = SanitizedNumber(valueAttr) /\ UNCHANGED <<Attributes, field>>
SetLeast(n) == NumberAct("attribute") /\ least' = n /\ UNCHANGED <<isRange, number, most, stepAttr, valueAttr, field>>
SetValueAttr(n) == NumberAct("attribute") /\ valueAttr' = n /\ UNCHANGED <<isRange, number, least, most, stepAttr, field>>
(* stepBy(), of stepUp() and stepDown().                                   *)
Clamped(n) ==
  LET up == IF Underflow(n) THEN least ELSE n IN IF Overflow(up) THEN most ELSE up
StepBy(n) ==
  /\ NumberAct("step") /\ stepAttr # AnyStep
  /\ number' = Clamped((IF number = None THEN 0 ELSE number) + NumberStep * n) /\ UNCHANGED <<Attributes, field>>

(* valueAsNumber, of a month and of a time (in seconds), set and read.     *)
MonthFields(n) == [kind |-> "month", year |-> (n \div 12) + 1970, month |-> (((n % 12) + 12) % 12) + 1, second |-> 0, asked |-> n]
TimeFields(n) ==
  LET s == n % 86400 IN [kind |-> "time", year |-> s \div 3600, month |-> (s % 3600) \div 60, second |-> s % 60, asked |-> s]
AsNumber(f) == IF f.kind = "month" THEN (f.year - 1970) * 12 + (f.month - 1) ELSE (f.year * 60 + f.month) * 60 + f.second
SetAsNumber(fields) == field = << >> /\ field' = <<fields>> /\ UNCHANGED <<Attributes, number, numberOp, numberOps>>

NumberNext ==
  \/ \E n \in Numbers \union {None} : SetNumber(n)
  \/ \E n \in Bounds \union {None} : SetLeast(n) \/ SetValueAttr(n)
  \/ NumberReset
  \/ \E n \in {-2, -1, 1, 2} : StepBy(n)
  \/ \E n \in {-25, -12, -1, 0, 11, 12, 30} : SetAsNumber(MonthFields(n))
  \/ \E n \in {-1, 0, 59, 3600, 86399} : SetAsNumber(TimeFields(n))

(* Stepping from a value that is valid leads to a valid one, if max itself *)
(* is one that steps reach; what is set on a range lies in it, if it has   *)
(* any room (stepBy, sanitizeValue, validityOf).                           *)
StaysIn(op, from, to) ==
  /\ op = "step" /\ from # None /\ NumberValid(from) /\ (most = None \/ ~StepMismatch(most)) => NumberValid(to)
  /\ op = "set" /\ isRange /\ (most = None => least = None \/ least <= RangeMax) => ~Underflow(to) /\ (Overflow(to) => most < (IF least = None THEN 0 ELSE least))
NumbersStayValid == [][numberOps' # numberOps => StaysIn(numberOp', number, number')]_numberVars

(* What was set as a number reads back as it (valueAsNumber).              *)
FieldsReadBack == field # << >> => AsNumber(field[1]) = field[1].asked
=============================================================================
