---------------------------- MODULE TelegramAudit ----------------------------
(***************************************************************************)
(* Human review of the correction ledger through the Telegram bot          *)
(* (app/telegram_bot.py, and the queues and decisions of app/main.py), in  *)
(* one chat, beside the web pages and the automation, which go on writing  *)
(* the ledger of CorrectionLedger between any two steps of the bot.        *)
(*                                                                         *)
(* _poll_loop handles one update at a time: step says where the handler    *)
(* is.  A card is a message with the buttons of one entry; its buttons     *)
(* stay until an edit removes them, and a person may press any of them, at *)
(* any time and more than once.  A send may fail, or reach the chat while  *)
(* its answer is lost; the session then has no message id.                 *)
(***************************************************************************)
EXTENDS CorrectionLedger, Sequences

CONSTANTS NoEntry,  \* no current entry
          Nothing,  \* no session
          MaxCards, \* bound: cards sent
          MaxTaps,  \* bound: buttons pressed
          MaxLost   \* bound: failed calls of the Telegram API

Kinds    == {"text", "vision", "artifact"}
Sessions == [type: Kinds, current: Entries \cup {NoEntry}, gen: 1 .. MaxGen, message: 0 .. MaxCards]

ASSUME ChatAssumption ==
  NoEntry \notin Entries /\ Nothing \notin Sessions /\ {MaxCards, MaxTaps, MaxLost} \subseteq Nat

VARIABLES session, \* _audit_sessions of the chat, or Nothing
          step,    \* the handler: idle, next (choose an item), send (its card is under way)
          cards,   \* the entry each card sent is about, by message id
          live,    \* the cards whose buttons are still there
          taps,    \* pressed buttons the bot has not handled: [card, decision]
          lost,    \* failed calls so far
          pressed, \* buttons pressed so far
          decided  \* observability: [shown, entry] of each decision taken from a button

botVars == <<session, step, cards, live, taps, lost, pressed, decided>>
vars    == <<ledgerVars, session, step, cards, live, taps, lost, pressed, decided>>

TypeOK ==
  /\ ledger \in [Entries -> Records] /\ now \in 0 .. MaxWrites
  /\ gen \in 1 .. MaxGen /\ carried \subseteq [Entries -> Records] /\ Cardinality(carried) <= 1
  /\ session \in Sessions \cup {Nothing}
  /\ step \in {"idle", "next", "send"}
  /\ step # "idle" => session # Nothing /\ (step = "send" => session.current # NoEntry)
  /\ cards \in Seq(Entries) /\ Len(cards) <= MaxCards /\ live \subseteq DOMAIN cards
  /\ taps \in Seq([card: DOMAIN cards, decision: {"yes", "no"}]) /\ Len(taps) <= pressed
  /\ lost \in 0 .. MaxLost /\ pressed \in 0 .. MaxTaps
-----------------------------------------------------------------------------
(* The queues *)

\* _telegram_text_audit_candidates: of each text no person reviewed, the newest entry.
TextCandidates(l) ==
  LET group(e) == {f \in Active(l) \cap Texts : SourceOf[f] = SourceOf[e]}
  IN  {e \in Active(l) \cap Texts :
         /\ \A f \in group(e) : ~l[f].human /\ l[f].createdAt <= l[e].createdAt
         /\ l[e].verdict = "SUSPECT"
         /\ RequireHuman \/ l[e].status \in {"pending", "proposed"}}

\* Mutant: the queues look at the verdict only.
OpenVisualUncertain(r) == ~r.human /\ r.decision = "none" /\ r.verdict = "UNCERTAIN"

\* _telegram_visual_requires_human
OpenVisual(r) ==
  /\ ~r.human /\ r.decision = "none"
  /\ r.verdict = "UNCERTAIN" \/ r.unresolved \/ r.status = "pending"

\* _telegram_visual_audit_candidates: a picture with an open normal entry is
\* reviewed under vision, any other open picture under artifact.
VisualCandidates(l, type) ==
  LET open(group)   == {e \in group : OpenVisual(l[e])}
      normal(group) == open(group) \ Sweeps
      pool(group)   == IF normal(group) # {} THEN normal(group) ELSE open(group)
      kind(group)   == IF normal(group) # {} THEN "vision" ELSE "artifact"
      groups        == {g \in VisualGroups(l) :
                          /\ \A e \in g : ~(l[e].human /\ l[e].decision # "none")
                          /\ open(g) # {} /\ kind(g) = type}
  IN  {Best(pool(g), LAMBDA e : <<l[e].createdAt>>) : g \in groups}

\* Only books whose Stage 2A is completed are reviewed in the chat.
Candidates(type) ==
  IF carried # {} THEN {}
  ELSE IF type = "text" THEN TextCandidates(ledger) ELSE VisualCandidates(ledger, type)
-----------------------------------------------------------------------------
(* The bot *)

\* /textaudit, /visionaudit, /artifactaudit: a new session replaces the old one.
StartAudit(type) ==
  /\ step = "idle"
  /\ session' = [type |-> type, current |-> NoEntry, gen |-> gen, message |-> 0]
  /\ step' = "next"
  /\ UNCHANGED <<ledgerVars, cards, live, taps, lost, pressed, decided>>

\* /stopaudit
StopAudit ==
  /\ step = "idle" /\ session # Nothing
  /\ session' = Nothing
  /\ UNCHANGED <<ledgerVars, step, cards, live, taps, lost, pressed, decided>>

\* _send_next_audit: the first item of the queue, or the end of the review.
ChooseNext ==
  /\ step = "next"
  /\ IF Candidates(session.type) = {}
     THEN session' = Nothing /\ step' = "idle"
     ELSE \E e \in Candidates(session.type) :
            session' = [session EXCEPT !.current = e, !.gen = gen] /\ step' = "send"
  /\ UNCHANGED <<ledgerVars, cards, live, taps, lost, pressed, decided>>

\* The card reaches the chat; its message id reaches the session, or is lost.
SendCard ==
  /\ step = "send" /\ Len(cards) < MaxCards
  /\ cards' = Append(cards, session.current)
  /\ live' = live \cup {Len(cards')}
  /\ \/ session' = [session EXCEPT !.message = Len(cards')] /\ UNCHANGED lost
     \/ lost < MaxLost /\ lost' = lost + 1 /\ UNCHANGED session
  /\ step' = "idle"
  /\ UNCHANGED <<ledgerVars, taps, pressed, decided>>

\* send and send_photo swallow the error: no card, but the item stays current.
SendFails ==
  /\ step = "send" /\ lost < MaxLost
  /\ lost' = lost + 1 /\ step' = "idle"
  /\ UNCHANGED <<ledgerVars, session, cards, live, taps, pressed, decided>>

\* A person presses a button that is still there.
Tap(card, decision) ==
  /\ card \in live /\ pressed < MaxTaps
  /\ taps' = Append(taps, [card |-> card, decision |-> decision])
  /\ pressed' = pressed + 1
  /\ UNCHANGED <<ledgerVars, session, step, cards, live, lost, decided>>

\* _telegram_apply_text_audit: apply the suggestion, or keep the original;
\* nothing changes if a person reviewed the text in the meantime.
TextDecided(e, decision) ==
  IF ledger[e].human THEN UNCHANGED ledgerVars
  ELSE HumanCorrected(e, IF decision = "yes" THEN "applied" ELSE "rejected")

\* _telegram_apply_visual_audit
VisualDecidedBy(e, decision) ==
  Write(VisualDecided(ledger, e, IF decision = "yes" THEN "useful" ELSE "not_useful"))

\* _handle_callback: the session lives, has an item, and no other card is its own.
ActiveButton(tap) ==
  /\ session # Nothing /\ session.current # NoEntry
  /\ session.message \in {0, tap.card}

\* A decision is saved; then the callback is answered, the buttons are removed
\* and the next item follows, unless the answer fails: then the handler is left.
\* The key of the item names the directory it was found in: after a rerun of
\* Stage 2A the decision is saved in the ledger of the old one.
Decide ==
  /\ step = "idle" /\ taps # <<>> /\ ActiveButton(Head(taps))
  /\ LET tap == Head(taps)
         e   == session.current
     IN  /\ IF session.gen # gen THEN UNCHANGED ledgerVars
            ELSE IF e \in Texts THEN TextDecided(e, tap.decision) ELSE VisualDecidedBy(e, tap.decision)
         /\ decided' = decided \cup {[shown |-> cards[tap.card], entry |-> e]}
         /\ session' = [session EXCEPT !.current = NoEntry, !.message = 0]
         /\ taps' = Tail(taps)
         /\ \/ step' = "next" /\ live' = live \ {tap.card} /\ UNCHANGED lost
            \/ lost < MaxLost /\ lost' = lost + 1 /\ step' \in {"next", "idle"} /\ UNCHANGED live
  /\ UNCHANGED <<cards, pressed>>

\* The button is of no use: the session has expired, or the card is not active.
Refuse ==
  /\ step = "idle" /\ taps # <<>> /\ ~ActiveButton(Head(taps))
  /\ taps' = Tail(taps)
  /\ UNCHANGED <<ledgerVars, session, step, cards, live, lost, pressed, decided>>

\* The process dies and starts again; sessions are in memory only.
Restart ==
  /\ session # Nothing
  /\ session' = Nothing /\ step' = "idle"
  /\ UNCHANGED <<ledgerVars, cards, live, taps, lost, pressed, decided>>

Automatic == AutomaticStep /\ UNCHANGED botVars
WebReview == HumanStep /\ UNCHANGED botVars

Init == /\ LedgerInit
        /\ session = Nothing /\ step = "idle"
        /\ cards = <<>> /\ live = {} /\ taps = <<>>
        /\ lost = 0 /\ pressed = 0 /\ decided = {}

Next ==
  \/ Automatic
  \/ WebReview
  \/ \E type \in Kinds : StartAudit(type)
  \/ StopAudit
  \/ ChooseNext
  \/ SendCard
  \/ SendFails
  \/ \E card \in live, decision \in {"yes", "no"} : Tap(card, decision)
  \/ Decide
  \/ Refuse
  \/ Restart

Spec == Init /\ [][Next]_vars
-----------------------------------------------------------------------------
(* Properties *)

\* Once a person has reviewed an entry of a text, no entry of that text that
\* only the automation wrote is exposed to the chunks: reruns of Stage 2A,
\* retried verifications, revalidation and cross-checks come after it in any order.
ReviewedTextStands ==
  \A e \in Texts : ledger[e].human =>
    \A f \in Exposed(ledger) : SourceOf[f] = SourceOf[e] => ledger[f].human

\* A picture with usable evidence is never left without any: if an entry of the
\* current generation had its result applied, whatever superseded it since, and
\* no person intervened, an entry of the picture is exposed.
UsefulEvidenceStays ==
  \A e \in Visuals \cap Present(ledger) :
    LET group == {f \in Present(ledger) : SourceOf[f] = SourceOf[e]}
    IN  /\ GenOf[e] = gen /\ Restored(ledger[e]) = "applied"
        /\ \A f \in group : ~ledger[f].human
        => group \cap Exposed(ledger) # {}

\* The gate before Stage 3 and the queues of the bot, which are computed apart,
\* agree on the pictures that wait for a person: each is in exactly one queue.
ExactlyOneQueue ==
  LET queued(type) == {SourceOf[e] : e \in VisualCandidates(ledger, type)}
  IN  /\ {SourceOf[e] : e \in VisualRequired(ledger)} = queued("vision") \cup queued("artifact")
      /\ queued("vision") \cap queued("artifact") = {}

\* What a person wrote into an entry, or decided about a picture, is changed by
\* people only, whatever the automation records about it later; a rerun of
\* Stage 2A carries over what the ledger it has read says.
HumanRecordKept ==
  [][\A l \in IF EndRerun THEN carried ELSE {ledger}, e \in Entries :
       l[e].human /\ ~WebReview /\ ~Decide =>
         /\ ledger'[e].human
         /\ ledger'[e].text = l[e].text /\ ledger'[e].decision = l[e].decision]_vars

-----------------------------------------------------------------------------
(* What the code does not keep, whatever the documents say: no passing run   *)
(* requires it.                                                              *)
(* README.md, section 4, names the steps that break each statement.          *)

\* The page of a review decides about the entry its card shows: README.md
\* promises that old and stale buttons are rejected.
StaleButtonsRejected == \A d \in decided : d.shown = d.entry

\* What a person reviewed survives a rerun of Stage 2A.
HumanReviewSurvivesRerun ==
  [][EndRerun => \A e \in Entries : ledger[e].human => ledger'[e].human]_vars

\* A person's decision about a picture outranks what the automation found.
HumanDecisionStands ==
  \A e \in Visuals : ledger[e].human =>
    \A f \in Exposed(ledger) : SourceOf[f] = SourceOf[e] => ledger[f].human

\* One canonical entry is allowed per source item.
OneCanonicalEntry ==
  \A e, f \in Active(ledger) : SourceOf[e] = SourceOf[f] => e = f
=============================================================================
