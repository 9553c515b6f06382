------------------------------ MODULE Evidence ------------------------------
(***************************************************************************)
(* From a message to a quantity a plan may use: the gatekeeper's checks    *)
(* (gatekeeper/handler.py, rules/br_04.py), the readings and their status  *)
(* (extraction/handler.py, rules/br_02.py), the planner's confirmation     *)
(* (api/handler.py), pricing and verification (tools/calc.py,              *)
(* verifier/evidence.py). One message about one purchase order.            *)
(*                                                                         *)
(* Each handler saves the whole Signal item from the copy it read. The     *)
(* gatekeeper, the extraction and the case service read the item, the      *)
(* others an index that follows it later. Any event may come again.        *)
(***************************************************************************)
EXTENDS Naturals, Sequences

CONSTANTS
  Arrivals,   \* bound: messages, see `message`
  Handlers,   \* invocations that may overlap
  Ordered,    \* quantity of the purchase order in SAP
  Claims      \* bound: quantities a model names, or claims a planner gave

VARIABLES
  message,    \* [channel, form, sender, proven, hides, text, image]: what it is;
              \* `form`: what its sender's id looks like; `language`; `leaves`: SAP loses
              \* the sender some day; `says`: the quantities in its text; `reads`: readings
              \* its picture allows; `mends`: quantities planners correct to
  partners,   \* partners in SAP's master data
  item,       \* the Signal item
  index,      \* the item as the index by case shows it
  announced,  \* events emitted; each may be delivered at any time, repeatedly
  work,       \* what each invocation has read and decided
  draft,      \* the priced option's quantity: [at, qty, ref, passed]; at = 0 when of no
              \* field, passed when a verification let it through
  backed      \* history: the order's quantity, those read with confidence, and planners'

\* A channel with senders of its own fixes what their ids look like, and an agent's id is no
\* carrier's (_sender_channel); quantities are positive.
ASSUME ArrivalsAreMessages ==
  \A m \in Arrivals :
    /\ m.channel \in {"EMAIL", "WHATSAPP", "CARRIER"} => m.form = m.channel
    /\ m.channel = "AGENT" => m.form # "CARRIER"
    /\ m.says \in Seq(Nat \ {0}) /\ m.mends \subseteq Nat
    /\ m.reads \subseteq [value : Nat \ {0}, sure : BOOLEAN]
ASSUME OrderedIsNatural == Ordered \in Nat

evidenceVars == <<message, partners, item, index, announced, work, draft, backed>>

Partners == {"supplier", "carrier"}
New == [status |-> "RECEIVED", verified |-> FALSE, inCase |-> FALSE, fields |-> <<>>]
NoItem == [New EXCEPT !.status = "none"]
Resting == [job |-> "none", copy |-> NoItem, result |-> NoItem]
NoQuantity == [at |-> 0, qty |-> 0, ref |-> "none", passed |-> FALSE]

EvidenceInit ==
  /\ message \in Arrivals
  /\ partners = Partners
  /\ item = New /\ index = New
  /\ announced = {"SignalReceived"}
  /\ work = [h \in Handlers |-> Resting]
  /\ draft = NoQuantity
  /\ backed = {Ordered}

Begin(h, job, copy) ==
  /\ work[h] = Resting
  /\ work' = [work EXCEPT ![h] = [job |-> job, copy |-> copy, result |-> NoItem]]
Decides(h, job) == work[h].job = job /\ work[h].result = NoItem
quarantine(copy) == [copy EXCEPT !.status = "QUARANTINED"]
Result(h, copy) == work' = [work EXCEPT ![h].copy = NoItem, ![h].result = copy]

-----------------------------------------------------------------------------
(* Gatekeeper.handle *)

_sender_channel ==
  IF message.channel \in {"EMAIL", "WHATSAPP", "CARRIER"} THEN message.channel ELSE message.form

\* BR-04: a carrier's id is a carrier's, an address or a phone any partner's.
verify_sender ==
  /\ message.sender \in partners
  /\ _sender_channel = "CARRIER" => message.sender = "carrier"
_email_auth_failed == message.channel = "EMAIL" /\ ~message.proven
\* What the HTML of an email and the layers of a PDF hide, beside what is seen
html_texts == IF message.hides THEN {"attack"} ELSE {}
_texts == {message.text} \cup html_texts
scan(texts) == "attack" \in texts

Inspect(h) ==
  /\ "SignalReceived" \in announced /\ item.status = "RECEIVED"
  /\ Begin(h, "gate", item)
  /\ UNCHANGED <<message, partners, item, index, announced, draft, backed>>

\* An agent is known by its token, so its sender is not looked up.
Judge(h) ==
  /\ Decides(h, "gate")
  /\ LET ok == /\ message.channel = "AGENT" \/ (verify_sender /\ ~_email_auth_failed)
               /\ ~scan(_texts)
     IN  Result(h, IF ok THEN [work[h].copy EXCEPT !.status = "ACCEPTED", !.verified = TRUE]
                   ELSE quarantine(work[h].copy))
  /\ UNCHANGED <<message, partners, item, index, announced, draft, backed>>

-----------------------------------------------------------------------------
(* Extraction.handle *)

\* BR-02; `truth` is SAP's value, 0 when SAP could not be read.
Mfield_status(value, sure, truth) ==
  IF truth # 0 THEN "SAP_MATCHED" ELSE IF sure THEN "CONFIRMED" ELSE "UNCONFIRMED"
field_status(value, sure, truth) ==
  CASE value = truth -> "SAP_MATCHED"
    [] value # truth /\ sure -> "CONFIRMED"
    [] OTHER -> "UNCONFIRMED"
usable(field) == field.status # "UNCONFIRMED"

\* A text's quantity is taken literally, and is a doubt when there are several.
text_quantities ==
  [i \in DOMAIN message.says |-> [value |-> message.says[i], sure |-> Len(message.says) = 1]]

\* In Indonesian and German a model names the quantity, or nothing usable.
BedrockLocator == Claims \cup {0}
\* It counts only as words Textract read, as sure as the least sure of them.
verified_spans(q) ==
  LET words == {w \in message.reads : w.value = q} IN
  IF words = {} THEN <<>> ELSE <<[value |-> q, sure |-> \A w \in words : w.sure]>>

\* Textract may read a picture otherwise next time.
textract_document == {<<r>> : r \in message.reads}
Readings ==
  CASE message.image = "none" -> {text_quantities}
    [] message.image # "none" /\ message.language = "en" -> textract_document
    [] message.image # "none" /\ message.language = "id" ->
         {verified_spans(q) : q \in BedrockLocator}
    [] OTHER -> {<<>>}

\* What SAP has for the order's quantity; nothing when it cannot be reached.
sap_values == {Ordered, 0}

\* Text read from a picture was not there for the gatekeeper to see.
Mblocked == FALSE
blocked == scan({message.image})

Extract(h) ==
  /\ "SignalAccepted" \in announced
  /\ item.status = "ACCEPTED" /\ item.fields = <<>>
  /\ Begin(h, "extract", item)
  /\ UNCHANGED <<message, partners, item, index, announced, draft, backed>>

ReadFields(h) ==
  /\ Decides(h, "extract")
  /\ \/ /\ blocked
        /\ Result(h, quarantine(work[h].copy))
        /\ UNCHANGED backed
     \/ /\ ~blocked
        /\ \E rs \in Readings, truth \in sap_values :
             /\ Result(h, [work[h].copy EXCEPT !.fields =
                             [i \in DOMAIN rs |->
                               [value |-> rs[i].value, by |-> "none",
                                status |-> field_status(rs[i].value, rs[i].sure, truth)]]])
             /\ backed' = backed \cup {rs[i].value : i \in {k \in DOMAIN rs : rs[k].sure}}
  /\ UNCHANGED <<message, partners, item, index, announced, draft>>

-----------------------------------------------------------------------------
(* CaseService._attach and Api.confirm *)

AttachItem(h) ==
  /\ "SignalExtracted" \in announced /\ item.verified /\ work[h] = Resting
  /\ work' = [work EXCEPT ![h] = [job |-> "attach", copy |-> NoItem,
                                  result |-> [item EXCEPT !.inCase = TRUE]]]
  /\ UNCHANGED <<message, partners, item, index, announced, draft, backed>>

\* The planner confirms field i as it is read now, or corrects it to q.
confirm(h, i, q) ==
  /\ index.inCase /\ i \in DOMAIN index.fields /\ work[h] = Resting
  /\ LET value == IF q = 0 THEN index.fields[i].value ELSE q
     IN  /\ work' = [work EXCEPT ![h] =
                      [job |-> "confirm", copy |-> NoItem,
                       result |-> [index EXCEPT !.fields[i] =
                         [value |-> value, by |-> "planner", status |-> "CONFIRMED"]]]]
         /\ backed' = backed \cup {value}
  /\ UNCHANGED <<message, partners, item, index, announced, draft>>

-----------------------------------------------------------------------------
(* SignalStore.save and the event after it; the index follows. *)

Tells(w) ==
  CASE w.job = "gate" /\ w.result.status = "ACCEPTED" -> {"SignalAccepted"}
    [] w.job = "extract" /\ w.result.status = "ACCEPTED" -> {"SignalExtracted"}
    [] OTHER -> {}

\* An invocation may stop before the event, and before the save.
SaveItem(h) ==
  /\ work[h].result # NoItem
  /\ item' = work[h].result
  /\ \E sent \in SUBSET Tells(work[h]) : announced' = announced \cup sent
  /\ work' = [work EXCEPT ![h] = Resting]
  /\ UNCHANGED <<message, partners, index, draft, backed>>
StopHandler(h) ==
  /\ work[h] # Resting
  /\ work' = [work EXCEPT ![h] = Resting]
  /\ UNCHANGED <<message, partners, item, index, announced, draft, backed>>
Propagate ==
  /\ index' = item
  /\ UNCHANGED <<message, partners, item, announced, work, draft, backed>>
Unlist ==
  /\ message.leaves
  /\ partners' = partners \ {message.sender}
  /\ UNCHANGED <<message, item, index, announced, work, draft, backed>>

-----------------------------------------------------------------------------
(* calc_option's quantity and the verifier's reading of it *)

Evident(i) == index.inCase /\ index.status = "ACCEPTED" /\ i \in DOMAIN index.fields
_usable_quantity(i) ==
  LET f == index.fields[i] IN
  [at |-> i, qty |-> f.value, passed |-> FALSE,
   ref |-> IF f.by = "planner" THEN "planner" ELSE "signal"]

Price(i) ==
  /\ Evident(i) /\ usable(index.fields[i])
  /\ draft' = _usable_quantity(i)
  /\ UNCHANGED <<message, partners, item, index, announced, work, backed>>

\* qtySourceRef: the agent names a source itself; only how it begins is looked at.
PriceClaimed(q) ==
  /\ index.inCase
  /\ draft' = [at |-> 0, qty |-> q, ref |-> "planner", passed |-> FALSE]
  /\ UNCHANGED <<message, partners, item, index, announced, work, backed>>

\* V-12 looks a reference to a signal up by the field's name: the last one counts.
unconfirmed ==
  /\ draft.ref = "signal"
  /\ index.fields = <<>> \/ ~usable(index.fields[Len(index.fields)])

Verify ==
  /\ draft # NoQuantity /\ ~draft.passed
  /\ \/ draft.at = 0
     \/ /\ Evident(draft.at) /\ usable(index.fields[draft.at])
        /\ _usable_quantity(draft.at) = draft
  /\ ~unconfirmed
  /\ draft' = [draft EXCEPT !.passed = TRUE]
  /\ UNCHANGED <<message, partners, item, index, announced, work, backed>>

EvidenceNext ==
  \/ \E h \in Handlers :
       \/ Inspect(h) \/ Judge(h) \/ Extract(h) \/ ReadFields(h) \/ AttachItem(h)
       \/ SaveItem(h) \/ StopHandler(h)
       \/ \E i \in 1..2, q \in message.mends \cup {0} : confirm(h, i, q)
  \/ Propagate \/ Unlist \/ Verify
  \/ \E i \in 1..2 : Price(i)
  \/ \E q \in Claims : PriceClaimed(q)

EvidenceSpec == EvidenceInit /\ [][EvidenceNext]_evidenceVars

-----------------------------------------------------------------------------

\* Nothing a message says is in a case, or in a plan that passed verification, unless its
\* sender is a partner (or an agent), its mail proven, and neither its text, nor what it
\* hides, nor what its picture shows attacks: three services share these checks, saving
\* over each other's copies.
TrustedOnly ==
  index.inCase \/ item.inCase \/ (draft.passed /\ draft.at # 0) =>
    /\ message.text # "attack" /\ ~message.hides /\ message.image # "attack"
    /\ message.channel # "AGENT" => message.sender \in Partners
    /\ message.form = "CARRIER" => message.sender = "carrier"
    /\ message.channel = "EMAIL" => message.proven

\* BR-02 across services: a quantity of a field that passed verification is the purchase
\* order's, was read with confidence, or was given by a planner, however readings,
\* confirmations and late saves interleave.
UsedIsConfirmed == draft.passed /\ draft.at # 0 => draft.qty \in backed

\* The same of every quantity that passed, whoever named its source ("the air-freighted
\* quantity must come from a confirmed field or a planner or SAP source", calc_option).
QuantityIsEvidenced == draft.passed => draft.qty \in backed

\* What a plan rests on came from someone trusted and was confirmed.
EvidenceIsSound == TrustedOnly /\ UsedIsConfirmed
=============================================================================
