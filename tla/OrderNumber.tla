---------------------------- MODULE OrderNumber ----------------------------
(***************************************************************************)
(* The number under which a gateway knows an order.  It is the order id    *)
(* without its hyphens; what a webhook looks up is made from the number    *)
(* again, and need not be the id that it was made from.                    *)
(*                                                                         *)
(* An order id is its characters other than hyphens (its text), and how    *)
(* hyphens stand in it: not at all, as in a UUID, or otherwise.  The       *)
(* server accepts every id, and so does this module.                       *)
(***************************************************************************)
CONSTANTS
    Texts,       \* order ids without their hyphens
    LongTexts    \* those of 32 characters, the length of a UUID

ASSUME OrderNumberAssumption == LongTexts \subseteq Texts

OrderId == {o \in [text : Texts, hyphens : {"none", "uuid", "other"}] :
              o.hyphens = "uuid" => o.text \in LongTexts}

\* The hyphens are taken out of the order id of a request.
OutTradeNo(o) == o.text

\* The text is looked up as it came.
UuidFromCompact_Unchanged(text) == [text |-> text, hyphens |-> "none"]

\* Only the length decides whether hyphens are put back.
UuidFromCompact(text) ==
    [text |-> text, hyphens |-> IF text \in LongTexts THEN "uuid" ELSE "none"]

\* The ids that come back as they were sent: UUIDs, and ids without hyphens of
\* another length.  The server accepts any other as well.
Returns(o) == o.hyphens = IF o.text \in LongTexts THEN "uuid" ELSE "none"

=============================================================================
