---------------------------- MODULE PaymentForm ----------------------------
(***************************************************************************)
(* From a scanned code to the payment: what ScanActivity.onPreviewFrame    *)
(* reads from the code, and what SendActivity makes of the amount while it *)
(* is shown, edited, and switched between ETH and Finney.  (A screen that  *)
(* is created again gets its text and its denomination back, from the      *)
(* saved state and from the preferences.)                                  *)
(*                                                                         *)
(* Of a code only what it is made of counts.  Amounts are in tenths of a   *)
(* Finney, small enough for a float, for an int and for the nine           *)
(* characters of the field, and are none that lie half way between two     *)
(* Finneys, which a float may round either way.                            *)
(***************************************************************************)
EXTENDS Integers, Sequences, SequencesExt

CONSTANTS Address,       \* the recipient, 42 characters from "0x" on
          Broken,        \* "0x" and another length
          Bare,          \* 42 characters that do not begin with "0x"
          OwnAddress,    \* acct_addr
          Digits,        \* digits of scanned amounts
          Edits,         \* amounts the user enters
          MayEmpty,      \* the user may leave the field empty
          Balance,       \* eth_balance
          MaxGas,        \* gas_limit * gas_price
          PointLocale,   \* the default locale writes a decimal point
          MaxSteps       \* edits and switches (bounds the model)

Numeral == <<"0", "1", "2", "3", "4", "5", "6", "7", "8", "9">>

ASSUME PaymentFormAssumption ==
  /\ {Address, OwnAddress, Bare} \cap {"", "the whole code"} = {}
  /\ Digits \subseteq {Numeral[i] : i \in 1..10}
  /\ Edits \subseteq Nat /\ MayEmpty \in BOOLEAN
  /\ Balance \in Nat /\ MaxGas \in Nat /\ MaxSteps \in Nat
  /\ PointLocale \in BOOLEAN

Finney == 10
Ether  == 1000 * Finney

Denominations == {"ETH", "FINNEY"}
Recipients    == {Address, Broken, Bare, OwnAddress}
ScannedAmounts == {<<d>> : d \in Digits} \cup {<<d, e>> : d, e \in Digits}

(* "ethereum:<address>[?value=<value>][?gas=<suggestedGas>]", or simply    *)
(* the address.  What stands behind "value=" may be nothing.               *)
Codes ==
  {c \in [to : Recipients, plain : BOOLEAN, priced : BOOLEAN,
          value : ScannedAmounts \cup {<<>>}, gas : BOOLEAN] :
     /\ c.plain => ~c.priced /\ ~c.gas
     /\ ~c.priced => c.value = <<>>}

VARIABLES
  code,          \* the code that is scanned
  stage,         \* "scan", "create", "send", "left", "paid"
  to_addr, size, \* TO_ADDR and SIZE of the intent, size as its digits
  denomination,  \* of the screen and of the preferences
  text,          \* the size field: its kind, "number", "comma" or "empty", and
                 \* the amount it stands for in the denomination it was written in
  taken,         \* history: the amount onCreate took over, or the user last entered
  edited,        \* history: it was entered
  paid,          \* size_wei of the payment
  steps,
  failed         \* a substring or a Float.valueOf has thrown: the app ends

formVars == <<code, stage, to_addr, size, denomination, text, taken, edited, paid, steps, failed>>

NotPaid == -1

FormInit ==
  /\ code \in Codes
  /\ stage = "scan"
  /\ to_addr = ""
  /\ size = <<>>
  /\ denomination \in Denominations
  /\ text = [kind |-> "empty", amount |-> 0, den |-> "ETH"]
  /\ taken = 0
  /\ edited = FALSE
  /\ paid = NotPaid
  /\ steps = 0
  /\ failed = FALSE

-----------------------------------------------------------------------------
(* The scanned code.                                                       *)

(* What is behind the colon if that begins with "0x", else the whole code. *)
ScannedTo(c) ==
  IF c.plain \/ c.to # Bare THEN c.to ELSE "the whole code"

NotANumber == <<"gas">>

(* From one character behind "value=" on, up to the next question mark:    *)
(* the first digit is lost.  When nothing stands behind "value=", it is    *)
(* the question mark that is skipped.                                      *)
ScannedSize(c) ==
  CASE ~c.priced                     -> <<"0">>
    [] c.priced /\ c.value # <<>>    -> Tail(c.value)
    [] c.priced /\ c.value = <<>>    -> NotANumber

(* substring from beyond the end. *)
EndsInValue(c) == c.priced /\ c.value = <<>> /\ ~c.gas

Fail ==
  /\ failed' = TRUE
  /\ UNCHANGED <<stage, to_addr, size, denomination, text, taken, edited, paid>>

(* onPreviewFrame for the "SendActivity" target. *)
Scan ==
  /\ stage = "scan" /\ ~failed
  /\ \/ /\ EndsInValue(code)
        /\ Fail
     \/ /\ ~EndsInValue(code)
        /\ stage' = "create"
        /\ to_addr' = ScannedTo(code)
        /\ size' = ScannedSize(code)
        /\ UNCHANGED <<denomination, text, taken, edited, paid, failed>>
  /\ UNCHANGED <<code, steps>>

-----------------------------------------------------------------------------
(* The screen.                                                             *)

(* To the nearest Finney, as both formats show it. *)
Round(amount) == ((amount + 5) \div Finney) * Finney

Written(amount, den) ==
  [kind   |-> IF den = "ETH" /\ ~PointLocale THEN "comma" ELSE "number",
   amount |-> Round(amount),
   den    |-> den]

DigitOf(d) == SelectInSeq(Numeral, LAMBDA w : w = d) - 1

(* Float.valueOf of a text of digits, in ETH. *)
EtherOf(digits) ==
  Ether * FoldLeft(LAMBDA n, d : 10 * n + DigitOf(d), 0, digits)

(* The amount of the text, read in a denomination. *)
ReadAs(den) ==
  CASE text.den = den                       -> text.amount
    [] text.den = "FINNEY" /\ den = "ETH"    -> 1000 * text.amount
    [] text.den = "ETH"    /\ den = "FINNEY" -> text.amount \div 1000

(* onCreate.  The address is checked last. *)
OnCreate ==
  /\ stage = "create"
  /\ ~failed
  /\ \/ /\ size \in {<<>>, NotANumber}
        /\ Fail
     \/ /\ size \notin {<<>>, NotANumber}
        /\ taken' = EtherOf(size)
        /\ text' = Written(taken', denomination)
        /\ stage' = IF to_addr \in {Address, Bare, OwnAddress} THEN "send" ELSE "left"
        /\ UNCHANGED <<to_addr, size, denomination, edited, paid, failed>>
  /\ UNCHANGED <<code, steps>>

Bounded == steps < MaxSteps /\ steps' = steps + 1

(* The user enters an amount, or leaves nothing.  The field takes a point, *)
(* whatever the locale.                                                    *)
Edit(t) ==
  /\ stage = "send" /\ ~failed
  /\ Bounded
  /\ text' = t
  /\ taken' = t.amount
  /\ edited' = TRUE
  /\ UNCHANGED <<code, stage, to_addr, size, denomination, paid, failed>>

EnteredTexts ==
  [kind : {"number"}, amount : Edits, den : {denomination}]
    \cup IF MayEmpty THEN [kind : {"empty"}, amount : {0}, den : {denomination}] ELSE {}

(* Mutant: the text is read in the denomination it is to get. *)
MutSwitchSize(den) == ReadAs(den)

(* ... in the one it has. *)
SwitchSize(den) == ReadAs(denomination)

(* onItemSelected: by the user, and by the framework when the screen has   *)
(* been laid out.                                                          *)
ItemSelected(den) ==
  /\ stage = "send" /\ ~failed
  /\ Bounded
  /\ \/ /\ text.kind # "number"
        /\ Fail
     \/ /\ text.kind = "number"
        /\ denomination' = den
        /\ text' = Written(SwitchSize(den), den)
        /\ UNCHANGED <<stage, to_addr, size, taken, edited, paid, failed>>
  /\ UNCHANGED code

(* Mutant: the amount is taken to be ETH. *)
MutPaySize == ReadAs("ETH")

PaySize == ReadAs(denomination)

Payable ==
  /\ PaySize # 0
  /\ PaySize + MaxGas <= Balance
  /\ to_addr \notin {Bare, OwnAddress}

(* do_pay.  When the amount or the address will not do, a toast says so.   *)
(* (The checks of the gas limit end the same way.)                         *)
DoPay ==
  /\ stage = "send" /\ ~failed
  /\ \/ /\ text.kind # "number"
        /\ Fail
     \/ /\ text.kind = "number"
        /\ Payable
        /\ paid' = PaySize
        /\ stage' = "paid"
        /\ UNCHANGED <<to_addr, size, denomination, text, taken, edited, failed>>
  /\ UNCHANGED <<code, steps>>

FormNext ==
  \/ Scan \/ OnCreate \/ DoPay
  \/ \E t \in EnteredTexts : Edit(t)
  \/ \E den \in Denominations : ItemSelected(den)

FormSpec == FormInit /\ [][FormNext]_formVars

-----------------------------------------------------------------------------
(* Properties.                                                             *)

(* Types; the recipient is an address or the whole code. *)
FormTypeOK ==
  /\ stage \in {"scan", "create", "send", "left", "paid"}
  /\ to_addr \in Recipients \cup {"", "the whole code"}
  /\ size \in {<<>>, NotANumber} \cup {<<d>> : d \in Digits \cup {"0"}}
  /\ denomination \in Denominations
  /\ text \in [kind : {"number", "comma", "empty"}, amount : Nat, den : Denominations]
  /\ taken \in Nat /\ edited \in BOOLEAN /\ paid \in Nat \cup {NotPaid}

(* However often the denomination is switched, between edits and by the    *)
(* framework, the amount on the screen stays the one that was taken over   *)
(* from the code or entered, to the nearest Finney.                        *)
AmountKept ==
  stage = "send" => text.den = denomination /\ Round(text.amount) = Round(taken)

(* The amount handed to Payment_Processor.send is the one the user entered *)
(* last, as it is or to the nearest Finney.  When nothing was entered it   *)
(* is the amount of the code without its first digit                       *)
(* (ScanActivity.java:258).  Either way it goes to the address of the      *)
(* code, a good one, and never to the account itself.                      *)
PaidAsEntered ==
  stage = "paid" =>
    /\ edited => paid \in {taken, Round(taken)}
    /\ ~edited => paid = EtherOf(Tail(code.value))
    /\ to_addr = code.to /\ code.to = Address
=============================================================================
