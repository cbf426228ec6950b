---------------------------- MODULE MCSendActivity ----------------------------
(* SendActivity on small instances: its screens and their payments, the    *)
(* amount on one screen, and the answers its balance is read from.  The    *)
(* three share no variable; a behaviour is one of one of them, beside the  *)
(* others at rest.                                                         *)
EXTENDS SendScreens, PaymentForm, JsonAnswers

VARIABLE part

(* Amounts below and above a Finney. *)
Entered == {0, 4, 12, 500 * Finney + 4, 3 * Ether}
FiveEther == 5 * Ether
SomeGas == 7

allVars == <<part, screenVars, formVars, jsonVars>>

ScreensAtRest == client = [m \in Messages |-> 1] /\ SendInit

FormAtRest ==
  /\ code = [to |-> Address, plain |-> TRUE, priced |-> FALSE, value |-> <<>>, gas |-> FALSE]
  /\ denomination = "ETH"
  /\ FormInit

AnswerAtRest ==
  /\ members = <<[name |-> Field, value |-> <<"null">>]>>
  /\ json = ObjectText(members)
  /\ JsonInit

Init ==
  \/ part = "screens" /\ SendInit /\ FormAtRest /\ AnswerAtRest
  \/ part = "form" /\ ScreensAtRest /\ FormInit /\ AnswerAtRest
  \/ part = "answer" /\ ScreensAtRest /\ FormAtRest /\ JsonInit

Screens == part = "screens" /\ SendNext /\ UNCHANGED <<part, formVars, jsonVars>>
Form    == part = "form"    /\ FormNext /\ UNCHANGED <<part, screenVars, jsonVars>>
Reading == part = "answer"  /\ JsonNext /\ UNCHANGED <<part, screenVars, formVars>>

Next == Screens \/ Form \/ Reading

Spec == Init /\ [][Next]_allVars

(* The types of all three. *)
ActivityTypeOK == SendTypeOK /\ FormTypeOK /\ JsonTypeOK
=============================================================================
