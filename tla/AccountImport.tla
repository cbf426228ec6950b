---------------------------- MODULE AccountImport ----------------------------
(***************************************************************************)
(* MainActivity importing another account while Payment_Processor works.   *)
(*                                                                         *)
(* "Import account" empties acct_addr and key and shows ScanActivity,      *)
(* which stores the scanned key; MainActivity.onResume then derives the    *)
(* address and sets the preferences of the account back.  The processor    *)
(* is not told: its current messages, its queued payments and its query    *)
(* stay, and it reads acct_addr and key again for every query.             *)
(*                                                                         *)
(* The chain variables of PaymentProcessor are those of the account in the *)
(* preferences; what the services say of the old account stays as it was   *)
(* when it was erased.                                                     *)
(***************************************************************************)
EXTENDS PaymentProcessor

CONSTANTS NewNonce,      \* transactions of the imported account on the chain
          NewBalance     \* its balance

ASSUME ImportAssumption ==
  /\ NewNonce \in StartNonce..(StartNonce + MaxMessages)
  /\ NewBalance \in Nat

VARIABLES
  account,        \* acct_addr and key: "old", "none" while scanning, "new"
  main,           \* MainActivity: "shown" or "stopped"
  asked_about,    \* the account whose address, or signature, the query carries
  old_chain,      \* what the services say of the old account after the import
  quiet,          \* history: no request was pending when the import was made
  own             \* history: what the imported account has had, less what it paid

importVars == <<processorVars, account, main, asked_about, old_chain, quiet, own>>

data == <<prefs, clientVars, query, now_sec, chainVars>>

ImportInit ==
  /\ ProcessorInit
  /\ account = "old"
  /\ main = "shown"
  /\ asked_about = "none"
  /\ old_chain = [mined |-> StartNonce, balance |-> StartBalance]
  /\ quiet = FALSE
  /\ own = {}

-----------------------------------------------------------------------------
(* The activities.                                                         *)

(* do_refresh and do_pay of MainActivity. *)
Refresh(m) ==
  /\ main = "shown"
  /\ account # "none"
  /\ client[m] \in Wallets
  /\ QueueMessage(m)
  /\ UNCHANGED <<data, account, main, asked_about, old_chain, quiet, own>>

(* SendActivity.do_pay, on top of MainActivity. *)
Pay(m) ==
  /\ main = "stopped"
  /\ account # "none"
  /\ client[m] \in Payers
  /\ QueueMessage(m)
  /\ UNCHANGED <<data, account, main, asked_about, old_chain, quiet, own>>

(* onStop: another activity covers MainActivity. *)
StopMain ==
  /\ main = "shown"
  /\ \E w \in Wallets : CancelMessages(w)
  /\ main' = "stopped"
  /\ UNCHANGED <<data, account, asked_about, old_chain, quiet, own>>

(* onResume without anything to import. *)
ResumeMain ==
  /\ main = "stopped"
  /\ UiFree
  /\ main' = "shown"
  /\ UNCHANGED <<vars, data, account, asked_about, old_chain, quiet, own>>

(* delete_old_key_import_new.  From now on the entries of a transactions   *)
(* answer are those of another sender, which handle_http_rsp skips.        *)
DeleteOldKey ==
  /\ main = "shown"
  /\ account = "old"
  /\ UiFree
  /\ account' = "none"
  /\ old_chain' = [mined |-> mined, balance |-> chain_balance]
  /\ query' = IF query.of = "transactions" THEN [query EXCEPT !.value = -1] ELSE query
  /\ UNCHANGED <<vars, prefs, clientVars, now_sec, chainVars, main, asked_about, quiet, own>>

(* Mutant: only the balances are set back. *)
MutImported(p) ==
  [p EXCEPT !.balance = 0, !.verified_balance = 0, !.balance_refresh_sec = 0,
            !.verified_balance_changed_sec = 0]

(* What onResume sets back; the other times of the old account stay. *)
Imported(p) ==
  [p EXCEPT !.balance = 0, !.verified_balance = 0, !.balance_refresh_sec = 0,
            !.last_tx_nonce = -1, !.verified_nonce = -2, !.nonce_refresh_sec = 0,
            !.verified_balance_changed_sec = 0]

(* onResume after a key was scanned: the account is imported and, unless   *)
(* has_message, its balance refreshed.                                     *)
Import ==
  /\ main = "stopped"
  /\ account = "none"
  /\ UiFree
  /\ main' = "shown"
  /\ account' = "new"
  /\ prefs' = Imported(prefs)
  /\ quiet' = (http = [m \in Messages |-> 0] /\ \A m \in Messages : outcome[m] # "pending")
  /\ \E w \in Wallets :
       IF client_map[w] > 0 THEN UNCHANGED vars
       ELSE \E m \in Messages : client[m] = w /\ QueueMessage(m)
  /\ mined' = NewNonce
  /\ chain_balance' = NewBalance
  /\ tx' = [n \in Nonces |-> NoTx]
  /\ own' = {0, NewBalance}
  /\ UNCHANGED <<clientVars, query, now_sec, tx_sec, deposits, drops, asked_about,
                 old_chain>>

Activities ==
  \/ \E m \in Messages : Refresh(m) \/ Pay(m)
  \/ StopMain \/ ResumeMain
  \/ DeleteOldKey \/ Import

-----------------------------------------------------------------------------
(* The processor, and the UI thread when it is answered.  Every query is   *)
(* made for the account in the preferences.                                *)

AsksAbout == asked_about' = IF query' # NoQuery THEN account ELSE asked_about

Process(k) ==
  /\ ProcessMessage(k)
  /\ AsksAbout
  /\ UNCHANGED <<account, main, old_chain, quiet, own>>

(* A payment that was made is subtracted from the estimated balance, which *)
(* may be any the account has had.                                         *)
HandleAnswer(m) ==
  /\ HandleResponse(m)
  /\ AsksAbout
  /\ own' = IF query.of = "broadcast" /\ query.answer = "ok"
            THEN own \cup {b - EstCost : b \in own} ELSE own
  /\ UNCHANGED <<account, main, old_chain, quiet>>

Work ==
  /\ \/ \E t \in Threads : Deliver(t)
     \/ \E k \in Message_Type : SelectSuspended(k) \/ SelectNew(k)
     \/ WaitOnMonitor
     \/ WaitTimeout
  /\ UNCHANGED <<data, account, main, asked_about, old_chain, quiet, own>>

-----------------------------------------------------------------------------
(* The network.                                                            *)

(* A query about the account in the preferences. *)
ServeOwn ==
  /\ Network
  /\ query' # query => asked_about = account
  /\ own' = IF account = "new" THEN own \cup {chain_balance'} ELSE own
  /\ UNCHANGED <<account, main, asked_about, old_chain, quiet>>

(* A query about the account that was erased while it was under way, or    *)
(* about no account at all, of which the services know no transaction and  *)
(* no balance (read as a balance of 0).                                    *)
ServeErased ==
  /\ query # NoQuery
  /\ asked_about # account
  /\ Asked(query.of)
  /\ \/ query.of \in {"nonce", "transactions", "balance", "broadcast"} /\ Answers("error", 0)
     \/ query.of \in {"gas", "price"} /\ Answers("ok", 0)
     \/ /\ asked_about = "old"
        /\ \/ query.of = "nonce" /\ Answers("ok", old_chain.mined - 1)
           \/ query.of = "transactions" /\ Answers("ok", -1)
           \/ query.of = "balance" /\ Answers("ok", old_chain.balance)
           \/ query.of = "broadcast" /\ Answers("ok", 0)
     \/ /\ asked_about = "none"
        /\ \/ query.of \in {"nonce", "transactions"} /\ Answers("ok", -1)
           \/ query.of = "balance" /\ Answers("ok", 0)
  /\ UNCHANGED <<chainVars, account, main, asked_about, old_chain, quiet, own>>

ImportNext ==
  \/ Activities
  \/ \E k \in Message_Type : Process(k)
  \/ \E m \in Messages : HandleAnswer(m)
  \/ Work
  \/ ServeOwn
  \/ ServeErased
  \/ Elapse /\ UNCHANGED <<account, main, asked_about, old_chain, quiet, own>>

ImportSpec == ImportInit /\ [][ImportNext]_importVars

-----------------------------------------------------------------------------
(* Properties.  "This version of Etherpay only supports a single account.  *)
(* If you import a new account, then you erase your current account"       *)
(* (strings.xml:57).                                                       *)

(* Every balance the preferences hold is one the imported account has had  *)
(* since, less what it has paid itself, or 0 for "not known".              *)
BalanceIsOwn ==
  account = "new" => {prefs.balance, prefs.verified_balance} \subseteq own

(* So is the verified nonce, or it is not known.                           *)
NonceIsOwn == account = "new" => prefs.verified_nonce < mined

(* What onResume sets back is enough when the import finds the processor   *)
(* idle: nothing of the erased account is left, and no answer that is      *)
(* still to come can bring it back.                                        *)
CleanImport == quiet => BalanceIsOwn /\ NonceIsOwn
=============================================================================
