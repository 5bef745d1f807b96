-------------------------------- MODULE Nem --------------------------------
(***************************************************************************)
(* nem2.c: what a NEM transaction must contain, the dialogs that show it   *)
(* and what is then written into the data that is signed.                  *)
(*                                                                         *)
(* A transaction is a record of what the code branches on.  The field      *)
(* lacks names what is missing in it or invalid.  A dialog is the set of   *)
(* the parts of the transaction it shows, and an nem_ask function the      *)
(* sequence of its dialogs; an nem_fsm function is the set of the parts it *)
(* writes.  Names of mosaics are numbers, in the order of                  *)
(* nem_mosaicCompare, and quantities are modulo Wrap (2^64 in the code).   *)
(***************************************************************************)
EXTENDS Integers, Sequences, FiniteSets, SequencesExt

CONSTANTS
  Definitions,    \* the mosaics of nem_mosaics.h: name -> "xem", "plain" or "levied"
  Wrap            \* quantities are modulo Wrap
ASSUME NemAssumption ==
  Wrap \in Nat \ {0} /\ \A n \in DOMAIN Definitions : Definitions[n] \in {"xem", "plain", "levied"}

Part(what) == [what |-> what, name |-> 0, quantity |-> 0]
Parts(names) == {Part(what) : what \in names}
MosaicPart(m) == [what |-> "mosaic", name |-> m.name, quantity |-> m.quantity]
When(b, s) == IF b THEN s ELSE <<>>

\* The transactions: what is branched on, by kind.
Mosaics == [name : Nat, quantity : 0 .. Wrap - 1]
Transactions ==
  [kind : {"transfer"}, lacks : SUBSET STRING, mosaics : Seq(Mosaics), payload : BOOLEAN,
   encrypted : BOOLEAN]
  \cup [kind : {"namespace"}, lacks : SUBSET STRING, parent : BOOLEAN]
  \cup [kind : {"mosaic"}, lacks : SUBSET STRING, forbidden : SUBSET STRING, levy : BOOLEAN]
  \cup [kind : {"supply", "importance"}, lacks : SUBSET STRING]
  \cup [kind : {"aggregate"}, lacks : SUBSET STRING, modifications : Seq({"Add", "Delete"}),
        relative_change : Int]

\* nem_mosaicByName
Definition(m) == IF m.name \in DOMAIN Definitions THEN Definitions[m.name] ELSE "unknown"

-----------------------------------------------------------------------------
(* Validation: NULL is TRUE.                                               *)

Has(t, fields) == t.lacks \cap fields = {}

nem_validate_common(c, inner) ==
  /\ Has(c, {"network", "timestamp", "fee", "deadline"})
  /\ c.signer = IF inner THEN "key" ELSE "none"                 \* or "short"
nem_validate_transfer(t) ==
  Has(t, {"recipient", "amount", "address", "namespace", "mosaic", "quantity"}
         \cup IF t.encrypted THEN {"public_key"} ELSE {})
nem_validate_provision_namespace(t) == Has(t, {"namespace", "sink", "fee", "address"})
nem_validate_mosaic_creation(t) ==
  /\ Has(t, {"definition", "sink", "fee", "address", "namespace", "mosaic"})
  /\ t.forbidden = {}                                 \* name, ticker, networks
  /\ t.levy => Has(t, {"levy_fee", "levy_address", "levy_namespace", "levy_mosaic",
                       "divisibility", "supply", "mutable_supply", "transferable",
                       "description"})
nem_validate_supply_change(t) == Has(t, {"namespace", "mosaic", "type", "delta"})
nem_validate_aggregate_modification(t, creation) ==
  /\ creation => t.modifications # <<>>
  /\ Has(t, {"type", "public_key"})
  /\ creation => \A i \in DOMAIN t.modifications : t.modifications[i] # "Delete"
nem_validate_importance_transfer(t) == Has(t, {"mode", "public_key"})

-----------------------------------------------------------------------------
(* nem_canonicalizeMosaics merges mosaics of one name, then sorts them by  *)
(* exchanging.                                                             *)

\* The quantities of the mosaics of a name, added up: what the merge should find.
Total(s, name) ==
  LET sum[n \in 0 .. Len(s)] ==
        IF n = 0 THEN 0
        ELSE IF s[n].name = name THEN (sum[n - 1] + s[n].quantity) % Wrap ELSE sum[n - 1]
  IN sum[Len(s)]

\* Into the first mosaic of that name, or a new one.
Add(out, m) ==
  IF \E i \in DOMAIN out : out[i].name = m.name
  THEN [i \in DOMAIN out |->
          IF out[i].name = m.name THEN [out[i] EXCEPT !.quantity = (@ + m.quantity) % Wrap]
          ELSE out[i]]
  ELSE Append(out, m)
Merge(s) ==
  LET out[n \in 0 .. Len(s)] == IF n = 0 THEN <<>> ELSE Add(out[n - 1], s[n])
  IN out[Len(s)]

Swap(s, i, j) == [s EXCEPT ![i] = s[j], ![j] = s[i]]
Exchange(s, i, j) == IF s[i].name > s[j].name THEN Swap(s, i, j) ELSE s
SortFrom(s, i) ==
  LET t[j \in i .. Len(s)] == IF j = i THEN s ELSE Exchange(t[j - 1], i, j)
  IN t[Len(s)]
OnePass(s) == SortFrom(s, 1)                                      \* a mistake
Sort(s) ==
  LET t[i \in 0 .. Len(s) - 1] == IF i = 0 THEN s ELSE SortFrom(t[i - 1], i)
  IN t[Len(s) - 1]
nem_canonicalizeMosaics(s) == IF Len(s) <= 1 THEN s ELSE Sort(Merge(s))

-----------------------------------------------------------------------------
(* The dialogs.                                                            *)

\* layoutNEMTransferMosaic lays the dialog without the levy over the one with it.
layoutNEMTransferMosaic(m) == {MosaicPart(m), Part("amount")}

XemAt(s) == {i \in DOMAIN s : Definition(s[i]) = "xem"}
HidesListed(t) ==                                                 \* a mistake
  LET others == SelectSeq(t.mosaics, LAMBDA m : Definition(m) = "unknown")
  IN <<Parts({"fee", "amount"}) \cup {MosaicPart(t.mosaics[i]) : i \in XemAt(t.mosaics)}>>
     \o [i \in DOMAIN others |-> layoutNEMTransferMosaic(others[i])]
     \o <<Parts({"payload"}), Parts({"recipient"})>>
nem_askTransfer(t) ==
  LET s == t.mosaics
      xem == CHOOSE i \in {0} \cup XemAt(s) : \A j \in XemAt(s) : j <= i   \* the last one
      listed == [i \in DOMAIN s |-> layoutNEMTransferMosaic(s[i])]
  IN (IF s = <<>> THEN <<Parts({"fee", "amount"})>>
      ELSE When(\E i \in DOMAIN s : Definition(s[i]) = "unknown", <<{}>>)
           \o <<Parts({"fee", "amount"}) \cup {MosaicPart(s[i]) : i \in {xem} \ {0}}>>
           \o RemoveAt(listed, xem))
     \o When(t.payload, <<Parts({"payload"})>>)
     \o <<Parts({"recipient"})>>

\* Without a parent the format of the dialog has no place for the name.
nem_askProvisionNamespace(t) ==
  <<IF t.parent THEN Parts({"namespace", "parent"}) ELSE {}, Parts({"rentalFee", "fee"})>>

nem_askMosaicCreation(t) ==
  <<Parts({"mosaicName"}), Parts({"description"}),
    Parts({"supply", "divisibility", "mutable_supply", "transferable"})>>
  \o When(t.levy, <<Parts({"levy"}), Parts({"levyRecipient"})>>)
  \o <<Parts({"creationFee", "fee"})>>

nem_askSupplyChange(t) ==
  <<Parts({"mosaicName"}), Parts({"type", "delta"}), Parts({"fee"})>>

Modification(t, i) == [what |-> t.modifications[i], name |-> i, quantity |-> 0]
nem_askAggregateModification(t, creation) ==
  When(creation, <<{}>>)
  \o [i \in DOMAIN t.modifications |-> {Modification(t, i)}]
  \o When(t.relative_change # 0, <<Parts({"relative_change"})>>)
  \o <<Parts({"fee"})>>

nem_askImportanceTransfer(t) == <<Parts({"mode"}), Parts({"fee"})>>

nem_askMultisig == <<Parts({"account"}), Parts({"multisigFee"})>>

-----------------------------------------------------------------------------
(* What is written.  The network is the heading of every dialog and is     *)
(* left out; the timestamp and the deadline are in no dialog.              *)

nem_transaction_create(names) == Parts({"timestamp", "deadline", "fee"} \cup names)

\* What is encrypted is written even if the payload is empty.
nem_fsmTransfer(t) ==
  nem_transaction_create({"recipient", "amount"}
                         \cup IF t.payload \/ t.encrypted THEN {"payload"} ELSE {})
  \cup {MosaicPart(t.mosaics[i]) : i \in DOMAIN t.mosaics}
nem_fsmProvisionNamespace(t) ==
  nem_transaction_create({"namespace", "sink", "rentalFee"}
                         \cup IF t.parent THEN {"parent"} ELSE {})
nem_fsmMosaicCreation(t) ==
  nem_transaction_create({"mosaicName", "description", "divisibility", "supply",
                          "mutable_supply", "transferable", "sink", "creationFee"}
                         \cup IF t.levy THEN {"levy", "levyRecipient"} ELSE {})
nem_fsmSupplyChange(t) == nem_transaction_create({"mosaicName", "type", "delta"})
nem_fsmAggregateModification(t) ==
  nem_transaction_create(IF t.relative_change # 0 THEN {"relative_change"} ELSE {})
  \cup {Modification(t, i) : i \in DOMAIN t.modifications}
nem_fsmImportanceTransfer(t) == nem_transaction_create({"mode", "remoteKey"})
nem_fsmMultisig(inner) ==
  inner \cup Parts({"account", "multisigFee", "multisigTimestamp", "multisigDeadline"})
=============================================================================
