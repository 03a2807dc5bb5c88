--------------------------- MODULE MCDaemonStores ---------------------------
(***************************************************************************)
(* DaemonStores on two fields of two values, with two writers of the       *)
(* configuration and one of the key beside the readers.                    *)
(***************************************************************************)
EXTENDS DaemonStores, TLC

mc_symmetry == Permutations(Fields)

mc_max_of_kind == [set_config |-> 2, get_config |-> 1, api_key_set |-> 1, ocr |-> 2,
                   speech |-> 1]

\* What later steps and the properties read: not how a request was answered, nor
\* a change that is applied, and of the OCR history only the length.
mc_seen == <<up, storeVars, Len(ocr_history), crashes,
             [n \in Slots |-> [tasks[n] EXCEPT
                 !.how = "none",
                 !.arg = IF tasks[n].at \in {"clone", "save", "write"} THEN Nothing ELSE @]]>>
=============================================================================
