--------------------------- MODULE MC_ChainStore ---------------------------
(***************************************************************************)
(* ChainStore instantiated for TLC: model values for chains, payloads,     *)
(* keys and nonces come from the .cfg files.                               *)
(***************************************************************************)
EXTENDS ChainStore

\* Tamper kinds a verification is expected to notice.
DetectedTamperKinds ==
    {"blockHash", "blockNonce", "blockData", "blockSignature",
     "headerData", "headerKey", "indexGrow", "prevHashWidth"}

=============================================================================
