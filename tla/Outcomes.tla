------------------------------ MODULE Outcomes ------------------------------
(***************************************************************************)
(* What a Python function comes to when it gives no value: the modules of  *)
(* WUEFI_crypto.py and WUEFI_crypto_sbsign.py share them.                  *)
(***************************************************************************)
CONSTANTS None,    \* Python's None (and the False of a comparison that failed)
          Raises   \* an exception
=============================================================================
