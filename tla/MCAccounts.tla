----------------------------- MODULE MCAccounts -----------------------------
(* A small instance of Accounts: an OAuth provider that serves one vendor's  *)
(* models under their own names, a key provider that reaches it too.         *)
EXTENDS Accounts

CONSTANTS u1, u2, c1, c2, codex, router, openai, m1, m2

MCVendors == openai :> {m1, m2}
MCReaches == codex :> (openai :> {m1}) @@ router :> (openai :> {m2})
MCAuthKind == codex :> "oauth" @@ router :> "api_key"
MCDefault == <<m1>>
=============================================================================
