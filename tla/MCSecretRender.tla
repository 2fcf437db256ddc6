---------------------------- MODULE MCSecretRender ---------------------------
(***************************************************************************)
(* A stack that reads a KV secret and one that reads a certificate, both   *)
(* fail-closed; a unit that requires the agent.                            *)
(***************************************************************************)
EXTENDS SecretRender, TLC

CONSTANTS env, pem, stack, proxy, roster

MCUses == (stack :> env) @@ (proxy :> pem) @@ (roster :> env)
=============================================================================
