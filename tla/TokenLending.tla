---------------------------- MODULE TokenLending ----------------------------
(***************************************************************************)
(* fry-config has no credentials of its own: it borrows the access token   *)
(* of fry-agent over UBUS (apps/config/sync/token_manager.c, ubus.c,       *)
(* main.c, and get_access_token of apps/agent/services/ubus_server.c).     *)
(***************************************************************************)
EXTENDS Naturals

CONSTANTS MaxTokens

VARIABLES
  lent,       \* context->access_token; 0 is none
  token,      \* access_token->token of the agent
  expired

Accepted(t) == t > expired

\* sync_is_token_valid.
Initialised == lent # 0
Usable == lent # 0 /\ Accepted(lent)

\* get_access_token: a token that is not valid is refused by the borrower.
Borrow ==
  /\ token # 0 /\ Accepted(token)
  /\ lent' = token

\* token_refresh_task_cb every ten seconds, and the start of config_sync_task.
Refresh == ~Usable /\ Borrow

\* fry-config starts again, without a token.
Forget == lent # 0 /\ lent' = 0

TypeOK == lent \in 0..MaxTokens
=============================================================================
