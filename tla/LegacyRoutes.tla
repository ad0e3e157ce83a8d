---------------------------- MODULE LegacyRoutes ----------------------------
(***************************************************************************)
(* The routes of the legacy API and who gets through to them               *)
(* (handler/routes.go, middleware/authmiddleware.go).                      *)
(***************************************************************************)

\* RegisterHandlers: the groups without the middleware.
PublicRoutes ==
    {"/user/sign-msg", "/user/wallet-login", "/user/refresh-token",
     "/token/token-list", "/token/detail", "/token/hot-pick", "/token/trending-token",
     "/token/holders", "/token/ranking-token-list", "/token/overview-rankings",
     "/token/advanced-token-list", "/comment/list", "/trade/list",
     "/trade/upcoming-token", "/trade/almost-full-token", "/trade/today-launching-token",
     "/kline/history", "/kline/history-with-cursor",
     "/back/user-status", "/back/user-commission", "/back/user-invites"}

\* RegisterHandlers: the groups behind AuthMiddleware, for wallets and for the
\* activities and invites of their owners.
WalletRoutes ==
    {"/user/overview-stats", "/user/following-list", "/user/followers-list",
     "/token/create-token", "/token/calculate-address", "/token/favorite",
     "/token/unfavorite", "/token/my-ido-list", "/token/my-created-token-list",
     "/token/my-owned-token-list", "/token/my-favorite-tokens",
     "/token/trade-rankings-list", "/comment/get-upload-url", "/comment/post-comment",
     "/comment/post-img-comment", "/comment/delete", "/file/token-logo-presign",
     "/file/token-banner-presign", "/file/activity-image-presign", "/file/upload-confirm"}
ActivityRoutes ==
    {"/act/user-participated", "/act/user-created", "/act/create", "/back/agent-detail",
     "/back/agent-daily-commission", "/back/agent-daily-new-agents",
     "/back/agent-daily-trade-amount", "/back/agent-descendant-stats",
     "/front/rebate_record", "/front/rebate_record/check-status"}

Routes == PublicRoutes \union WalletRoutes \union ActivityRoutes

\* Whether a request whose token was, or was not, verified reaches its handler.
Reaches(route, verified) == route \in PublicRoutes \/ verified

=============================================================================
