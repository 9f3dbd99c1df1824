------------------------------- MODULE AccountsMC -------------------------------
EXTENDS Identities

User1 == [NewUser("p", {"email", "wxweb"}) EXCEPT !.ok = {"email"}]
Admin == [NewUser("p", {"phone"}) EXCEPT !.role = "admin", !.totp = TRUE, !.ok = {"phone"}]
MCUsers == 1 .. 3
MCTokens == 1 .. 3
MCInitUsers == <<User1, Admin, NoUser>>
MCInitJwts == {Jwt("access", User1, 1), Jwt("access", Admin, 2), Jwt("admin", Admin, 2)}

MCScenarios ==
  { [ops |-> {"login", "refresh", "password"}, calls |-> 3, reload |-> FALSE, crashes |-> 0],
    [ops |-> {"login", "totp", "totpOff", "totpOn", "adminLogin"}, calls |-> 3, reload |-> FALSE, crashes |-> 0],
    [ops |-> {"register", "resend", "verify", "ban"}, calls |-> 3, reload |-> FALSE, crashes |-> 0],
    [ops |-> {"resetRequest", "resetConfirm"}, calls |-> 4, reload |-> FALSE, crashes |-> 0],
    [ops |-> {"resetRequest", "resetConfirm", "login", "logout"}, calls |-> 3, reload |-> FALSE, crashes |-> 0],
    [ops |-> {"unban", "resetPw", "unlock", "reset2fa", "login"}, calls |-> 2, reload |-> FALSE, crashes |-> 0],
    [ops |-> {"setRole", "dropAdmin", "remove", "delete", "create", "refresh"}, calls |-> 2, reload |-> FALSE, crashes |-> 0],
    [ops |-> {"cliPasswd", "cliUnlock", "cliReset2fa", "cliBan", "cliUnban", "cliRemove", "login", "password"}, calls |-> 2, reload |-> TRUE, crashes |-> 1],
    [ops |-> {"wx-login", "bind", "bindInit", "app-bind", "confirm", "unbind"}, calls |-> 3, reload |-> FALSE, crashes |-> 0],
    [ops |-> {"app-login", "app-sdk", "apple", "confirm", "app-confirm", "handoff", "app-sdk-bind"}, calls |-> 3, reload |-> FALSE, crashes |-> 0],
    [ops |-> {"bindSend", "bindVerify", "unbind", "apple-bind"}, calls |-> 3, reload |-> FALSE, crashes |-> 0]}
================================================================================
