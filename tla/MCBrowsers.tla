----------------------------- MODULE MCBrowsers -----------------------------
(* The components that end by themselves, for TLC: QR login, the slider       *)
(* solver, the login by password, the fetch of an order's page and the        *)
(* WebSocket client in the background.                                        *)
(* Here they share no state, so one run explores each of them by itself, the  *)
(* others at rest; a component's fairness is assumed in its own behaviours.   *)
EXTENDS QrLogin, SliderSolve, BrowserLogin, OrderFetcher, WsClient

VARIABLE component

BrowserVars == <<component, qrVars, solveVars, loginVars, fetchVars, vars>>

BrowserInit ==
    /\ component \in {"qr", "solve", "login", "fetch", "ws"}
    /\ QrInit /\ SolveInit /\ BrowserLoginInit /\ FetchInit /\ Init
    /\ component # "solve" => ~refreshMode /\ shown = "none"
    /\ component # "login" => ~clean
    /\ component # "fetch" => ~cached

QrSteps == component = "qr" /\ QrNext /\ UNCHANGED <<component, solveVars, loginVars, fetchVars, vars>>

SolveSteps == component = "solve" /\ SolveNext /\ UNCHANGED <<component, qrVars, loginVars, fetchVars, vars>>

LoginSteps == component = "login" /\ BrowserLoginNext /\ UNCHANGED <<component, qrVars, solveVars, fetchVars, vars>>

FetchSteps == component = "fetch" /\ FetchNext /\ UNCHANGED <<component, qrVars, solveVars, loginVars, vars>>

WsSteps == component = "ws" /\ Next /\ UNCHANGED <<component, qrVars, solveVars, loginVars, fetchVars>>

BrowserNext == QrSteps \/ SolveSteps \/ LoginSteps \/ FetchSteps \/ WsSteps

BrowserFairness ==
    \/ component = "qr" /\ QrFairness
    \/ component = "solve" /\ SolveFairness
    \/ component = "login" /\ BrowserLoginFairness
    \/ component = "fetch" /\ FetchFairness
    \/ component = "ws" /\ Fairness

BrowserSpec == BrowserInit /\ [][BrowserNext]_BrowserVars /\ BrowserFairness
=============================================================================
