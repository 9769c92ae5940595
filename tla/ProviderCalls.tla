---------------------------- MODULE ProviderCalls ----------------------------
(***************************************************************************)
(* What a call to Google or to a WooCommerce shop can come to, and what    *)
(* the connectors make of it.  A fault says how the call ended; Effects    *)
(* says whether the provider can have done what was asked; the results are *)
(* what the code concludes from the fault alone, which is all it sees.     *)
(* One attempt is made for each call, without redirects or retries.        *)
(***************************************************************************)

\* How a call ends:
\*   refused       the connector itself refuses: no connection, scope, argument
\*   unreachable   the address cannot be resolved, the token not be renewed
\*   no_answer     connection, write or read fails or takes too long
\*   server_error  5xx;  throttled  429;  client_error  any other status
\*   unreadable    an answer that is too large, or does not confirm the write
\*   none          the answer that was expected
CallFaults == {"none", "refused", "unreachable", "no_answer", "server_error", "throttled",
               "client_error", "unreadable"}

\* Whether the provider did what was asked: external, what HTTP leaves open.
Done(fault) ==
  CASE fault \in {"none", "unreadable"} -> {TRUE}
    [] fault \in {"no_answer", "server_error"} -> BOOLEAN
    [] OTHER -> {FALSE}

\* GoogleHTTP.request and json, _raise_http_failure: uncertain=write.
Unknown(fault) == fault \in {"no_answer", "server_error", "unreadable"}

\* GoogleConnector.execute, for an operation that writes.
GoogleResult(fault) ==
  CASE fault = "none" -> "SUCCEEDED"
    [] Unknown(fault) -> "UNCERTAIN"
    [] fault = "refused" -> "REJECTED"
    [] OTHER -> "FAILED"

\* WooHTTP.json: which failures leave the outcome of a write open.
WooUnknown(fault) == fault \in {"no_answer", "server_error", "unreadable"}

\* WooCommerceConnector.execute.
WooResult(fault) ==
  CASE fault = "none" -> "SUCCEEDED"
    [] WooUnknown(fault) -> "UNCERTAIN"
    [] fault \in {"unreachable", "throttled"} -> "FAILED"
    [] OTHER -> "REJECTED"

\* OrdersSheetConnector.execute over GoogleSheetsConnector: the codes of the
\* sheet are classified a second time.
SheetResult(fault) ==
  CASE GoogleResult(fault) \in {"SUCCEEDED", "UNCERTAIN"} -> GoogleResult(fault)
    [] fault \in {"unreachable", "throttled"} -> "FAILED"
    [] OTHER -> "REJECTED"

\* The calls of a write: how it ended, and whether it had its effect.
WriteCalls == UNION {{[fault |-> f, done |-> d] : d \in Done(f)} : f \in CallFaults}
==============================================================================
