--------------------------- MODULE MCHttpConnection ---------------------------
(***************************************************************************)
(* Instances of HttpConnection for TLC: the kinds of request that take a   *)
(* path of their own through httplib.                                      *)
(***************************************************************************)
EXTENDS HttpConnection

Plain(method, framing, size) ==
  [line |-> "good", method |-> method, framing |-> framing, size |-> size,
   conn |-> "keep", expect |-> FALSE]

Get == Plain("GET", "none", 0)

SomeRequests ==
  { Get,
    [Get EXCEPT !.conn = "close"],
    [Get EXCEPT !.line = "bad"],
    Plain("GET", "length", 1),
    Plain("POST", "none", 0),
    [Plain("POST", "length", 2) EXCEPT !.expect = TRUE],
    Plain("POST", "chunked", 2) }

MoreRequests ==
  { Get,
    [Get EXCEPT !.line = "long"],
    [Get EXCEPT !.conn = "old"],
    Plain("TRACE", "none", 0),
    [Plain("POST", "length", 1) EXCEPT !.conn = "close"],
    [Plain("POST", "gzip", 1) EXCEPT !.expect = TRUE],
    Plain("POST", "length", 0),
    Plain("POST", "chunked", 0) }

AllRequests == SomeRequests \union MoreRequests

=============================================================================
