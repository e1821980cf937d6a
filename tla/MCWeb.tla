-------------------------------- MODULE MCWeb --------------------------------
(***************************************************************************)
(* Httpd with one request of every kind: pages, a form that fits the       *)
(* buffer and one that does not, both with the right and a wrong login,    *)
(* the listing, files with a short and with a full last piece, a page      *)
(* that does not exist, a head too long, and a method that is not known.   *)
(***************************************************************************)
EXTENDS Httpd

MCFiles == [name \in {"index.html", "admin/index.html"} |-> IF name = "index.html" THEN 3 ELSE 2]

Get(url, auth) ==
  [method |-> "GET", url |-> url, auth |-> auth, head |-> 1, body |-> 0, login |-> "none"]

Post(auth, body, new) ==
  [Get("/admin/form.cgi", auth) EXCEPT !.method = "POST", !.body = body, !.login = new]

MCRequests ==
  {Get("/index.html", "none"),
   Get("/admin/index.html", "a"), Get("//admin/index.html", "none"),
   Get("/admin/wifiscan.cgi", "a"),
   Post("a", 1, "b"), Post("b", 2, "a"),
   Get("/admin/buildinfo.cgi", "b"), Get("/sensors.cgi", "none"),
   [Get("/missing", "none") EXCEPT !.head = 2],
   [Get("/", "none") EXCEPT !.head = 3],
   [Get("/", "none") EXCEPT !.method = "HEAD"]}

\* Connections are interchangeable.
Symmetry == Permutations(Conns)
=============================================================================
