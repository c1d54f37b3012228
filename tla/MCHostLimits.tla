----------------------------- MODULE MCHostLimits -----------------------------
(* Instances of HostLimits for TLC: rates, delays and losses at and beyond their
   limits, and fractions whose quota is below the least that the kernel takes. *)
EXTENDS HostLimits

Bw(bw, how, red) == [Nothing EXCEPT !.bw = bw, !.how = how, !.red = red]
MCParams ==
    {Nothing, Bw(10, "htb", "no"), Bw(10, "tbf", "no"), Bw(0, "tbf", "no"), Bw(0, "htb", "no"),
     Bw(1000, "hfsc", "ecn"), Bw(1001, "htb", "red"), Bw(-1, "htb", "no"),
     [Bw(20, "htb", "red") EXCEPT !.delay = 5, !.jitter = 1, !.loss = 100],
     [Bw(20, "htb", "no") EXCEPT !.delay = 5, !.loss = 101],
     [Bw(20, "tbf", "ecn") EXCEPT !.limit = 0, !.speedup = 40],
     [Nothing EXCEPT !.loss = 5], [Nothing EXCEPT !.jitter = 1],
     [Nothing EXCEPT !.delay = 0], [Nothing EXCEPT !.jitter = 1, !.limit = 7]}
MCFractions == {<<-1, 1>>, <<0, 1>>, <<1, 2>>, <<1, 3>>, <<1, 1000>>, <<1, 100000>>}
=============================================================================
