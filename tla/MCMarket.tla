------------------------------ MODULE MCMarket ------------------------------
(* Small instances of the market: one seller, two registered buyers and a  *)
(* stranger, an offer of two periods, and faulty submissions of it.        *)
EXTENDS Market, TLC

CONSTANTS seller, buyer, stranger, ip, s1, s2, t1, t2

MCIAs == {seller, buyer, stranger}
MCRegistered == {seller, buyer}
MCIPs == {ip}

specs(prof, first, last) ==
    [seller |-> seller, prof |-> prof, span |-> Len(prof) * BW_PERIOD,
     tmpl |-> [ip |-> ip, first |-> first, last |-> last]]
signed(s) == [specs |-> s, sig |-> [by |-> s.seller, over |-> s, salt |-> 0]]

\* room for two sales by bandwidth; the template is written high port first
TwoPorts == signed(specs(<<2, 1>>, 11, 10))
\* more bandwidth than ports
OnePort == signed(specs(<<2, 1>>, 10, 10))
\* what is submitted is not what was signed
Tampered == [TwoPorts EXCEPT !.specs.prof = <<9, 9>>]
\* the span does not fit the profile
WrongSpan == signed([specs(<<2, 1>>, 10, 11) EXCEPT !.span = 1])

GoodSubmissions == {TwoPorts}
AllSubmissions == {TwoPorts, OnePort, Tampered, WrongSpan}

demand(prof, start) == [prof |-> prof, start |-> start]
\* one unit of the first period; one unit of each
TwoDemands == {demand(<<1>>, 0), demand(<<1, 1>>, 0)}

OneThread == [t \in {t1} |-> s1]
OneProcess == [t \in {t1, t2} |-> s1]
TwoProcesses == (t1 :> s1) @@ (t2 :> s2)
=============================================================================
