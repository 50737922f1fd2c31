------------------------------ MODULE AppTypes ------------------------------
(***************************************************************************)
(* The applications of types.h and types.cpp: the order of the enumeration,*)
(* the names the command line knows them by, and the table by which a      *)
(* server name is given to one of them. A name is a TLA+ string, because   *)
(* the table looks for patterns inside it.                                 *)
(***************************************************************************)
EXTENDS Integers, Sequences

CharAt(s, i) == SubSeq(s, i, i)

(* Where p begins in s.                                                    *)
FoundAt(s, p) ==
    {i \in 1 .. Len(s) - Len(p) + 1 : SubSeq(s, i, i + Len(p) - 1) = p}

(* std::string::find, which finds the empty string in every string.        *)
Finds(s, p) == p = "" \/ FoundAt(s, p) # {}

UpperLetters == "ABCDEFGHIJKLMNOPQRSTUVWXYZ"
LowerLetters == "abcdefghijklmnopqrstuvwxyz"

LowerChar(c) ==
    IF FoundAt(UpperLetters, c) = {} THEN c
    ELSE CharAt(LowerLetters, CHOOSE i \in FoundAt(UpperLetters, c) : TRUE)

Lower(s) ==
    LET lower[i \in 0 .. Len(s)] ==
            IF i = 0 THEN "" ELSE lower[i - 1] \o LowerChar(CharAt(s, i))
    IN  lower[Len(s)]
-----------------------------------------------------------------------------
(* enum AppType with appTypeToString, up to APP_COUNT.                     *)
AppNames ==
    <<[app |-> "UNKNOWN", name |-> "Unknown"], [app |-> "HTTP", name |-> "HTTP"],
      [app |-> "HTTPS", name |-> "HTTPS"], [app |-> "DNS", name |-> "DNS"],
      [app |-> "TLS", name |-> "TLS"], [app |-> "QUIC", name |-> "QUIC"],
      [app |-> "GOOGLE", name |-> "Google"], [app |-> "FACEBOOK", name |-> "Facebook"],
      [app |-> "YOUTUBE", name |-> "YouTube"], [app |-> "TWITTER", name |-> "Twitter/X"],
      [app |-> "INSTAGRAM", name |-> "Instagram"], [app |-> "NETFLIX", name |-> "Netflix"],
      [app |-> "AMAZON", name |-> "Amazon"], [app |-> "MICROSOFT", name |-> "Microsoft"],
      [app |-> "APPLE", name |-> "Apple"], [app |-> "WHATSAPP", name |-> "WhatsApp"],
      [app |-> "TELEGRAM", name |-> "Telegram"], [app |-> "TIKTOK", name |-> "TikTok"],
      [app |-> "SPOTIFY", name |-> "Spotify"], [app |-> "ZOOM", name |-> "Zoom"],
      [app |-> "DISCORD", name |-> "Discord"], [app |-> "GITHUB", name |-> "GitHub"],
      [app |-> "CLOUDFLARE", name |-> "Cloudflare"]>>

AppType == {AppNames[i].app : i \in DOMAIN AppNames}

(* The applications --block-app adds for a name: none if it is not known.  *)
AppsNamed(name) ==
    {AppNames[i].app : i \in {j \in DOMAIN AppNames : AppNames[j].name = name}}

(* sniToAppType: the rows are tried in this order, and the first one with  *)
(* a pattern somewhere in the name decides.                                *)
Patterns ==
    <<[app |-> "GOOGLE", find |-> {"google", "gstatic", "googleapis", "ggpht", "gvt1"}],
      [app |-> "YOUTUBE", find |-> {"youtube", "ytimg", "youtu.be", "yt3.ggpht"}],
      [app |-> "FACEBOOK", find |-> {"facebook", "fbcdn", "fb.com", "fbsbx", "meta.com"}],
      [app |-> "INSTAGRAM", find |-> {"instagram", "cdninstagram"}],
      [app |-> "WHATSAPP", find |-> {"whatsapp", "wa.me"}],
      [app |-> "TWITTER", find |-> {"twitter", "twimg", "x.com", "t.co"}],
      [app |-> "NETFLIX", find |-> {"netflix", "nflxvideo", "nflximg"}],
      [app |-> "AMAZON", find |-> {"amazon", "amazonaws", "cloudfront", "aws"}],
      [app |-> "MICROSOFT", find |-> {"microsoft", "msn.com", "office", "azure",
                                      "live.com", "outlook", "bing"}],
      [app |-> "APPLE", find |-> {"apple", "icloud", "mzstatic", "itunes"}],
      [app |-> "TELEGRAM", find |-> {"telegram", "t.me"}],
      [app |-> "TIKTOK", find |-> {"tiktok", "tiktokcdn", "musical.ly", "bytedance"}],
      [app |-> "SPOTIFY", find |-> {"spotify", "scdn.co"}],
      [app |-> "ZOOM", find |-> {"zoom"}],
      [app |-> "DISCORD", find |-> {"discord", "discordapp"}],
      [app |-> "GITHUB", find |-> {"github", "githubusercontent"}],
      [app |-> "CLOUDFLARE", find |-> {"cloudflare", "cf-"}]>>

SniToAppType(sni) ==
    LET rows == {i \in DOMAIN Patterns :
                    \E p \in Patterns[i].find : Finds(Lower(sni), p)}
    IN  CASE sni = "" -> "UNKNOWN"
          [] sni # "" /\ rows = {} -> "HTTPS"
          [] OTHER -> Patterns[CHOOSE i \in rows : \A j \in rows : i <= j].app
=============================================================================
