----------------------------- MODULE URLFinder ------------------------------
(***************************************************************************)
(* App/RHRadioURLFinder.m: which of the exchanges that reach the           *)
(* application are radio streams, and what the window lists for them.      *)
(*                                                                         *)
(* An exchange is what addRequest:response: tells apart: the extension of  *)
(* the requested path, the Content-Type, the host, whether a header begins *)
(* with "icy-", and where the query has a "token=", first or later.        *)
(***************************************************************************)
EXTENDS Naturals, Sequences, FiniteSets

CONSTANTS
    NoContentType, \* the response has none
    NoHost,        \* the request had no valid URL, so the response has none
    MaxRequests    \* bound: calls of addRequest:response:

ASSUME FinderAssumption ==
    /\ MaxRequests \in Nat
    /\ NoHost \notin {"live.streamtheworld.com", "mdn.newmedia.nacamar.net", "other"}

PathExtensionsToIgnore ==
    {"png", "jpg", "php", "js", "html", "htm", "css", "jpeg", "gif", "ico", "json",
     "xml", "asp", "aspx", "woff"}

\* Content types with a prefix that is ignored, one for each of several prefixes.
MimeCodesToIgnore == {"text/html", "image/png", "application/json"}

MPEGTypes == {"audio/mpeg", "audio/x-mpeg"}

AACTypes == {"audio/aac", "audio/aacp", "audio/x-aac", "audio/mp4"}

MimeCodes ==
    {"application/xspf+xml", "application/vnd.apple.mpegurl", "application/flv"}
    \cup MPEGTypes \cup AACTypes

MimeCodeType ==
    [code \in MimeCodes |->
        CASE code = "application/xspf+xml" -> "XSPFPlaylist"
          [] code = "application/vnd.apple.mpegurl" -> "HTTPStreamingPlaylist"
          [] code \in MPEGTypes -> "MPEGStream"
          [] code \in AACTypes -> "AACStream"
          [] code = "application/flv" -> "FlashStream"]

ContentTypes ==
    MimeCodes \cup MimeCodesToIgnore \cup {"video/mp4", NoContentType}

\* "mp3" and "" stand for all the extensions that are not ignored.
Exchanges ==
    [extension : {"png", "mp3", ""}, contentType : ContentTypes,
     host : {"live.streamtheworld.com", "mdn.newmedia.nacamar.net", "other", NoHost},
     icy : BOOLEAN, token : {"none", "first", "later"}]

VARIABLES
    requests, \* the exchanges handed to addRequest:response:
    streams   \* what didFindStream added to the window's list

vars == <<requests, streams>>

Init == requests = <<>> /\ streams = <<>>

-----------------------------------------------------------------------------
ContentType(e) ==
    IF e.contentType \in MimeCodes THEN MimeCodeType[e.contentType]
                                    ELSE "None"

\* The range of a string in nil begins at 0, which is not NSNotFound: a response
\* without a host counts as one of the first server asked about.
ResponseType(e) ==
    CASE e.host \in {"live.streamtheworld.com", NoHost} -> "StreamTheWorld"
      [] e.host = "mdn.newmedia.nacamar.net" -> "Nacamar"
      [] e.host = "other" -> IF e.icy THEN "Icecast" ELSE "None"

\* The words looked for that a content type contains: "aacp" contains "aac".  An
\* exchange without a content type does not come this far.
WordsIn(contentType) ==
    CASE contentType \in MPEGTypes \cup {"application/vnd.apple.mpegurl"} -> {"mpeg"}
      [] contentType = "audio/aacp" -> {"aac", "aacp"}
      [] contentType \in {"audio/aac", "audio/x-aac"} -> {"aac"}
      [] contentType \in {"audio/mp4", "video/mp4"} -> {"mp4"}
      [] OTHER -> {}

\* The first of the words that is found decides; a stream keeps format unknown
\* when none is.
Format(contentType) ==
    IF "mpeg" \in WordsIn(contentType) THEN "MP3"
    ELSE IF "aacp" \in WordsIn(contentType) THEN "HE-AAC"
    ELSE IF WordsIn(contentType) \cap {"aac", "mp4"} # {} THEN "AAC"
    ELSE "unknown"

\* Two replacements: the first directory gets the prefix "ps-", and "?token=" goes
\* with all that follows; "&token=" is not replaced.
RewrittenURL(e) ==
    [server |-> e.host, path |-> "ps-",
     token |-> IF e.token = "first" THEN "none" ELSE e.token]

OwnURL(e) == [server |-> e.host, path |-> "own", token |-> e.token]

StreamForIcecastResponse(e) ==
    [URL |-> OwnURL(e), format |-> Format(e.contentType)]

PlaylistForStreamTheWorld ==
    [URL |-> [server |-> "provisioning.streamtheworld.com", path |-> "pls",
              token |-> "none"],
     format |-> "unknown"]

StreamForNacamar(e) ==
    IF e.token = "none" THEN StreamForIcecastResponse(e)
    ELSE [StreamForIcecastResponse(e) EXCEPT !.URL = RewrittenURL(e)]

\* Mutant: an empty extension is a prefix of all that are ignored.
Mut_IsIgnored(e) == e.extension \in PathExtensionsToIgnore \cup {""}

IsIgnored(e) ==
    \/ e.extension \in PathExtensionsToIgnore
    \/ e.contentType \in MimeCodesToIgnore

\* What the type of the server makes of a content type in the table.
StreamsOf(e) ==
    CASE ResponseType(e) = "StreamTheWorld" ->
            IF ContentType(e) = "FlashStream"
              THEN <<PlaylistForStreamTheWorld>> ELSE <<>>
      [] ResponseType(e) = "Nacamar" -> <<StreamForNacamar(e)>>
      [] ResponseType(e) = "Icecast" -> <<StreamForIcecastResponse(e)>>
      [] OTHER -> <<>>

AddRequest(e) ==
    /\ Len(requests) < MaxRequests
    /\ requests' = Append(requests, e)
    /\ streams' = IF IsIgnored(e) \/ ContentType(e) = "None"
                    THEN streams
                    ELSE streams \o StreamsOf(e)

Next == \E e \in Exchanges : AddRequest(e)

Spec == Init /\ [][Next]_vars

-----------------------------------------------------------------------------
URLs ==
    [server : {"live.streamtheworld.com", "mdn.newmedia.nacamar.net", "other", NoHost,
               "provisioning.streamtheworld.com"},
     path : {"own", "ps-", "pls"}, token : {"none", "first", "later"}]

Streams == [URL : URLs, format : {"MP3", "AAC", "HE-AAC", "unknown"}]

TypeOK ==
    /\ requests \in Seq(Exchanges) /\ Len(requests) <= MaxRequests
    /\ streams \in Seq(Streams)

\* The number of elements of q that are in A.
Count(q, A) == Cardinality({i \in DOMAIN q : q[i] \in A})

\* Audio of a server that sends Icecast headers, unless its path looks like a page
\* or an image, or the server is StreamTheWorld's.
IcecastAudio ==
    {e \in Exchanges :
        /\ e.icy /\ e.extension \notin PathExtensionsToIgnore
        /\ ContentType(e) \in {"MPEGStream", "AACStream"}
        /\ ResponseType(e) # "StreamTheWorld"}

\* None of it is missed: at least as many streams with a known format are listed as
\* such responses were seen, so neither the order of the tests nor the rewriting of
\* a URL loses one.
AudioIsFound ==
    Count(requests, IcecastAudio)
        <= Count(streams, {s \in Streams : s.format # "unknown"})

=============================================================================
