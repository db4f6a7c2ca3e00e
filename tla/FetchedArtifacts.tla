-------------------------- MODULE FetchedArtifacts --------------------------
(***************************************************************************)
(* The other artifacts prepare gets: DownloadImage archives                *)
(* (internal/prepare/download_images.go), which are written in place next  *)
(* to one file with the checksums of all of them, and DownloadFile files   *)
(* (internal/prepare/download_file.go), which are renamed into place and   *)
(* followed by a sidecar with their checksum and the validators the server *)
(* sent, if it sent any. They are modelled like the packages, call by      *)
(* call. The files come from a URL, and no step gives their checksum.      *)
(***************************************************************************)
EXTENDS PackageArtifacts

CONSTANTS
  Images,      \* [DownloadImage step -> the images it asks for]
  Url,         \* [DownloadFile step -> the URL it asks for, which names its file]
  Offline      \* those of them with fetch.offlineOnly

ImageSteps == DOMAIN Images
FileSteps  == DOMAIN Url

Urls == {Url[s] : s \in FileSteps}

AllSteps == Steps \cup ImageSteps \cup FileSteps

ASSUME FetchedAssumption ==
  /\ Steps \cap (ImageSteps \cup FileSteps) = {}
  /\ ImageSteps \cap FileSteps = {}
  /\ Offline \subseteq FileSteps

\* A file whose write was cut short is not the artifact it should have been.
ASSUME TornAssumption ==
  \A s \in Steps \cup Urls \cup UNION {Images[i] : i \in ImageSteps}, v \in Versions :
     Artifact(s, v) # Torn

VARIABLE loose  \* the files under outputs/images and outputs/files

fetchVars == <<final, temp, upstream>>

Archive(i) == <<"images", i, "tar">>
Metas      == <<"images", "*", "metas">>

File(s)     == <<"files", Url[s], "data">>
Sidecar(s)  == <<"files", Url[s], "sidecar">>
Leftover(s) == <<"files", Url[s], "tmp">>

Has(path) == path \in DOMAIN loose

\* A new attempt goes on with the directory names of the process.
StartStep(s, refresh) ==
  /\ work' = [work EXCEPT !.step = s, !.refresh = refresh,
                !.pc = CASE s \in Steps -> "reuse" [] s \in ImageSteps -> "images"
                         [] s \in FileSteps -> "file",
                !.left = IF s \in ImageSteps THEN Images[s] ELSE {}]
  /\ UNCHANGED <<fetchVars, loose>>

-----------------------------------------------------------------------------
(* DownloadImage                                                           *)

\* What is recorded of the images; a file that does not parse records nothing.
Recorded == IF Has(Metas) /\ loose[Metas] # Torn THEN loose[Metas] ELSE Empty

Image == CHOOSE i \in work.left : TRUE

ImageReusable ==
  /\ ~work.refresh
  /\ Image \in DOMAIN Recorded
  /\ Has(Archive(Image))
  /\ loose[Archive(Image)] = Recorded[Image]

\* One image after the other: reused, or removed and pulled again.
NextImage ==
  /\ At("images") /\ work.left # {}
  /\ IF ImageReusable
     THEN work' = [work EXCEPT !.left = @ \ {Image}] /\ UNCHANGED loose
     ELSE Goto("pull") /\ loose' = Without(loose, Archive(Image))
  /\ UNCHANGED fetchVars

ImagesDone ==
  /\ At("images") /\ work.left = {}
  /\ Goto("done")
  /\ UNCHANGED <<fetchVars, loose>>

\* The archive is written under its own name.
PullImage ==
  /\ At("pull")
  /\ loose' = With(loose, Archive(Image), Artifact(Image, upstream))
  /\ Goto("metas")
  /\ UNCHANGED fetchVars

\* writeImageArtifactMetas, in place too.
WriteMetas ==
  /\ At("metas")
  /\ loose' = With(loose, Metas, With(Recorded, Image, loose[Archive(Image)]))
  /\ work' = [work EXCEPT !.pc = "images", !.left = @ \ {Image}]
  /\ UNCHANGED fetchVars

-----------------------------------------------------------------------------
(* DownloadFile                                                            *)

\* canReuseDownloadFile: the file has the checksum of the sidecar; and the server
\* says that its validators still hold, if there are any and it may be asked.
FileReusable(s) ==
  /\ ~work.refresh
  /\ Has(File(s)) /\ Has(Sidecar(s))
  /\ loose[File(s)] = loose[Sidecar(s)].sum
  /\ s \in Offline \/ ~loose[Sidecar(s)].validators \/ loose[File(s)].version = upstream

CheckFile ==
  /\ At("file")
  /\ Goto(IF FileReusable(work.step) THEN "done" ELSE "download")
  /\ UNCHANGED <<fetchVars, loose>>

\* Into a temporary file with a name of its own.
Download ==
  /\ At("download") /\ work.step \notin Offline
  /\ work' = [work EXCEPT !.pc = "rename", !.version = upstream]
  /\ UNCHANGED <<fetchVars, loose>>

\* E_PREPARE_OFFLINE_POLICY_BLOCK
DownloadBlocked ==
  /\ At("download") /\ work.step \in Offline
  /\ Goto("failed")
  /\ UNCHANGED <<fetchVars, loose>>

RenameFile ==
  /\ At("rename")
  /\ loose' = With(loose, File(work.step), Artifact(Url[work.step], work.version))
  /\ Goto("sidecar")
  /\ UNCHANGED fetchVars

\* writeDownloadFileSidecar, by way of a temporary file as well. A server need not
\* send an ETag or a Last-Modified.
WriteSidecar ==
  /\ At("sidecar")
  /\ \E validators \in BOOLEAN :
       loose' = With(loose, Sidecar(work.step),
                     [sum |-> loose[File(work.step)], validators |-> validators])
  /\ Goto("done")
  /\ UNCHANGED fetchVars

FetchCall ==
  \/ NextImage \/ ImagesDone \/ PullImage \/ WriteMetas
  \/ CheckFile \/ Download \/ DownloadBlocked \/ RenameFile \/ WriteSidecar

-----------------------------------------------------------------------------
\* What is in place is torn; a temporary file stays where it is.
FetchCutShort ==
  \/ UNCHANGED loose
  \/ At("pull") /\ loose' = With(loose, Archive(Image), Torn)
  \/ At("metas") /\ loose' = With(loose, Metas, Torn)
  \/ /\ \/ At("download") \/ At("rename") \/ At("sidecar")
     /\ loose' = With(loose, Leftover(work.step), Torn)

\* The temporary file of an attempt that fails is removed.
FetchFails ==
  /\ \/ (At("pull") \/ At("metas")) /\ FetchCutShort
     \/ (At("file") \/ At("download") \/ At("rename") \/ At("sidecar")) /\ UNCHANGED loose
  /\ Goto("failed")
  /\ UNCHANGED fetchVars
=============================================================================
