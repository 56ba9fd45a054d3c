------------------------------ MODULE Documents ------------------------------
(***************************************************************************)
(* What an uploaded file is taken for, and what is read of it              *)
(* (infra/documents, api/routers/receipts.py): its size, what it says it   *)
(* is, what its bytes say, and the bounds on what comes out of it.  A file *)
(* is a record of what these look at; its first bytes are "starts".        *)
(***************************************************************************)
EXTENDS Integers, SequencesExt

CONSTANTS
    MaxBytes,   \* the bytes of an upload
    MaxPages,   \* the pages of a PDF
    MaxChars,   \* the characters of a text
    MaxEdge     \* the side of an image, in pixels

Text(pages) == [kind |-> "text", measure |-> "none", pages |-> pages]
TooLarge(measure) == [kind |-> "too-large", measure |-> measure, pages |-> <<>>]
Unreadable == [kind |-> "unreadable", measure |-> "none", pages |-> <<>>]
Image(format) == [kind |-> "image", measure |-> format, pages |-> <<>>]

PdfTypes == {"application/pdf", "application/x-pdf"}
ImageTypes == {"image/jpeg", "image/jpg", "image/png", "image/webp", "image/gif"}
ImageSuffixes == {"jpg", "jpeg", "png", "webp", "gif", "heic", "heif"}
HeifBrands == {"heic", "heix", "hevc", "hevx", "mif1", "msf1", "heim"}

(* Which reader an upload is handed to; both look at the bytes again.       *)
ReadUpload(file) ==
    CASE file.bytes > MaxBytes -> "too-large"
      [] file.bytes <= MaxBytes /\ (file.type \in PdfTypes \/ file.suffix = "pdf") -> "pdf"
      [] file.bytes <= MaxBytes /\ ~(file.type \in PdfTypes \/ file.suffix = "pdf")
           /\ (file.type \in ImageTypes \/ file.suffix \in ImageSuffixes) -> "image"
      [] OTHER -> "unsupported"

CheckDimensions(width, height) == width \in 1..MaxEdge /\ height \in 1..MaxEdge

(* The segments of a JPEG up to the first scan: all hold together, a frame  *)
(* came before the scan, and the image ends after it.                       *)
CheckJpeg(file) ==
    LET segments == file.segments
        scans == {i \in DOMAIN segments : segments[i].marker = "scan"}
        scan == CHOOSE i \in scans : \A j \in scans : i <= j
    IN  /\ scans # {}
        /\ \A i \in 1..scan : /\ segments[i].whole
                              /\ segments[i].marker = "frame" =>
                                   CheckDimensions(segments[i].width, segments[i].height)
        /\ \E i \in 1..scan : segments[i].marker = "frame"
        /\ file.ends

CheckPng(file) == file.header /\ file.sum /\ CheckDimensions(file.width, file.height) /\ file.ends
CheckGif(file) == CheckDimensions(file.width, file.height) /\ file.ends
CheckWebp(file) == file.ends /\ file.header

(* A photograph is one by its bytes, whatever it was called.                *)
SniffImage(file) ==
    LET Checked(format, holds) == IF holds THEN Image(format) ELSE Unreadable
    IN  CASE file.bytes > MaxBytes -> TooLarge("bytes")
          [] file.bytes <= MaxBytes /\ file.starts = "jpeg" -> Checked("jpeg", CheckJpeg(file))
          [] file.bytes <= MaxBytes /\ file.starts = "png" -> Checked("png", CheckPng(file))
          [] file.bytes <= MaxBytes /\ file.starts = "gif" -> Checked("gif", CheckGif(file))
          [] file.bytes <= MaxBytes /\ file.starts = "webp" -> Checked("webp", CheckWebp(file))
          [] OTHER -> Unreadable    \* HEIC, a video, another file, or too short for any

(* A page gives its lines and its characters, or cannot be read and is      *)
(* skipped; the bound on the characters stops at the page that passes it.   *)
BoundedPages(pages) ==
    LET read == SelectSeq(pages, LAMBDA page : page.reads)
        total == FoldLeft(LAMBDA n, page : n + page.chars, 0, read)
    IN  IF total > MaxChars THEN TooLarge("characters") ELSE Text(read)

(* The text of a PDF, in a process that may spend what it likes.            *)
ExtractPdfText(file) ==
    CASE file.starts # "pdf" \/ ~file.opens \/ file.encrypted \/ ~file.paged -> Unreadable
      [] file.starts = "pdf" /\ file.opens /\ ~file.encrypted /\ file.paged
           /\ Len(file.pages) > MaxPages -> TooLarge("pages")
      [] OTHER -> BoundedPages(file.pages)
==============================================================================
