----------------------------- MODULE MediaInfo -----------------------------
(* The sizes of video buffers (kernel-headers/media/msm_media_info.h): from   *)
(* the format, the width and the height of a frame, the strides and scanlines *)
(* of its planes and the size that the allocator and the codec agree on.      *)
(* Sizes are far from 2^32: frames are no larger than 8192 on a side.         *)
EXTENDS Integers

CONSTANTS Widths, Heights        \* sides of the frames
ASSUME FrameAssumption == \A side \in Widths \cup Heights : side \in Nat \ {0} /\ side <= 8192

VARIABLE mdFrame     \* [fmt, w, h]

Linear == {"NV12", "NV21", "NV12_MVTB", "P010"}
YuvUbwc == {"NV12_UBWC", "NV12_BPP10_UBWC", "P010_UBWC"}
Yuv == Linear \cup YuvUbwc
RgbUbwc == {"RGBA8888_UBWC", "RGBA1010102_UBWC", "RGB565_UBWC"}
Rgb == {"RGBA8888"} \cup RgbUbwc
color_fmts == Yuv \cup Rgb

\* Both cases of the macro, a power of two and another number, round up to the
\* next multiple.
MSM_MEDIA_ALIGN(sz, align) == ((sz + align - 1) \div align) * align
MSM_MEDIA_ROUNDUP(sz, r) == (sz + r - 1) \div r
MSM_MEDIA_MAX(a, b) == IF a > b THEN a ELSE b
Half(n) == (n + 1) \div 2
VENUS_EXTRADATA_SIZE == 16384
-----------------------------------------------------------------------------
\* Also VENUS_UV_STRIDE, which has the same cases; 0 for a format without the
\* plane, here and below.
VENUS_Y_STRIDE(fmt, w) ==
  IF fmt \in {"NV21", "NV12", "NV12_MVTB", "NV12_UBWC"} THEN MSM_MEDIA_ALIGN(w, 128)
  ELSE IF fmt = "NV12_BPP10_UBWC" THEN
         MSM_MEDIA_ALIGN((MSM_MEDIA_ALIGN(w, 192) * 4) \div 3, 256)
  ELSE IF fmt = "P010_UBWC" THEN MSM_MEDIA_ALIGN(2 * w, 256)
  ELSE IF fmt = "P010" THEN MSM_MEDIA_ALIGN(2 * w, 128)
  ELSE 0
VENUS_Y_SCANLINES(fmt, h) ==
  IF fmt \in Linear \cup {"NV12_UBWC"} THEN MSM_MEDIA_ALIGN(h, 32)
  ELSE IF fmt \in {"NV12_BPP10_UBWC", "P010_UBWC"} THEN MSM_MEDIA_ALIGN(h, 16)
  ELSE 0
\* Loses the last line of an odd height.
Bug_VENUS_UV_SCANLINES(fmt, h) ==
  IF fmt = "NV12_UBWC" THEN MSM_MEDIA_ALIGN(h \div 2, 32)
  ELSE IF fmt \in Yuv \ {"NV12_UBWC"} THEN MSM_MEDIA_ALIGN(h \div 2, 16)
  ELSE 0
VENUS_UV_SCANLINES(fmt, h) ==
  IF fmt = "NV12_UBWC" THEN MSM_MEDIA_ALIGN(Half(h), 32)
  ELSE IF fmt \in Yuv \ {"NV12_UBWC"} THEN MSM_MEDIA_ALIGN(Half(h), 16)
  ELSE 0

\* Tiles that one byte of metadata stands for; only compressed formats.
y_tile_width(fmt) == IF fmt = "NV12_BPP10_UBWC" THEN 48 ELSE 32
y_tile_height(fmt) == IF fmt = "NV12_UBWC" THEN 8 ELSE 4
uv_tile_width(fmt) == IF fmt = "NV12_BPP10_UBWC" THEN 24 ELSE 16
VENUS_Y_META_STRIDE(fmt, w) == MSM_MEDIA_ALIGN(MSM_MEDIA_ROUNDUP(w, y_tile_width(fmt)), 64)
VENUS_Y_META_SCANLINES(fmt, h) == MSM_MEDIA_ALIGN(MSM_MEDIA_ROUNDUP(h, y_tile_height(fmt)), 16)
VENUS_UV_META_STRIDE(fmt, w) ==
  MSM_MEDIA_ALIGN(MSM_MEDIA_ROUNDUP(Half(w), uv_tile_width(fmt)), 64)
\* The heights of the tiles are those of the Y plane.
VENUS_UV_META_SCANLINES(fmt, h) ==
  MSM_MEDIA_ALIGN(MSM_MEDIA_ROUNDUP(Half(h), y_tile_height(fmt)), 16)

VENUS_RGB_STRIDE(fmt, w) ==
  IF fmt = "RGBA8888" THEN MSM_MEDIA_ALIGN(w * 4, 128)
  ELSE IF fmt = "RGB565_UBWC" THEN MSM_MEDIA_ALIGN(w * 2, 256)
  ELSE IF fmt \in {"RGBA8888_UBWC", "RGBA1010102_UBWC"} THEN MSM_MEDIA_ALIGN(w * 4, 256)
  ELSE 0
VENUS_RGB_SCANLINES(fmt, h) ==
  IF fmt = "RGBA8888" THEN MSM_MEDIA_ALIGN(h, 32)
  ELSE IF fmt \in RgbUbwc THEN MSM_MEDIA_ALIGN(h, 16)
  ELSE 0
VENUS_RGB_META_STRIDE(fmt, w) == MSM_MEDIA_ALIGN(MSM_MEDIA_ROUNDUP(w, 16), 64)
VENUS_RGB_META_SCANLINES(fmt, h) == MSM_MEDIA_ALIGN(MSM_MEDIA_ROUNDUP(h, 4), 16)

Page(n) == MSM_MEDIA_ALIGN(n, 4096)
YPlane(fmt, w, h) == VENUS_Y_STRIDE(fmt, w) * VENUS_Y_SCANLINES(fmt, h)
UvPlane(fmt, w, h) == VENUS_Y_STRIDE(fmt, w) * VENUS_UV_SCANLINES(fmt, h)
\* The four planes of a compressed picture of h lines, each on pages of its own.
UbwcPlanes(fmt, w, h) ==
  Page(YPlane(fmt, w, h)) + Page(UvPlane(fmt, w, h))
  + Page(VENUS_Y_META_STRIDE(fmt, w) * VENUS_Y_META_SCANLINES(fmt, h))
  + Page(VENUS_UV_META_STRIDE(fmt, w) * VENUS_UV_META_SCANLINES(fmt, h))
RgbPlane(fmt, w, h) == Page(VENUS_RGB_STRIDE(fmt, w) * VENUS_RGB_SCANLINES(fmt, h))
RgbMetaPlane(fmt, w, h) == Page(VENUS_RGB_META_STRIDE(fmt, w) * VENUS_RGB_META_SCANLINES(fmt, h))
\* For the last row of a large frame.
Large(w, h, size) ==
  IF w >= 2400 /\ h >= 2400 THEN Page(size + MSM_MEDIA_ALIGN(w, 512) * 512) ELSE size

\* NV12_UBWC is sized for the two fields of an interlaced picture.
VENUS_BUFFER_SIZE(fmt, w, h) ==
  LET stride == VENUS_Y_STRIDE(fmt, w)
      planes == YPlane(fmt, w, h) + UvPlane(fmt, w, h) + 4096
      extra8 == MSM_MEDIA_MAX(VENUS_EXTRADATA_SIZE, 8 * stride)
      extra48 == MSM_MEDIA_MAX(VENUS_EXTRADATA_SIZE + 8192, 48 * stride)
  IN  IF fmt \in {"NV21", "NV12"} THEN Large(w, h, Page(planes + extra8))
      ELSE IF fmt = "P010" THEN Page(planes + extra8)
      ELSE IF fmt = "NV12_MVTB" THEN Page(2 * planes + VENUS_EXTRADATA_SIZE)
      ELSE IF fmt = "NV12_UBWC" THEN Large(w, h, Page(2 * UbwcPlanes(fmt, w, Half(h)) + extra48))
      ELSE IF fmt = "NV12_BPP10_UBWC" THEN Page(UbwcPlanes(fmt, w, h) + extra48)
      ELSE IF fmt = "P010_UBWC" THEN UbwcPlanes(fmt, w, h)
      ELSE IF fmt = "RGBA8888" THEN RgbPlane(fmt, w, h)
      ELSE RgbPlane(fmt, w, h) + RgbMetaPlane(fmt, w, h)

\* Of the second view of NV12_MVTB, from the start of the buffer.
VENUS_VIEW2_OFFSET(fmt, w, h) ==
  IF fmt = "NV12_MVTB" THEN YPlane(fmt, w, h) + UvPlane(fmt, w, h) ELSE 0
-----------------------------------------------------------------------------
Frames == [fmt : color_fmts, w : Widths, h : Heights]
MediaInit == mdFrame \in Frames
\* A stream that changes its resolution.
MediaNext == \E f \in Frames : f.fmt = mdFrame.fmt /\ f.w > mdFrame.w /\ mdFrame' = f
MediaSpec == MediaInit /\ [][MediaNext]_mdFrame

\* Bytes of a line with w pixels.
LineBytes(fmt, w) ==
  IF fmt \in {"NV12", "NV21", "NV12_MVTB", "NV12_UBWC"} THEN w
  ELSE IF fmt \in {"P010", "P010_UBWC", "RGB565_UBWC"} THEN 2 * w
  ELSE IF fmt = "NV12_BPP10_UBWC" THEN (4 * w + 2) \div 3
  ELSE 4 * w

\* What the planes that the comments of enum color_fmts draw take up, with the
\* strides and scanlines that the code computes: a picture, the two fields of an
\* interlaced one, two views.  For RGBA8888_UBWC the comment has other ones
\* (lines 576 and 577: aligned to 128 and 32), for RGB565_UBWC another stride
\* (line 672: 128); the code aligns to 256 and 16.
Layouts(fmt, w, h) ==
  IF fmt \in {"NV12", "NV21", "P010"} THEN {Page(YPlane(fmt, w, h)) + UvPlane(fmt, w, h)}
  ELSE IF fmt = "NV12_MVTB" THEN
         {VENUS_VIEW2_OFFSET(fmt, w, h) + YPlane(fmt, w, h) + UvPlane(fmt, w, h)}
  ELSE IF fmt = "NV12_UBWC" THEN {UbwcPlanes(fmt, w, h), 2 * UbwcPlanes(fmt, w, Half(h))}
  ELSE IF fmt \in {"NV12_BPP10_UBWC", "P010_UBWC"} THEN {UbwcPlanes(fmt, w, h)}
  ELSE IF fmt \in RgbUbwc THEN {RgbMetaPlane(fmt, w, h) + RgbPlane(fmt, w, h)}
  ELSE {RgbPlane(fmt, w, h)}
\* The extra data that the code makes room for.  The comments add it to the
\* total of every format; the code leaves it out for P010_UBWC (lines 765 to
\* 769) and for the four RGB formats (lines 537 to 539, 583 to 586, 630 to 633
\* and 677 to 680), whose buffers are smaller than the totals written there.
Extra(fmt) == IF fmt \in Yuv \ {"P010_UBWC"} THEN VENUS_EXTRADATA_SIZE ELSE 0

LayoutsFit(fmt, w, h) ==
  \A need \in Layouts(fmt, w, h) : need + Extra(fmt) <= VENUS_BUFFER_SIZE(fmt, w, h)
\* Every tile of a compressed picture has its byte of metadata.
TilesFit(fmt, w, h) ==
  /\ fmt \in YuvUbwc =>
       /\ VENUS_Y_META_STRIDE(fmt, w) * y_tile_width(fmt) >= w
       /\ VENUS_Y_META_SCANLINES(fmt, h) * y_tile_height(fmt) >= h
       /\ VENUS_UV_META_STRIDE(fmt, w) * uv_tile_width(fmt) >= Half(w)
       /\ VENUS_UV_META_SCANLINES(fmt, h) * y_tile_height(fmt) >= Half(h)
  /\ fmt \in RgbUbwc =>
       /\ VENUS_RGB_META_STRIDE(fmt, w) * 16 >= w
       /\ VENUS_RGB_META_SCANLINES(fmt, h) * 4 >= h
LinesFit(fmt, w, h) ==
  IF fmt \in Yuv
  THEN /\ VENUS_Y_STRIDE(fmt, w) >= LineBytes(fmt, w) /\ VENUS_Y_SCANLINES(fmt, h) >= h
       /\ 2 * VENUS_UV_SCANLINES(fmt, h) >= h
  ELSE VENUS_RGB_STRIDE(fmt, w) >= LineBytes(fmt, w) /\ VENUS_RGB_SCANLINES(fmt, h) >= h
SmallerFit(fmt, w, h) ==
  \A v \in Widths, g \in Heights :
    v <= w /\ g <= h => VENUS_BUFFER_SIZE(fmt, v, g) <= VENUS_BUFFER_SIZE(fmt, w, h)

\* A buffer of VENUS_BUFFER_SIZE holds all planes drawn for its format, in the
\* code's alignments, and behind them the extra data where the code makes room
\* for it (not for P010_UBWC and the RGB formats); every line, the chroma line
\* of an odd height included, and every tile's metadata has its place; and a
\* buffer for a frame is large enough for a smaller one, to which a stream may
\* change.
BufferHoldsFrame ==
  LET fmt == mdFrame.fmt  w == mdFrame.w  h == mdFrame.h
  IN  LayoutsFit(fmt, w, h) /\ LinesFit(fmt, w, h) /\ TilesFit(fmt, w, h) /\ SmallerFit(fmt, w, h)
=============================================================================
